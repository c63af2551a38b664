--------------------------- MODULE MCTypeExtraction ---------------------------
(****************************************************************************)
(* Programs for TypeExtraction: assignments to a pointer that is reached    *)
(* from a variable of type R or pointer to R, through members, arrays and   *)
(* pointers, compiled the ways Clang and LLVM compile them.  The unit is a  *)
(* pointer.                                                                 *)
(****************************************************************************)
EXTENDS TypeExtraction

MCNode == {"R", "S", "T", "B", "E", "F", "W", "r1", "r2", "r3", "vp", "rE", "rF", "rB", "st", "su",
           "fn", "s1", "s2", "t1", "t2", "b1", "b2", "w1", "w2", "p1", "p2", "p3", "ps", "q1", "q2",
           "x1", "x2", "vt", "pR", "pS", "ppS", "pT", "pW", "pE", "ppE", "pD", "ppD", "ppi", "pi",
           "tS", "a", "as", "aR", "pv", "D", "dim", "ref", "int"}

Pointers == {"p1", "p2", "p3", "ps", "q1", "q2", "x1", "x2", "vt", "pR", "pS", "ppS", "pT", "pW",
             "pE", "ppE", "pD", "ppD", "ppi", "pi", "pv"}

Tags(n) ==
    CASE n \in {"R", "S", "T", "B", "E", "F", "W"} -> "struct"
      [] n \in Pointers -> "pointer" [] n = "ref" -> "reference"
      [] n \in {"rE", "rF", "rB"} -> "inheritance" [] n \in {"st", "su"} -> "static_member"
      [] n \in {"a", "as", "aR"} -> "array" [] n = "D" -> "declaration" [] n = "tS" -> "typedef"
      [] n \in {"int", "dim", "fn"} -> "basic" [] OTHER -> "member"

SizeOf(t) == CASE t \in {"S", "tS", "a", "as", "T", "B"} -> 2 [] OTHER -> 1

\* R with these elements, its members r1, r2, r3 of these types.  S is a struct
\* of a pointer to T and a pointer; T, B two pointers; W a pointer and an R.
Layout(elems, types, anon) ==
    LET at(i) == IF i = 1 THEN IF "rB" \in ToSet(elems) THEN 2 ELSE IF "vp" \in ToSet(elems) THEN 1 ELSE 0
                 ELSE 0
        o1 == at(1)
        o2 == o1 + SizeOf(types[1])
        o3 == o2 + SizeOf(types[2])
    IN  [tag |-> [n \in MCNode |-> Tags(n)],
         base |-> "r1" :> types[1] @@ "r2" :> types[2] @@ "r3" :> types[3] @@ "vp" :> "vt"
               @@ "rE" :> "E" @@ "rF" :> "F" @@ "rB" :> "B" @@ "s1" :> "pT" @@ "s2" :> "ps"
               @@ "t1" :> "q1" @@ "t2" :> "q2" @@ "b1" :> "x1" @@ "b2" :> "x2" @@ "w1" :> "p1" @@ "w2" :> "R"
               @@ "pR" :> "R" @@ "pS" :> "S" @@ "ppS" :> "pS" @@ "pT" :> "T" @@ "pW" :> "W"
               @@ "pE" :> "E" @@ "ppE" :> "pE" @@ "pD" :> "D" @@ "ppD" :> "pD" @@ "ppi" :> "pi"
               @@ "aR" :> "R" @@ "tS" :> "S" @@ "a" :> "pi" @@ "as" :> "pS"
               @@ "ref" :> "pi" @@ "pv" :> NoNode @@ "st" :> "int" @@ "su" :> "int"
               @@ [n \in MCNode |-> IF n \in Pointers THEN "int" ELSE NoNode],
         elements |-> "R" :> elems @@ "S" :> <<"s1", "s2">> @@ "T" :> <<"t1", "t2">> @@ "B" :> <<"b1", "b2">>
               @@ "W" :> <<"w1", "w2">> @@ "a" :> <<"dim">> @@ "as" :> <<"dim">> @@ "aR" :> <<"dim">>
               @@ [n \in MCNode |-> <<>>],
         offset |-> "r1" :> o1 @@ "r2" :> o2 @@ "r3" :> o3 @@ "s2" :> 1 @@ "t2" :> 1 @@ "b2" :> 1 @@ "w2" :> 1
               @@ [n \in MCNode |-> 0],
         size |-> "r1" :> SizeOf(types[1]) @@ "r2" :> SizeOf(types[2]) @@ "r3" :> SizeOf(types[3])
               @@ "w2" :> o3 + SizeOf(types[3]) @@ [n \in MCNode |-> 1],
         anonymous |-> anon,
         vptr |-> {"vp"},
         root |-> "R"]

Types(i) == {CASE i = 1 -> "p1" [] i = 2 -> "p2" [] OTHER -> "p3", "S", "tS", "pS", "a", "as"}

\* Empty bases, bases with members, and static members among the members.
Plain == <<"r1", "r2", "r3", "fn">>

Elements == {Plain,
             <<"rE", "r1", "r2", "r3">>,
             <<"rE", "rF", "r1", "r2", "r3">>,
             <<"rE", "st", "su", "r1">>,
             <<"rB", "r1", "r2", "r3">>,
             <<"rE", "rB", "r1", "r2", "r3">>,
             <<"r1", "r2", "st", "su", "r3">>,
             <<"vp", "r1", "r2", "r3">>,
             <<"r1">>}

\* One member that is no plain pointer, or two with the same struct.
MCGraphs ==
    {Layout(Plain, <<t1, "p2", "p3">>, {}) : t1 \in Types(1)}
    \cup {Layout(Plain, <<"p1", t2, "p3">>, {}) : t2 \in Types(2)}
    \cup {Layout(Plain, <<t1, t2, "p3">>, {}) : t1, t2 \in {"S", "pS"}}
    \cup {Layout(elems, <<t1, "p2", "p3">>, {}) : elems \in Elements, t1 \in {"p1", "S", "a"}}
    \cup {Layout(elems, <<"p1", "S", "p3">>, {}) : elems \in Elements}
    \cup {Layout(Plain, <<"p1", "p2", "p3">>, {"R"})}

MCRank == [n \in MCNode |-> CASE n \in {"ppS", "ppE", "ppD", "ppi"} -> 2
                               [] n \in Pointers \cup {"tS"} /\ n \notin {"ppS", "ppE", "ppD", "ppi"} -> 1
                               [] Tags(n) \in {"member", "static_member", "inheritance", "reference"} -> 3
                               [] OTHER -> 0]

ASSUME MCDerivedEnds == \A g \in MCGraphs : DerivedEnds(g, MCRank)

\* An array of structs.
ArrayGraphs == {Layout(Plain, <<"p1", "p2", "p3">>, {})}

(****************************************************************************)
(* What is assigned to: segments, separated by the loads of pointers.  A    *)
(* segment selects members by value and may index an array at last.         *)
(****************************************************************************)

noIndex == -2

Segment(members, index) == [members |-> members, index |-> index]

SegmentsOf(g, struct) ==
    LET fields == {m \in ToSet(g.elements[struct]) : g.tag[m] = "member"} \ g.vptr
        of(t) == {m \in fields : g.base[m] = t}
        bases == {m \in ToSet(g.elements[struct]) : m = "rB"}
    IN  {Segment(<<m>>, noIndex) : m \in {m \in fields : g.tag[g.base[m]] = "pointer"}}
        \cup {Segment(<<m, s>>, noIndex) : m \in of("S") \cup of("tS"), s \in {"s1", "s2"}}
        \cup {Segment(<<m, b>>, noIndex) : m \in bases, b \in {"b1", "b2"}}
        \cup {Segment(<<m>>, i) : m \in of("a") \cup of("as"), i \in {0, 1, dynamic}}

\* The pointer that lies at a segment.
PointerAt(g, seg) ==
    LET t == g.base[Last(seg.members)] IN IF seg.index = noIndex THEN t ELSE g.base[t]

RECURSIVE Segments(_, _)

Segments(g, struct) ==
    UNION {{<<seg>>} \cup {<<seg>> \o rest : rest \in IF PointerAt(g, seg) \in {"pS", "pT"}
                                                     THEN Segments(g, g.base[PointerAt(g, seg)]) ELSE {}} :
             seg \in SegmentsOf(g, struct)}

(****************************************************************************)
(* Compiling an assignment.                                                 *)
(****************************************************************************)

NoTag == [kind |-> "none", base |-> NoNode, offset |-> 0]

PointerTag == [kind |-> "pointer", base |-> NoNode, offset |-> 0]

Tag(base, offset) == [kind |-> "struct", base |-> base, offset |-> offset]

Value(op, tbaa) ==
    [op |-> op, src |-> "none", indices |-> <<>>, inlined |-> NoNode, tbaa |-> tbaa, denotes |-> NoNode]

Gep(src, indices, denotes) ==
    [Value("gep", NoTag) EXCEPT !.src = src, !.indices = indices, !.denotes = denotes]

\* The field of the LLVM struct: empty bases and static members have none.
Field(g, m) ==
    LET elems == g.elements[CHOOSE n \in MCNode : m \in ToSet(g.elements[n])]
        before == SubSeq(elems, 1, SelectInSeq(elems, LAMBDA e : e = m) - 1)
    IN  Len(SelectSeq(before, LAMBDA e : e = "rB" \/ g.tag[e] = "member"))

Offset(g, seg) == FoldSeq(LAMBDA m, sum : g.offset[m] + sum, 0, seg.members)

IsZero(gep) == \A i \in DOMAIN gep.indices : gep.indices[i] = 0

\* One getelementptr for each member and index.
Separate(g, seg) ==
    LET indexing == IF seg.index = noIndex THEN <<>>
                    ELSE <<Gep("array", <<0, seg.index>>, Last(seg.members))>>
    IN  indexing \o Reverse([i \in DOMAIN seg.members |->
                                Gep("struct", <<0, Field(g, seg.members[i])>>, seg.members[i])])

\* One for all of them.
Merged(g, seg) ==
    <<Gep("struct",
          <<0>> \o [i \in DOMAIN seg.members |-> Field(g, seg.members[i])]
                \o IF seg.index = noIndex THEN <<>> ELSE <<seg.index>>,
          Last(seg.members))>>

\* The same without the zeros that it ends with, or none if it has only zeros.
Trimmed(g, seg) ==
    LET indices == Merged(g, seg)[1].indices
        kept == SelectLastInSeq(indices, LAMBDA i : i # 0)
        n == Len(seg.members)
    IN  IF kept = 0 THEN <<>>
        ELSE <<Gep("struct", SubSeq(indices, 1, kept), seg.members[IF kept - 1 < n THEN kept - 1 ELSE n])>>

\* On bytes; a dynamic index keeps its getelementptr.
OnBytes(g, seg) ==
    LET size == IF seg.index \in {noIndex, dynamic} THEN 0 ELSE seg.index
        offset == Offset(g, seg) + size
    IN  (IF seg.index = dynamic THEN <<Gep("array", <<0, dynamic>>, Last(seg.members))>> ELSE <<>>)
        \o IF offset = 0 THEN <<>> ELSE <<Gep("i8", <<offset>>, Last(seg.members))>>

Address(mode, g, seg) ==
    CASE mode \in {"O0", "separate"} -> Separate(g, seg) [] mode = "merged" -> Merged(g, seg)
      [] mode = "trimmed" -> Trimmed(g, seg) [] mode = "bytes" -> OnBytes(g, seg)

\* An access to a member of a base class is one to the base class.
TagOf(mode, g, seg, struct) ==
    IF mode = "O0" THEN NoTag
    ELSE IF seg.index # noIndex THEN PointerTag
    ELSE IF Head(seg.members) = "rB" THEN Tag("B", g.offset[seg.members[2]])
    ELSE Tag(struct, Offset(g, seg))

RECURSIVE Compile(_, _, _, _)

\* The store or load op at the last segment, back to the variable.
Compile(op, mode, g, segs) ==
    LET seg == Last(segs)
        before == Front(segs)
        struct == IF before = <<>> THEN "R" ELSE g.base[PointerAt(g, Last(before))]
    IN  <<Value(op, TagOf(mode, g, seg, struct))>> \o Address(mode, g, seg)
        \o IF before = <<>> THEN <<>> ELSE Compile("load", mode, g, before)

(****************************************************************************)
(* Programs outside of what the rules of thumb are made for.                *)
(****************************************************************************)

Vanishes(mode, g, seg) ==
    /\ mode \in {"trimmed", "bytes"}
    /\ \A i \in DOMAIN Address(mode, g, seg) : Address(mode, g, seg)[i].src = "array"

\* No getelementptr tells that the array is a member, or that the pointer is
\* loaded from the first member of a variable.
FirstMemberUntold(mode, g, segs, var_type) ==
    \/ \E i \in DOMAIN segs : segs[i].index # noIndex /\ Vanishes(mode, g, segs[i])
    \/ var_type = "R" /\ Len(segs) > 1 /\ Vanishes(mode, g, segs[1])

\* The offsets in a struct that is named by a typedef are not known.
TypedefAtOffset(g, seg) == \E m \in ToSet(seg.members) : g.offset[m] > 0 /\ g.base[m] = "tS"

\* A struct after another one or a pointer to one: a search by offset or tag
\* meets its members there first.
AfterItsLike(g, m) ==
    /\ g.base[m] \in {"S", "tS"}
    /\ \E other \in {"r1", "r2", "r3"} : g.base[other] \in {"S", "tS", "pS"} /\ g.offset[other] < g.offset[m]

\* A pointer to a struct in front of the struct: its tag is taken for one of it.
BeforeItsLike(g, m) ==
    /\ g.base[m] = "pS"
    /\ \E other \in {"r1", "r2", "r3"} : g.base[other] \in {"S", "tS"} /\ g.offset[other] > g.offset[m]

\* The first of two empty bases is not seen, a base with members never skipped.
BaseUntold(mode, g, seg) ==
    \/ Head(seg.members) = "rB" /\ mode \in {"O0", "separate"}
    \/ Head(seg.members) = "r1" /\ mode # "bytes" /\ "rF" \in ToSet(g.elements["R"])

Excluded(mode, g, segs, var_type) ==
    \/ FirstMemberUntold(mode, g, segs, var_type)
    \/ mode \in {"trimmed", "bytes"} /\ \E i \in DOMAIN segs : TypedefAtOffset(g, segs[i])
    \/ mode # "O0" /\ \/ AfterItsLike(g, Head(segs[1].members))
                      \/ Len(segs) = 1 /\ BeforeItsLike(g, Head(segs[1].members))
    \/ BaseUntold(mode, g, segs[1])

(****************************************************************************)
(* The call paths.                                                          *)
(****************************************************************************)

Program(path, var_type, expected) ==
    [path |-> path, root |-> var_type, fortran |-> FALSE, memcpy |-> "none", expected |-> expected]

alloca == <<Value("alloca", NoTag)>>

global == <<Value("global", NoTag)>>

argument == <<Value("argument", NoTag)>>

loaded == <<Value("load", NoTag)>> \o alloca

Store(tbaa) == <<Value("store", tbaa)>>

Modes == {"O0", "separate", "merged", "trimmed", "bytes"}

\* A variable of type R, or of one that points to R.
Variables(mode) ==
    {<<alloca, "R">>, <<loaded, "pR">>}
    \cup IF mode \in {"O0", "separate"} THEN {} ELSE {<<argument, "pR">>, <<global, "R">>}

\* The address of a member of a global is a constant expression.
ConstantAddress(path) ==
    [i \in DOMAIN path |->
        IF /\ i + 1 = Len(path) /\ Last(path).op = "global" /\ path[i].op = "gep"
           /\ ~has_non_const_index(path[i])
        THEN [path[i] EXCEPT !.op = "constant_gep"] ELSE path[i]]

Assignments(g) ==
    UNION {{Program(ConstantAddress(Compile("store", mode, g, segs) \o var[1]), var[2],
                    PointerAt(g, Last(segs))) :
              segs \in {segs \in Segments(g, "R") : ~Excluded(mode, g, segs, var[2])}} :
             <<mode, var>> \in UNION {{m} \X Variables(m) : m \in Modes}}

\* Without a getelementptr, the tag alone says what is assigned to.
Tagged(g) ==
    LET segs == {seg \in SegmentsOf(g, "R") :
                    /\ seg.index = noIndex /\ Head(seg.members) # "rB"
                    /\ ~TypedefAtOffset(g, seg) /\ ~AfterItsLike(g, Head(seg.members))}
        sub == g.anonymous = {} /\ "rB" \notin ToSet(g.elements["R"])
        vptr == "vp" \in ToSet(g.elements["R"])
        to(base, seg, var, var_type) ==
            Program(Store(Tag(base, Offset(g, seg) + IF base = "W" THEN 1 ELSE 0)) \o var,
                    var_type, PointerAt(g, seg))
    IN  {to("R", seg, alloca, var) : seg \in segs, var \in {"R", "pR"} \cup IF sub THEN {"W", "pW"} ELSE {}}
        \cup {to("W", seg, alloca, var) :
                seg \in segs, var \in {"W", "pW"} \cup IF sub THEN {"R", "pR"} ELSE {}}
        \cup {to("R", seg, loaded, "pR") : seg \in IF vptr THEN segs ELSE {}}

\* A getelementptr on S for a member of R, which has no other member.
OnlyMember(g) ==
    IF g.elements["R"] = <<"r1">> /\ g.base["r1"] \in {"S", "tS"}
    THEN {Program(Store(Tag("R", 1)) \o <<Gep("struct", <<0, 1>>, "s2")>> \o var, "pR", "ps") :
            var \in {loaded, argument}}
    ELSE {}

Index(src, i) == <<Gep(src, <<i>>, NoNode)>>

R2(tag, gep) == Store(tag) \o <<Gep("struct", <<0, 1>>, "r2")>> \o gep

\* *p and p[k] for a pointer to a pointer.
Pointees ==
    {Program(Store(PointerTag) \o gep \o var, types[1], types[2]) :
        gep \in {<<>>, Index("ptr", 1), Index("ptr", dynamic), Index("i8", 1)}, var \in {loaded, argument},
        types \in {<<"ppi", "pi">>, <<"ppE", "pE">>}}
    \cup {Program(Store(PointerTag) \o Index(src, 1) \o loaded, "ppS", "pS") : src \in {"ptr", "i8"}}

\* a[k] for an array of pointers; a[k].r1 for an array of structs, which only
\* the tag tells; a[k].r2 with an index on the struct.
ArrayElements ==
    {Program(Store(PointerTag) \o <<Gep("array", <<0, i>>, NoNode)>> \o alloca, types[1], types[2]) :
        i \in {0, 1, dynamic}, types \in {<<"a", "pi">>, <<"as", "pS">>}}
    \cup {Program(Store(Tag("R", 0)) \o gep \o <<Gep("array", <<0, i>>, NoNode)>> \o alloca, "aR", "p1") :
        i \in {0, 1, dynamic}, gep \in {<<>>, <<Gep("struct", <<0, 0>>, NoNode)>>}}
    \cup {Program(R2(tag, Index("struct", dynamic)) \o alloca, "aR", "p2") : tag \in {NoTag, Tag("R", 1)}}

\* p[k].r2 for a pointer to R.
PointedElements ==
    {Program(R2(tag, Index("struct", i)) \o loaded, "pR", "p2") :
        i \in {0, 1, dynamic}, tag \in {NoTag, Tag("R", 1)}}
    \cup {Program(Store(tag) \o <<Gep("struct", <<dynamic, 1>>, "r2")>> \o loaded, "pR", "p2") :
            tag \in {NoTag, Tag("R", 1)}}

\* An inlined operator, a type that is only declared, a void* and a variable
\* without type.
NotDescribed ==
    {Program(Store(PointerTag) \o <<[Gep("ptr", <<dynamic>>, NoNode) EXCEPT !.inlined = "ref"]>> \o loaded,
             "pR", "pi"),
     Program(Store(NoTag) \o <<Gep("struct", <<0, 1>>, NoNode)>> \o loaded, "pD", "pD"),
     Program(Store(NoTag) \o <<Gep("struct", <<0, 1>>, NoNode)>> \o <<Value("load", NoTag)>> \o argument,
             "ppD", "pD"),
     Program(Store(NoTag) \o loaded, "pv", "pv"),
     Program(Store(NoTag) \o loaded, NoNode, NoNode)}

\* An array descriptor; allocations in a global, a member, a copy of a global, and
\* in what GEP does not find, for which there is no answer.
Fortran ==
    {Program(<<Value("call", NoTag)>> \o gep \o alloca, "a", "a") :
        gep \in {Index("descriptor", 0), <<Value("load", NoTag)>> \o Index("descriptor", 0)}}
    \cup {[Program(path[1], path[2], path[3]) EXCEPT !.fortran = TRUE, !.memcpy = path[4]] :
        path \in {<<global, "R", "p1", "none">>, <<alloca, "R", "p1", "global">>, <<alloca, "R", "R", "other">>,
                  <<<<Gep("struct", <<0, 1>>, "r2")>> \o global, "R", "r2", "none">>,
                  <<<<Gep("struct", <<0, 2>>, "r3")>> \o loaded, "pR", "r3", "none">>,
                  <<<<Gep("struct", <<0, 0>>, NoNode)>> \o global, "aR", NoNode, "none">>}}

MCCallPaths(g) ==
    Assignments(g) \cup Tagged(g) \cup OnlyMember(g)
    \cup IF g = Layout(Plain, <<"p1", "p2", "p3">>, {})
         THEN Pointees \cup ArrayElements \cup PointedElements \cup NotDescribed \cup Fortran ELSE {}

\* a[k].r2 with one getelementptr for the element and one for the member.
ArrayOfStructs(g) ==
    {Program(R2(tag, <<Gep("array", <<0, i>>, NoNode)>>) \o var, "aR", "p2") :
        i \in {0, 1, dynamic}, tag \in {NoTag, Tag("R", 1)}, var \in {alloca, global}}

(****************************************************************************)
(* Properties.                                                              *)
(****************************************************************************)


\* A getelementptr is resolved to the very member whose address it computes:
\* members with equal types are not mixed up, nor members of a base class.
MemberHit ==
    pc = "gep" /\ phase = "none" /\ current_value.src # "array" =>
        found.member = current_value.denotes

==============================================================================
