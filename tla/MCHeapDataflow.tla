--------------------------- MODULE MCHeapDataflow ---------------------------
(****************************************************************************)
(* Instances of HeapDataflow: functions with an allocation m, an            *)
(* instruction b that may be derived from it, two locations x and y (x may  *)
(* be loaded from y, be a part of it, or a phi), two stores s and t, an     *)
(* instruction u that uses locations, and a return or another use r of m.   *)
(* Use lists come in both orders.                                           *)
(****************************************************************************)
EXTENDS HeapDataflow, TLC, SequencesExt

CONSTANTS m, b, x, y, s, t, u, r

MCValue == {m, b, x, y, s, t, u, r}

Order == <<m, b, x, y, s, t, u, r>>

I(k, ops) == [kind |-> k, operands |-> ops]

bs == {I("bitcast", <<m>>), I("gep", <<x>>), I("other", <<m>>)}
xs == {I("alloca", <<>>), I("global", <<>>), I("load", <<y>>), I("gep", <<y>>), I("phi", <<y, b>>)}
ys == {I("alloca", <<>>), I("argument", <<>>)}
ss == {I("store", <<m, x>>), I("store", <<b, x>>)}
ts == {I("store", <<b, y>>), I("store", <<y, b>>), I("call", <<m, m>>), I("bounds", <<y>>), I("bounds", <<y, x>>)}
us == {I("memcpy", <<y, x>>), I("memintrinsic", <<x>>), I("call", <<x>>), I("intrinsic", <<b>>),
       I("bounds", <<x>>), I("helper", <<x>>)}
rs == {I("ret", <<m>>), I("other", <<m>>)}

\* The users of v, one per use, given the order instructions use it in.
usersOf(code, v, order) ==
    FlattenSeq([i \in DOMAIN order |->
        [k \in 1..Len(SelectSeq(code[order[i]].operands, LAMBDA w : w = v)) |-> order[i]]])

Program(code, order) ==
    [kind |-> [v \in MCValue |-> code[v].kind],
     operands |-> [v \in MCValue |-> code[v].operands],
     users |-> [v \in MCValue |-> usersOf(code, v, order)]]

MCPrograms ==
    {Program(m :> I("call", <<>>) @@ b :> bi @@ x :> xi @@ y :> yi @@ s :> si @@ t :> ti
                @@ u :> ui @@ r :> ri, order) :
        bi \in bs, xi \in xs, yi \in ys, si \in ss, ti \in ts, ui \in us, ri \in rs,
        order \in {Order, Reverse(Order)}}

==============================================================================
