---------------------------- MODULE MCTypeQuery ----------------------------
(****************************************************************************)
(* Instances of TypeQuery.  The functions have an allocation c whose        *)
(* pointer is stored through another allocation d, copied through allocas   *)
(* a and b by memcpys k and l (of a, b, a global or a part of one),         *)
(* returned, or passed to or stored to what is returned by a function f.    *)
(* In all but the CyclicPrograms the pointers flow in one direction only,   *)
(* except for paths from an allocation to itself (test pass/ir/01) and for  *)
(* memcpys whose source is on the path.                                     *)
(****************************************************************************)
EXTENDS TypeQuery, TLC

CONSTANTS c, d, f, a, b, k, l, g, h, s, e, m, u, x, t, o

MCValue == {c, d, f, a, b, k, l, g, h, s, e, m, u, x, t, o}

\* s is a store, h a gep, e a return, g a global, m an argument, u an operand
\* of d, x an indirect call, t a type that only metadata names, o metadata that
\* is no type.
Bare ==
    [kind |-> c :> "malloclike" @@ d :> "malloclike" @@ f :> "call" @@ a :> "alloca" @@ b :> "alloca"
              @@ k :> "memcpy" @@ l :> "memcpy" @@ g :> "global" @@ h :> "gep" @@ s :> "store" @@ e :> "ret"
              @@ m :> "argument" @@ u :> "gep" @@ x :> "indirect" @@ t :> "store" @@ o :> "store",
     known |-> [v \in MCValue |-> v \in {g, t}],
     tags |-> t :> <<"struct">> @@ b :> <<"const", "pointer", "struct">> @@ e :> <<"typedef", "pointer">>
              @@ m :> <<"member", "pointer", "const", "struct">> @@ [v \in MCValue |-> <<"pointer", "struct">>],
     paths |-> [v \in MCValue |-> <<>>],
     source |-> k :> a @@ l :> b @@ [v \in MCValue |-> NoValue],
     stored |-> [v \in MCValue |-> NoValue],
     args |-> d :> <<h, h, u>> @@ f :> <<a, c>> @@ [v \in MCValue |-> <<>>],
     signature |-> [v \in MCValue |-> <<>>],
     site |-> [v \in MCValue |-> NoValue],
     element |-> [v \in MCValue |-> NoValue],
     this |-> {},
     flang |-> {}]

cPaths == {<<>>, <<<<s, c>>>>, <<<<s, c>>, <<s, d>>>>, <<<<s, d>>, <<c, e>>>>,
           <<<<s, h, a>>, <<s, d>>>>, <<<<c, s>>, <<s, b>>>>, <<<<s, a>>, <<s, b>>>>}
dPaths == {<<>>, <<<<s, g>>>>, <<<<s, d>>, <<s, b>>>>}
aPaths == {<<<<a, k>>>>, <<<<a, e>>>>, <<<<a, k>>, <<a, e>>>>}
bPaths == {<<<<b, k>>, <<b, e>>>>, <<<<b, l>>>>}

Names == {{g}, {g, e}, {g, b}, {g, d}}

\* Through another allocation, allocas and copies.
Flow(names, cp, dp, ap, bp, copiedByK) ==
    [Bare EXCEPT !.known = [v \in MCValue |-> v \in names \cup {t}], !.source[k] = copiedByK,
                 !.paths[c] = cp, !.paths[d] = dp, !.paths[a] = ap, !.paths[b] = bp, !.paths[h] = <<<<h, g>>>>]

FlowPrograms ==
    {Flow(names, cp, dp, ap, bp, from) :
        names \in Names, cp \in cPaths, dp \in dPaths, ap \in aPaths, bp \in bPaths, from \in {a, b, g, h}}

\* The other allocators, which are told the type by an operand or metadata.
AllocatorPrograms ==
    {[Flow(names, cp, dp, <<<<a, e>>>>, <<<<b, l>>, <<b, e>>>>, b) EXCEPT
        !.kind[d] = kind, !.paths[h] = hp, !.paths[u] = up, !.site[d] = site, !.site[c] = site,
        !.kind[c] = "newlike"] :
        names \in Names, cp \in {<<<<s, d>>>>, <<<<s, a>>, <<s, d>>>>}, dp \in {<<>>, <<<<s, a>>>>},
        kind \in Allocator, site \in {NoValue, t, o},
        hp \in {<<<<h, b>>, <<h, g>>>>, <<>>}, up \in {<<<<u, g>>>>, <<<<u, b>>>>}}

NoArguments == {[p EXCEPT !.args[d] = <<>>] : p \in {q \in AllocatorPrograms : q.kind[d] = "fortranlike"}}

\* A function that the pointer is passed to, or stored to the result of.
CallPrograms ==
    {[Flow(names, cp, <<<<d, f>>>>, ap, <<<<b, x>>>>, b) EXCEPT
        !.signature[f] = sig, !.this = this, !.stored[a] = stored, !.stored[b] = m, !.element[c] = g,
        !.flang = {b}, !.paths[f] = <<<<f, e>>>>] :
        names \in {{}, {e, f}, {m}, {m, b, f}, {c, g}}, this \in {{}, {f}}, sig \in {<<>>, <<m, g, b>>},
        cp \in {<<<<s, f>>>>, <<<<c, f>>>>, <<<<s, d>>, <<s, x>>>>, <<<<s, a>>, <<s, b>>>>, <<<<s, a, f>>, <<c, k>>>>},
        ap \in {<<<<a, f>>>>, <<<<f>>>>, <<<<a, x>>>>}, stored \in {NoValue, m}}

FlowingPrograms == FlowPrograms \cup AllocatorPrograms \cup NoArguments \cup CallPrograms

\* Two allocations, each stored through the other's pointer.
CyclicPrograms == {[Bare EXCEPT !.paths[c] = <<<<s, d>>>>, !.paths[d] = <<<<s, c>>>>]}

\* The direction the pointers flow in, but for the CyclicPrograms.
MCRank == f :> 6 @@ c :> 5 @@ d :> 4 @@ a :> 3 @@ b :> 2 @@ l :> 1 @@ [v \in MCValue |-> 0]

\* Pointers flow one way, and the recursion follows them.
RecursionDescends == FlowsDown(MCRank) /\ Descends(MCRank)

\* The configurations that the README names, and one pointer more.
MCConfigs == {auto, [auto EXCEPT !.dataflow = "return", !.level = 1],
              [auto EXCEPT !.dataflow = "argument"], [auto EXCEPT !.dataflow = "argument", !.index = 3, !.level = 1]}

\* Reference: the types of the paths from v, in order, at most n steps away.
\* caller is the call handed on with the path.
RECURSIVE RootType(_, _, _), AllocType(_, _, _), FirstType(_, _, _)

FirstType(caller, ps, n) ==
    LET found == {i \in DOMAIN ps : RootType(caller, ps[i], n) # NoType}
    IN  IF found = {} THEN NoType
        ELSE RootType(caller, ps[CHOOSE i \in found : \A j \in found : i <= j], n)

RootType(caller, p, n) ==
    LET v == value(p)
        kind == program.kind[v]
        w == program.source[v]
        ofAlloca(w0) == IF isTyped(w0) THEN type_of_alloca(w0)
                          ELSE FirstType(NoValue, program.paths[w0], n - 1)
    IN  CASE n = 0 \/ kind \in {"store", "gep", "indirect"} -> NoType
          [] kind \in Allocator ->
                IF v = caller THEN NoType ELSE AllocType(v, resolve_auto_callbase_config(v), n - 1)
          [] kind = "alloca" -> ofAlloca(v)
          [] kind = "memcpy" ->
                (CASE program.kind[w] = "global" -> typeOf(w)
                   [] program.kind[w] = "gep" -> FirstType(NoValue, program.paths[w], n - 1)
                   [] program.kind[w] = "alloca" ->
                        IF contains(p, w) /\ ~isTyped(w) THEN NoType ELSE ofAlloca(w))
          [] kind = "call" -> type_of_call(v, p)
          [] OTHER -> typeOf(v)

AllocType(v, source, n) ==
    CASE ~hasSource(v, source) -> NoType
      [] source.from = "allocsite" -> IF program.site[v] = o THEN NoType ELSE program.site[v]
      [] source.from = "return" /\ program.known[v] ->
            IF program.element[v] # NoValue THEN program.element[v] ELSE v
      [] OTHER -> FirstType(IF source.from = "argument" THEN NoValue ELSE v, pathsFrom(v, source), n)

asked == queried.value

askedSource == resolve_callbase_config(asked, queried.config)

\* The answer to a query about a call is the type of the first path that has
\* one, all detours through allocas, copies and other allocations included,
\* for each source that the configuration and the allocator can select.
AnswersWithFirstType ==
    Answered /\ isCall(asked) =>
        /\ data.entry_type = AllocType(asked, askedSource, MaxDepth)
        /\ data.found <=> /\ hasSource(asked, askedSource)
                          /\ queried.config.dataflow = "auto" \/ data.entry_type # NoType

\* Every variable here is a pointer and every site an object, so what is
\* located is a pointer, whatever the source that the type was taken from: the
\* offset of a site and the pointers of the type add up.  Not so when the path
\* ends at another allocation and its site.
PointerLocated ==
    /\ Answered /\ data.entry_type # NoType
    /\ data.entry_type = t => askedSource.from = "allocsite"
    => located_pointers = 1 + queried.config.level

=============================================================================
