-------------------------- MODULE AnchorOrderProofs --------------------------
(****************************************************************************)
(* The order of the result of HeapDataflow, for every function of the IR.   *)
(*                                                                          *)
(* An instruction may be recorded as an anchor twice.  That the paths found *)
(* from its second occurrence do not come before those of the anchors in    *)
(* between is so because they are the paths found from the first: a         *)
(* traversal is a function of where it starts.  That is the first section.  *)
(****************************************************************************)
EXTENDS HeapDataflowProofs, WellFoundedInduction

(****************************************************************************)
(* A backward search replayed.                                              *)
(****************************************************************************)

\* The traverser in the middle of a backward search, with the paths found.
State(w, s, c, p, f) == [working |-> w, seen |-> s, current |-> c, pending |-> p, found |-> f]

States == [working : Seq(Paths), seen : SUBSET Value, current : Seq(Value),
           pending : Seq(Value), found : SUBSET Paths]

ended(z) == z.working = <<>> /\ z.pending = <<>>

topOf(z) == z.working[Len(z.working)]

\* The successor looked at next, at the end of its path.
extended(z) == Append(z.current, Head(z.pending))

goesOn(p, v) == targetMatch(p)[v] = "kContinue"

\* The one step that the traverser can take in a state.
After(p, z) ==
    IF z.pending # <<>>
    THEN State(IF value(extended(z)) \in z.seen THEN z.working ELSE Append(z.working, extended(z)),
               z.seen, IF Tail(z.pending) = <<>> THEN <<>> ELSE z.current, Tail(z.pending), z.found)
    ELSE State(SubSeq(z.working, 1, Len(z.working) - 1),
               z.seen \cup {value(topOf(z))},
               IF goesOn(p, value(topOf(z))) THEN topOf(z) ELSE z.current,
               IF goesOn(p, value(topOf(z))) THEN MallocBacktrackSearch(p)[value(topOf(z))] ELSE <<>>,
               IF isTarget(p, value(topOf(z))) THEN z.found \cup {topOf(z)} ELSE z.found)

First(a) == State(<<<<a>>>>, {}, <<>>, <<>>, {})

closed(p, C) == \A z \in C : ~ended(z) /\ After(p, z) \in States => After(p, z) \in C

\* The states a search is in from x on.
From(p, x) == {y \in States : \A C \in SUBSET States : x \in C /\ closed(p, C) => y \in C}

LEMMA FromFacts ==
    ASSUME NEW p, NEW x \in States
    PROVE  x \in From(p, x) /\ closed(p, From(p, x)) /\ From(p, x) \in SUBSET States
<1>1. ASSUME NEW z \in From(p, x), ~ended(z), After(p, z) \in States
      PROVE  After(p, z) \in From(p, x)
  BY <1>1 DEF From, closed
<1> QED BY <1>1 DEF From, closed

\* All the states from x on are x and those from the next one on.
LEMMA FromNext ==
    ASSUME NEW p, NEW x \in States, After(p, x) \in States
    PROVE  From(p, x) \subseteq {x} \cup From(p, After(p, x))
<1> DEFINE C == {x} \cup From(p, After(p, x))
<1>1. From(p, After(p, x)) \in SUBSET States /\ closed(p, From(p, After(p, x)))
        /\ After(p, x) \in From(p, After(p, x))
  BY FromFacts
<1>2. C \in SUBSET States /\ closed(p, C)
  BY <1>1 DEF closed
<1> QED BY <1>2 DEF From

LEMMA FromEnd ==
    ASSUME NEW p, NEW x \in States, ended(x)
    PROVE  From(p, x) \subseteq {x}
<1>1. closed(p, {x}) /\ {x} \in SUBSET States
  BY DEF closed
<1> QED BY <1>1 DEF From

LEMMA FoundGrows ==
    ASSUME NEW p, NEW x \in States
    PROVE  x.found \subseteq After(p, x).found
BY DEF After, State

\* The search from a has come to x, and in every state it ever is in it has
\* either found no more than in x, or is still to come to it.
Halfway(p, a, x) ==
    /\ x \in From(p, First(a))
    /\ \A y \in From(p, First(a)) : y.found \subseteq x.found \/ y \in From(p, x)

LEMMA FirstIsState ==
    ASSUME NEW a \in Value
    PROVE  First(a) \in States
<1>1. <<a>> \in Paths
  BY DEF Paths
<1>2. <<<<a>>>> \in Seq(Paths)
  BY <1>1
<1> QED BY <1>2, EmptySeq DEF First, State, States

LEMMA HalfwayFirst ==
    ASSUME NEW p, NEW a \in Value
    PROVE  Halfway(p, a, First(a))
BY FirstIsState, FromFacts DEF Halfway

LEMMA HalfwayNext ==
    ASSUME NEW p, NEW a \in Value, NEW x \in States, Halfway(p, a, x), ~ended(x),
           After(p, x) \in States
    PROVE  Halfway(p, a, After(p, x))
<1>1. closed(p, From(p, First(a)))
  BY FirstIsState, FromFacts
<1>2. After(p, x) \in From(p, First(a))
  BY <1>1 DEF Halfway, closed
<1>3. ASSUME NEW y \in From(p, First(a))
      PROVE  y.found \subseteq After(p, x).found \/ y \in From(p, After(p, x))
  <2>1. y.found \subseteq x.found \/ y = x \/ y \in From(p, After(p, x))
    BY <1>3, FromNext DEF Halfway
  <2> QED BY <2>1, FoundGrows
<1> QED BY <1>2, <1>3 DEF Halfway

\* No state of the search from a has found more than the paths F.
Yields(p, a, F) == \A y \in From(p, First(a)) : y.found \subseteq F

LEMMA HalfwayEnd ==
    ASSUME NEW p, NEW a \in Value, NEW x \in States, Halfway(p, a, x), ended(x)
    PROVE  Yields(p, a, x.found)
BY FromEnd DEF Halfway, Yields

\* The traverser as it is now, when the search under way has found f.
Now(f) == State(working, seen, current, pending, f)

LEMMA NowIsState ==
    ASSUME TraverserOK, NEW f \in SUBSET Paths
    PROVE  Now(f) \in States
<1>1. /\ working \in Seq(Paths) /\ seen \in SUBSET Value
      /\ current \in Seq(Value) /\ pending \in Seq(Value)
  BY DEF TraverserOK, Traversal!TypeOK, Paths
<1> QED BY <1>1 DEF Now, State, States

LEMMA NowIsStateNext ==
    ASSUME TraverserOK', NEW f \in SUBSET Paths
    PROVE  Now(f)' \in States
<1>1. /\ working' \in Seq(Paths) /\ seen' \in SUBSET Value
      /\ current' \in Seq(Value) /\ pending' \in Seq(Value)
  BY DEF TraverserOK, Traversal!TypeOK, Paths
<1> QED BY <1>1 DEF Now, State, States

\* A step of a backward search is the one step that is possible.
LEMMA ReplayStep ==
    ASSUME Typed, TraverserOK, SearchInv, BackwardStep, phase = "backward",
           NEW f \in SUBSET Paths
    PROVE  \/ /\ running' /\ ~ended(Now(f)) /\ Now(f)' = After(program, Now(f))
              /\ types_path' = types_path
           \/ /\ running' /\ ~ended(Now(f))
              /\ Chain!top \in Paths /\ start_value(Chain!top) = start
              /\ types_path' = Append(types_path, Chain!top)
              /\ \A g : g = f \cup {Chain!top} => Now(g)' = After(program, Now(f))
           \/ ~running' /\ ended(Now(f)) /\ types_path' = types_path
<1> DEFINE v0 == value(Chain!top)
           z == Now(f)
<1>1. /\ Chain!Step /\ running /\ start' = start
      /\ Chain!HasWork /\ isTarget(program, v0) => types_path' = Append(types_path, Chain!top)
      /\ ~(Chain!HasWork /\ isTarget(program, v0)) => types_path' = types_path
      /\ Chain!HasWork => Chain!top \in Paths /\ v0 \in Value /\ start_value(Chain!top) = start
  BY TraverserStep DEF BackwardStep
<1>2. succ = MallocBacktrackSearch(program) /\ verdict = targetMatch(program)
  BY <1>1 DEF SearchInv
<1>3. /\ z.working = working /\ z.seen = seen /\ z.current = current
      /\ z.pending = pending /\ z.found = f
  BY DEF Now, State
<1>4. /\ ended(z) <=> working = <<>> /\ pending = <<>>
      /\ topOf(z) = Chain!top
      /\ extended(z) = Append(current, Head(pending))
      /\ \A v : goesOn(program, v) <=> verdict[v] = "kContinue"
  BY <1>2, <1>3 DEF ended, topOf, extended, Chain!top, goesOn
<1>5. \A g : Now(g)' = State(working', seen', current', pending', g')
  BY DEF Now, State
<1>6. Chain!value(Chain!top) = v0
          /\ Chain!value(Append(current, Head(pending))) = value(Append(current, Head(pending)))
  BY DEF Chain!value, value
<1> HIDE DEF z
<1>7. CASE Chain!MatchSkip \/ Chain!MatchContinue
  <2>1. /\ Chain!HasWork /\ running' /\ pending = <<>> /\ working # <<>>
        /\ working' = SubSeq(working, 1, Len(working) - 1)
        /\ seen' = seen \cup {v0}
        /\ current' = IF goesOn(program, v0) THEN Chain!top ELSE current
        /\ pending' = IF goesOn(program, v0) THEN MallocBacktrackSearch(program)[v0] ELSE <<>>
    BY <1>2, <1>4, <1>6, <1>7 DEF Chain!MatchSkip, Chain!MatchContinue, Chain!HasWork, Chain!popped
  <2>2. After(program, z) = State(working', seen', current', pending',
              IF isTarget(program, v0) THEN f \cup {Chain!top} ELSE f)
    BY <1>3, <1>4, <2>1 DEF After
  <2>3. CASE isTarget(program, v0)
    <3>1. \A g : g = f \cup {Chain!top} => Now(g)' = After(program, z)
      BY <1>5, <2>2, <2>3
    <3> QED BY <1>1, <1>4, <2>1, <2>3, <3>1 DEF z
  <2>4. CASE ~isTarget(program, v0)
    <3>1. Now(f)' = After(program, z)
      BY <1>5, <2>2, <2>4
    <3> QED BY <1>1, <1>4, <2>1, <2>4, <3>1 DEF z
  <2> QED BY <2>3, <2>4
<1>8. CASE Chain!MatchCancel
  <2>1. Chain!HasWork /\ verdict[v0] = "kCancel"
    BY <1>6, <1>8 DEF Chain!MatchCancel
  <2> QED BY <1>1, <1>2, <2>1 DEF targetMatch
<1>9. CASE Chain!AddToWork
  <2>1. /\ running' /\ pending # <<>> /\ ~Chain!HasWork /\ seen' = seen
        /\ pending' = Tail(pending)
        /\ current' = IF Tail(pending) = <<>> THEN <<>> ELSE current
        /\ working' = IF value(Append(current, Head(pending))) \in seen THEN working
                      ELSE Append(working, Append(current, Head(pending)))
    BY <1>6, <1>9 DEF Chain!AddToWork, Chain!HasWork, Chain!addToWorkS
  <2>2. After(program, z) = State(working', seen', current', pending', f)
    BY <1>3, <1>4, <2>1 DEF After
  <2>3. Now(f)' = After(program, z)
    BY <1>5, <2>2
  <2> QED BY <1>1, <1>4, <2>1, <2>3 DEF z
<1>10. CASE Chain!Exhausted
  BY <1>1, <1>4, <1>10 DEF Chain!Exhausted, Chain!Leave, Chain!HasWork, z
<1> QED BY <1>1, <1>7, <1>8, <1>9, <1>10 DEF Chain!Step

(****************************************************************************)
(* Lists in the order of the anchors.                                       *)
(****************************************************************************)

\* The k-th anchor is one that the path p may belong to.
Owns(k, p) == value(anchors[k]) = start_value(p) \/ anchors[k] = p

IsNew(l, j) == \A k \in 1..(j - 1) : l[k] # l[j]

\* A path that is no repetition belongs to no earlier anchor than those before.
Ordered(l) ==
    \A i, j \in DOMAIN l : i < j /\ IsNew(l, j) =>
        \A k \in DOMAIN anchors : Owns(k, l[j]) =>
            \E h \in DOMAIN anchors : h <= k /\ Owns(h, l[i])

LEMMA RangeConcat ==
    ASSUME NEW l \in Seq(Paths), NEW m \in Seq(Paths)
    PROVE  Range(l \o m) = Range(l) \cup Range(m)
<1> DEFINE c == l \o m
<1>1. /\ DOMAIN l = 1..Len(l) /\ Len(l) \in Nat
      /\ DOMAIN m = 1..Len(m) /\ Len(m) \in Nat
      /\ DOMAIN c = 1..(Len(l) + Len(m))
      /\ \A i \in 1..(Len(l) + Len(m)) : c[i] = IF i <= Len(l) THEN l[i] ELSE m[i - Len(l)]
  BY ConcatProperties, LenProperties
<1> HIDE DEF c
<1>2. \A i \in DOMAIN c : c[i] \in Range(l) \cup Range(m)
  BY <1>1 DEF Range
<1>3. \A i \in DOMAIN l : i \in DOMAIN c /\ c[i] = l[i]
  BY <1>1
<1>4. \A i \in DOMAIN m : Len(l) + i \in DOMAIN c /\ c[Len(l) + i] = m[i]
  <2> SUFFICES ASSUME NEW i \in DOMAIN m
               PROVE  Len(l) + i \in DOMAIN c /\ c[Len(l) + i] = m[i]
    OBVIOUS
  <2>1. /\ Len(l) + i \in 1..(Len(l) + Len(m)) /\ ~(Len(l) + i <= Len(l))
        /\ (Len(l) + i) - Len(l) = i
    BY <1>1
  <2> QED BY <1>1, <2>1
<1>5. Range(c) = Range(l) \cup Range(m)
  BY <1>2, <1>3, <1>4 DEF Range
<1> QED BY <1>5 DEF c

LEMMA RangeAppend ==
    ASSUME NEW l \in Seq(Paths), NEW p \in Paths
    PROVE  Range(Append(l, p)) = Range(l) \cup {p}
<1>1. Append(l, p) = l \o <<p>> /\ <<p>> \in Seq(Paths)
  BY AppendIsConcat
<1>2. Range(<<p>>) = {p}
  <2>1. DOMAIN <<p>> = {1} /\ <<p>>[1] = p
    OBVIOUS
  <2> QED BY <2>1 DEF Range
<1> QED BY <1>1, <1>2, RangeConcat

\* The loop at the n-th anchor appends m: its new paths belong to no earlier
\* anchor, and all paths to one no later.
LEMMA OrderedConcat ==
    ASSUME NEW l \in Seq(Paths), NEW m \in Seq(Paths), anchors \in Seq(Paths), Ordered(l),
           NEW n \in DOMAIN anchors,
           \A p \in Range(l) \cup Range(m) : \E h \in DOMAIN anchors : h <= n /\ Owns(h, p),
           \A p \in Range(m) \ Range(l) : \A k \in DOMAIN anchors : Owns(k, p) => n <= k
    PROVE  Ordered(l \o m)
<1> DEFINE c == l \o m
<1>1. /\ DOMAIN l = 1..Len(l) /\ Len(l) \in Nat
      /\ DOMAIN m = 1..Len(m) /\ Len(m) \in Nat
      /\ DOMAIN c = 1..(Len(l) + Len(m))
      /\ \A i \in 1..(Len(l) + Len(m)) : c[i] = IF i <= Len(l) THEN l[i] ELSE m[i - Len(l)]
      /\ Range(c) = Range(l) \cup Range(m)
      /\ DOMAIN anchors \subseteq Nat
  BY ConcatProperties, LenProperties, RangeConcat
<1> HIDE DEF c
<1> SUFFICES ASSUME NEW i \in DOMAIN c, NEW j \in DOMAIN c, i < j, IsNew(c, j),
                    NEW k \in DOMAIN anchors, Owns(k, c[j])
             PROVE  \E h \in DOMAIN anchors : h <= k /\ Owns(h, c[i])
  BY DEF Ordered, c
<1>2. CASE j <= Len(l)
  <2>1. /\ i \in DOMAIN l /\ j \in DOMAIN l /\ c[i] = l[i] /\ c[j] = l[j]
        /\ \A e \in 1..(j - 1) : c[e] = l[e]
    BY <1>1, <1>2
  <2>2. IsNew(l, j)
    BY <2>1 DEF IsNew
  <2> QED BY <2>1, <2>2 DEF Ordered
<1>3. CASE j > Len(l)
  <2>1. c[j] \in Range(m)
    <3>1. j - Len(l) \in DOMAIN m /\ c[j] = m[j - Len(l)]
      BY <1>1, <1>3
    <3> QED BY <3>1 DEF Range
  <2>2. c[j] \notin Range(l)
    <3>1. \A e \in DOMAIN l : e \in 1..(j - 1) /\ c[e] = l[e]
      BY <1>1, <1>3
    <3> QED BY <3>1 DEF IsNew, Range
  <2>3. n <= k
    BY <2>1, <2>2
  <2>4. c[i] \in Range(l) \cup Range(m)
    BY <1>1 DEF Range
  <2>5. PICK h \in DOMAIN anchors : h <= n /\ Owns(h, c[i])
    BY <2>4
  <2>6. h <= k
    BY <1>1, <2>3, <2>5
  <2> QED BY <2>5, <2>6
<1>4. i \in Nat /\ j \in Nat
  BY <1>1
<1> QED BY <1>1, <1>2, <1>3, <1>4

\* An order of this kind is what NewPathsInAnchorOrder says of the result.
LEMMA OrderedIsAnchorOrder ==
    ASSUME Typed, Ordered(ditype_paths),
           \A p \in Range(ditype_paths) : \E k \in DOMAIN anchors : Owns(k, p)
    PROVE  NewPathsInAnchorOrder
<1>1. DOMAIN anchors = 1..Len(anchors) /\ Len(anchors) \in Nat
  BY LenProperties DEF Typed, TypeOK
<1> DEFINE least(i, p) == Owns(i, p) /\ \A k \in 1..(i - 1) : ~Owns(k, p)
<1>2. ASSUME NEW p \in Range(ditype_paths)
      PROVE  anchorOf(p) \in DOMAIN anchors /\ least(anchorOf(p), p)
  <2> DEFINE owners == {k \in DOMAIN anchors : Owns(k, p)}
  <2>1. owners # {} /\ owners \subseteq Nat
    BY <1>1
  <2>2. PICK i \in owners : \A k \in owners : ~(<<k, i>> \in OpToRel(<, Nat))
    <3>1. IsWellFoundedOn(OpToRel(<, Nat), Nat)
      BY NatLessThanWellFounded
    <3> HIDE DEF owners
    <3> QED BY <2>1, <3>1, WFMin
  <2>3. \A k \in 1..(i - 1) : ~Owns(k, p)
    <3> SUFFICES ASSUME NEW k \in 1..(i - 1), Owns(k, p) PROVE FALSE
      OBVIOUS
    <3>1. k \in owners /\ k < i /\ k \in Nat /\ i \in Nat
      BY <1>1, <2>1
    <3> QED BY <2>2, <3>1 DEF OpToRel
  <2>4. least(i, p) /\ i \in DOMAIN anchors
    BY <2>2, <2>3
  <2>5. anchorOf(p) = CHOOSE e \in DOMAIN anchors : least(e, p)
    BY DEF anchorOf, Owns
  <2> HIDE DEF least
  <2> QED BY <2>4, <2>5
<1> SUFFICES ASSUME NEW i \in DOMAIN ditype_paths, NEW j \in DOMAIN ditype_paths, i < j,
                    \A k \in 1..(j - 1) : ditype_paths[k] # ditype_paths[j]
             PROVE  anchorOf(ditype_paths[i]) <= anchorOf(ditype_paths[j])
  BY DEF NewPathsInAnchorOrder
<1>3. ditype_paths[i] \in Range(ditype_paths) /\ ditype_paths[j] \in Range(ditype_paths)
  BY DEF Range
<1> DEFINE a == anchorOf(ditype_paths[i])
           b == anchorOf(ditype_paths[j])
<1>4. /\ a \in 1..Len(anchors) /\ b \in 1..Len(anchors)
      /\ \A k \in 1..(a - 1) : ~Owns(k, ditype_paths[i])
      /\ Owns(b, ditype_paths[j])
  BY <1>1, <1>2, <1>3
<1> HIDE DEF a, b
<1>5. PICK h \in 1..Len(anchors) : h <= b /\ Owns(h, ditype_paths[i])
  BY <1>1, <1>4 DEF Ordered, IsNew
<1>6. ~(h \in 1..(a - 1))
  BY <1>4, <1>5
<1>7. a <= b
  BY <1>1, <1>4, <1>5, <1>6
<1> QED BY <1>7 DEF a, b

(****************************************************************************)
(* The invariant.                                                           *)
(****************************************************************************)

InLoop == phase \in {"anchors", "backward"} \/ Answered

\* The query is about a heap call, which is where the anchors start.
CallInv ==
    /\ phase = "forward" => program.kind[start] = "call"
    /\ InLoop /\ anchors # <<>> => program.kind[from] = "call"

\* What the backward search under way has found is on the matcher's list, and
\* the search is where the search from this anchor must be by then.
ReplayInv ==
    /\ ~running => current = <<>>
    /\ phase = "backward" => \E f \in SUBSET Paths :
          /\ f \subseteq Range(types_path)
          /\ Range(types_path) \subseteq Range(ditype_paths) \cup f
          /\ \A p \in f : start_value(p) = anchor
          /\ \E x \in From(program, First(anchor)) : x.found = f
          /\ running => Halfway(program, anchor, Now(f))
          /\ ~running => Yields(program, anchor, f)

\* The anchors before the next have given all they can, and in their order.
OrderInv ==
    /\ InLoop =>
          /\ \A k \in 1..(next - 1) :
                IF isBackward(value(anchors[k]))
                THEN Yields(program, value(anchors[k]), Range(ditype_paths))
                ELSE anchors[k] \in Range(ditype_paths)
          /\ \A p \in Range(ditype_paths) : \E k \in 1..(next - 1) : Owns(k, p)
          /\ Ordered(ditype_paths)
    /\ phase = "anchors" => Range(types_path) \subseteq Range(ditype_paths)

LEMMA CallStep ==
    ASSUME Typed, TraverserOK, SearchInv, AnchorInv, CallInv, [Next]_vars
    PROVE  CallInv'
<1>1. CASE Query
  <2>1. /\ phase' \in {"forward", "value", "helper", "shape", "users"} /\ UNCHANGED program
        /\ phase' = "forward" => program.kind[start'] = "call"
    BY <1>1 DEF Query, type_for_heap_call, path_from_alloca, path_from_value,
       passed_to_fortran_helper, shape_from_value, Enter, Chain!Traverse
  <2> QED BY <2>1 DEF CallInv, InLoop, Answered
<1>2. CASE ForwardStep
  <2>1. phase' = phase /\ program' = program /\ phase \notin {"anchors", "backward", "returned"}
          /\ start' = start
    BY <1>2, TraverserStep DEF ForwardStep
  <2> QED BY <2>1 DEF CallInv, InLoop, Answered
<1>3. CASE ForwardEnd
  <2>1. /\ phase = "forward" /\ phase' = "anchors" /\ UNCHANGED <<program, anchors>>
    BY <1>3 DEF ForwardEnd
  <2>2. anchors # <<>> => from = start
    <3>1. anchors # <<>> => 1 \in DOMAIN anchors
      BY EmptySeq, LenProperties DEF Typed, TypeOK
    <3> QED BY <2>1, <3>1 DEF AnchorInv, AnchorsFrom, from
  <2>3. from' = from
    BY <2>1 DEF from, start_value
  <2> QED BY <2>1, <2>2, <2>3 DEF CallInv
<1>4. CASE UsersEnd \/ ValueEnd
  <2>1. phase' = "returned" /\ next' = 1
    BY <1>4 DEF UsersEnd, ValueEnd, SearchInv
  <2> QED BY <2>1 DEF CallInv, InLoop, Answered
<1>5. CASE TakeAnchor \/ Backtrack \/ BackwardStep \/ BackwardEnd \/ Return
  <2>1. UNCHANGED <<program, anchors>> /\ phase' # "forward"
    BY <1>5 DEF TakeAnchor, Backtrack, BackwardStep, BackwardEnd, Return
  <2>2. InLoop' => InLoop
    BY <1>5 DEF TakeAnchor, Backtrack, BackwardStep, BackwardEnd, Return, InLoop, Answered
  <2>3. from' = from
    BY <2>1 DEF from, start_value
  <2> QED BY <2>1, <2>2, <2>3 DEF CallInv
<1>6. CASE UNCHANGED vars
  BY <1>6 DEF vars, queryVars, chainVars, CallInv, InLoop, Answered, from, start_value
<1> QED BY <1>1, <1>2, <1>3, <1>4, <1>5, <1>6 DEF Next, Progress

LEMMA AnchorSame ==
    ASSUME UNCHANGED <<anchors, next>>
    PROVE  anchor' = anchor
BY DEF anchor, value

LEMMA ReplayInvStep ==
    ASSUME Typed, TraverserOK, TraverserOK', SearchInv, ReplayInv, OrderInv, [Next]_vars
    PROVE  ReplayInv'
<1>0. ~running' => ~running \/ Chain!Leave
  BY DEF Next, Query, Progress, type_for_heap_call, path_from_alloca, path_from_value,
     passed_to_fortran_helper, shape_from_value, Chain!Traverse, ForwardStep, ForwardEnd, UsersEnd,
     ValueEnd, TakeAnchor, Backtrack, BackwardStep, BackwardEnd, Return, Chain!Step,
     Chain!MatchSkip, Chain!MatchCancel, Chain!MatchContinue, Chain!AddToWork, Chain!Exhausted,
     Chain!HasWork, vars, chainVars
<1>1. ~running' => current' = <<>>
  BY <1>0 DEF ReplayInv, Chain!Leave, Next, Query, Progress, type_for_heap_call, path_from_alloca, path_from_value,
     passed_to_fortran_helper, shape_from_value, Chain!Traverse, ForwardStep, ForwardEnd, UsersEnd,
     ValueEnd, TakeAnchor, Backtrack, BackwardStep, BackwardEnd, Return, Chain!Step,
     Chain!MatchSkip, Chain!MatchCancel, Chain!MatchContinue, Chain!AddToWork, Chain!Exhausted,
     Chain!HasWork, vars, chainVars
<1>2. CASE Query \/ ForwardStep \/ ForwardEnd \/ UsersEnd \/ ValueEnd \/ TakeAnchor \/ BackwardEnd
           \/ Return
  <2>1. phase' # "backward"
    BY <1>2, QueryFacts DEF ForwardStep, ForwardEnd, UsersEnd, ValueEnd, TakeAnchor, BackwardEnd,
       Return
  <2> QED BY <1>1, <2>1 DEF ReplayInv
<1>3. CASE Backtrack
  <2>1. /\ phase = "anchors" /\ ~running /\ running' /\ next <= Len(anchors)
        /\ UNCHANGED <<program, anchors, next, types_path, ditype_paths, seen, current, pending>>
        /\ working' = Chain!addToWorkS(working, <<anchor>>)
        /\ anchor' = anchor
    BY <1>3, AnchorSame DEF Backtrack, Chain!Traverse
  <2>2. /\ working = <<>> /\ seen = {} /\ pending = <<>> /\ current = <<>>
    BY <2>1 DEF TraverserOK, Traversal!LoopInv, ReplayInv
  <2>3. working' = <<<<anchor>>>>
    BY <2>1, <2>2 DEF Chain!addToWorkS
  <2>4. Now({})' = First(anchor)
    BY <2>1, <2>2, <2>3 DEF Now, First
  <2>5. anchor \in Value
    BY <2>1, AnchorFacts DEF Typed
  <2>6. Halfway(program, anchor, First(anchor)) /\ First(anchor) \in From(program, First(anchor))
    BY <2>5, HalfwayFirst DEF Halfway
  <2>7. First(anchor).found = {}
    BY DEF First, State
  <2>8. Range(types_path) \subseteq Range(ditype_paths)
    BY <2>1 DEF OrderInv
  <2>9. \A g : g = {} =>
          /\ g \subseteq Range(types_path')
          /\ Range(types_path') \subseteq Range(ditype_paths') \cup g
          /\ \A p \in g : start_value(p) = anchor'
          /\ \E x \in From(program', First(anchor')) : x.found = g
          /\ Halfway(program', anchor', Now(g)')
    BY <2>1, <2>4, <2>6, <2>7, <2>8
  <2>10. {} \in SUBSET Paths
    OBVIOUS
  <2> HIDE DEF Paths
  <2> QED BY <1>1, <2>1, <2>9, <2>10 DEF ReplayInv, start_value
<1>4. CASE BackwardStep
  <2>1. running /\ UNCHANGED <<program, phase, anchors, next, ditype_paths, start>>
    BY <1>4, BackwardTargets
  <2>2. CASE phase # "backward"
    BY <1>1, <2>1, <2>2 DEF ReplayInv
  <2>3. CASE phase = "backward"
    <3>1. PICK f \in SUBSET Paths :
            /\ f \subseteq Range(types_path)
            /\ Range(types_path) \subseteq Range(ditype_paths) \cup f
            /\ \A p \in f : start_value(p) = anchor
            /\ Halfway(program, anchor, Now(f))
      BY <2>1, <2>3 DEF ReplayInv
    <3>2. /\ anchor' = anchor /\ anchor \in Value /\ start = anchor
          /\ types_path \in Seq(Paths)
      BY <2>1, <2>3, AnchorSame, AnchorFacts DEF Typed, TypeOK, SearchInv
    <3>3. Now(f) \in States /\ Now(f) \in From(program, First(anchor)) /\ Now(f).found = f
      BY <3>1, NowIsState DEF Halfway, Now, State
    <3>4. ASSUME NEW g \in SUBSET Paths, running', Now(g)' = After(program, Now(f)), ~ended(Now(f)),
                 g \subseteq Range(types_path'),
                 Range(types_path') \subseteq Range(ditype_paths) \cup g,
                 \A p \in g : start_value(p) = anchor
          PROVE  ReplayInv'
      <4>1. Now(g)' \in States
        BY NowIsStateNext
      <4>2. Halfway(program, anchor, Now(g)')
        BY <3>1, <3>2, <3>3, <3>4, <4>1, HalfwayNext
      <4>3. Now(g)'.found = g
        BY DEF Now, State
      <4>4. \E x \in From(program, First(anchor)) : x.found = g
        BY <4>2, <4>3 DEF Halfway
      <4> QED BY <1>1, <2>1, <3>2, <3>4, <4>2, <4>4 DEF ReplayInv, start_value
    <3>5. CASE /\ running' /\ ~ended(Now(f)) /\ Now(f)' = After(program, Now(f))
               /\ types_path' = types_path
      BY <3>1, <3>4, <3>5
    <3>6. CASE /\ running' /\ ~ended(Now(f))
               /\ Chain!top \in Paths /\ start_value(Chain!top) = start
               /\ types_path' = Append(types_path, Chain!top)
               /\ \A g : g = f \cup {Chain!top} => Now(g)' = After(program, Now(f))
      <4>1. Range(types_path') = Range(types_path) \cup {Chain!top}
        BY <3>2, <3>6, RangeAppend
      <4>2. \E g : g = f \cup {Chain!top}
        OBVIOUS
      <4>3. PICK g : g = f \cup {Chain!top}
        BY <4>2
      <4>4. g \in SUBSET Paths
        BY <3>6, <4>3
      <4> QED BY <3>1, <3>2, <3>4, <3>6, <4>1, <4>3, <4>4
    <3>7. CASE ~running' /\ ended(Now(f)) /\ types_path' = types_path
      <4>1. Yields(program, anchor, f)
        BY <3>1, <3>2, <3>3, <3>7, HalfwayEnd
      <4>2. \E x \in From(program, First(anchor)) : x.found = f
        BY <3>3
      <4> QED BY <1>1, <2>1, <3>1, <3>2, <3>7, <4>1, <4>2 DEF ReplayInv, start_value
    <3> QED BY <1>4, <2>3, <3>5, <3>6, <3>7, ReplayStep
  <2> QED BY <2>2, <2>3
<1>5. CASE UNCHANGED vars
  <2>1. UNCHANGED <<program, phase, anchors, next, types_path, ditype_paths, running, working, seen, current, pending>>
    BY <1>5 DEF vars, queryVars, chainVars
  <2>2. anchor' = anchor /\ \A f : Now(f)' = Now(f)
    BY <2>1, AnchorSame DEF Now
  <2> QED BY <2>1, <2>2 DEF ReplayInv, start_value
<1> QED BY <1>2, <1>3, <1>4, <1>5 DEF Next, Progress

LEMMA OrderSame ==
    ASSUME OrderInv, UNCHANGED <<program, anchors, next, ditype_paths>>, InLoop' => InLoop,
           phase' = "anchors" => Range(types_path') \subseteq Range(ditype_paths)
    PROVE  OrderInv'
<1>1. /\ \A k, p : Owns(k, p)' <=> Owns(k, p)
      /\ \A k : isBackward(value(anchors[k]))' <=> isBackward(value(anchors[k]))
      /\ \A k : value(anchors[k])' = value(anchors[k])
  BY DEF Owns, isBackward, value, start_value
<1>2. Ordered(ditype_paths)' <=> Ordered(ditype_paths)
  BY <1>1 DEF Ordered, IsNew
<1> QED BY <1>1, <1>2 DEF OrderInv

\* The loop goes on to the next anchor with the paths m added to the result.
LEMMA OrderAdd ==
    ASSUME Typed, OrderInv, phase \in {"anchors", "backward"}, next <= Len(anchors),
           NEW m \in Seq(Paths),
           UNCHANGED <<program, anchors>>, next' = next + 1, phase' = "anchors",
           ditype_paths' = ditype_paths \o m,
           Range(types_path') \subseteq Range(ditype_paths \o m),
           IF isBackward(anchor) THEN Yields(program, anchor, Range(ditype_paths \o m))
           ELSE anchors[next] \in Range(ditype_paths \o m),
           \A p \in Range(m) : p \in Range(ditype_paths) \/ Owns(next, p),
           \A p \in Range(m) \ Range(ditype_paths) : \A k \in DOMAIN anchors : Owns(k, p) => next <= k
    PROVE  OrderInv'
<1> DEFINE l == ditype_paths \o m
<1>1. /\ anchors \in Seq(Paths) /\ ditype_paths \in Seq(Paths)
      /\ DOMAIN anchors = 1..Len(anchors) /\ Len(anchors) \in Nat
      /\ next \in 1..Len(anchors)
  BY LenProperties, AnchorFacts DEF Typed, TypeOK
<1>2. Range(l) = Range(ditype_paths) \cup Range(m)
  BY <1>1, RangeConcat
<1> HIDE DEF l
<1>3. InLoop /\ anchor = value(anchors[next])
  BY DEF InLoop, anchor
<1>4. \A p \in Range(l) : \E k \in 1..next : Owns(k, p)
  <2>1. \A p \in Range(ditype_paths) : \E k \in 1..(next - 1) : Owns(k, p)
    BY <1>3 DEF OrderInv
  <2>2. \A k \in 1..(next - 1) : k \in 1..next
    BY <1>1
  <2>3. next \in 1..next
    BY <1>1
  <2> QED BY <1>2, <2>1, <2>2, <2>3
<1>5. Ordered(l)
  <2>1. \A k \in 1..next : k \in DOMAIN anchors /\ k <= next
    BY <1>1
  <2>2. \A p \in Range(ditype_paths) \cup Range(m) : \E h \in DOMAIN anchors : h <= next /\ Owns(h, p)
    BY <1>2, <1>4, <2>1
  <2>3. Ordered(ditype_paths)
    BY <1>3 DEF OrderInv
  <2> QED BY <1>1, <2>2, <2>3, OrderedConcat DEF l
<1>6. ASSUME NEW k \in 1..next
      PROVE  IF isBackward(value(anchors[k]))
             THEN Yields(program, value(anchors[k]), Range(l))
             ELSE anchors[k] \in Range(l)
  <2>1. CASE k = next
    BY <1>3, <2>1 DEF l
  <2>2. CASE k # next
    <3>1. k \in 1..(next - 1)
      BY <1>1, <2>2
    <3>2. IF isBackward(value(anchors[k]))
          THEN Yields(program, value(anchors[k]), Range(ditype_paths))
          ELSE anchors[k] \in Range(ditype_paths)
      BY <1>3, <3>1 DEF OrderInv
    <3>3. Yields(program, value(anchors[k]), Range(ditype_paths))
            => Yields(program, value(anchors[k]), Range(l))
      BY <1>2 DEF Yields
    <3> QED BY <1>2, <3>2, <3>3
  <2> QED BY <2>1, <2>2
<1>7. next' - 1 = next /\ ditype_paths' = l
  BY <1>1 DEF l
<1>8. /\ \A k, p : Owns(k, p)' <=> Owns(k, p)
      /\ \A k : isBackward(value(anchors[k]))' <=> isBackward(value(anchors[k]))
      /\ \A k : value(anchors[k])' = value(anchors[k])
  BY DEF Owns, isBackward, value, start_value
<1>9. Ordered(ditype_paths)' <=> Ordered(l)
  BY <1>7, <1>8 DEF Ordered, IsNew
<1>10. Range(types_path') \subseteq Range(l)
  BY DEF l
<1> HIDE DEF Yields, Ordered, Owns, isBackward
<1> QED BY <1>4, <1>5, <1>6, <1>7, <1>8, <1>9, <1>10 DEF OrderInv

\* No anchor is the allocation itself, and the anchors searched from are no calls.
LEMMA AnchorsAreNotTheStart ==
    ASSUME Typed, AnchorInv, CallInv, InLoop, NEW k \in DOMAIN anchors
    PROVE  /\ start_value(anchors[k]) = from
           /\ value(anchors[k]) # from
           /\ isBackward(value(anchors[k])) => value(anchors[k]) # from
           /\ program.kind[value(anchors[k])] = "store" => pointerOperand(program, value(anchors[k])) # from
<1>1. start_value(anchors[k]) = from /\ isAnchor(program, from, value(anchors[k]))
  BY DEF AnchorInv, AnchorsFrom, InLoop
<1>2. anchors # <<>>
  OBVIOUS
<1>3. program.kind[from] = "call"
  BY <1>2 DEF CallInv
<1> QED BY <1>1, <1>3 DEF isAnchor, isMemIntrinsic, CallKind

LEMMA OrderStep ==
    ASSUME Typed, TraverserOK, SearchInv, AnchorInv, ResultInv, CallInv, ReplayInv, OrderInv,
           [Next]_vars
    PROVE  OrderInv'
<1>0. /\ anchors \in Seq(Paths) /\ types_path \in Seq(Paths) /\ ditype_paths \in Seq(Paths)
      /\ next \in 1..(Len(anchors) + 1) /\ Len(anchors) \in Nat
      /\ DOMAIN anchors = 1..Len(anchors)
  BY LenProperties DEF Typed, TypeOK
<1>1. CASE Query \/ ForwardStep \/ UsersEnd \/ ValueEnd
  <2>1. ~InLoop' /\ phase' # "anchors"
    BY <1>1, QueryFacts DEF ForwardStep, UsersEnd, ValueEnd, InLoop, Answered, SearchInv
  <2> QED BY <2>1 DEF OrderInv
<1>2. CASE ForwardEnd
  <2>1. /\ next' = 1 /\ types_path' = <<>> /\ ditype_paths' = <<>>
    BY <1>2 DEF ForwardEnd, SearchInv, ResultInv
  <2>2. 1..(next' - 1) = {} /\ Range(<<>>) = {} /\ DOMAIN <<>> = {}
    BY <2>1 DEF Range
  <2>3. Ordered(ditype_paths)'
    BY <2>1, <2>2 DEF Ordered
  <2>4. Range(ditype_paths') = {} /\ Range(types_path') = {}
    BY <2>1, <2>2
  <2> QED BY <2>1, <2>2, <2>3, <2>4 DEF OrderInv
<1>3. CASE Backtrack \/ BackwardStep \/ Return \/ UNCHANGED vars
  <2>1. /\ UNCHANGED <<program, anchors, next, ditype_paths>>
        /\ InLoop' => InLoop
        /\ phase' = "anchors" => phase = "anchors" /\ types_path' = types_path
    BY <1>3 DEF Backtrack, BackwardStep, Return, vars, queryVars, InLoop, Answered
  <2>2. phase' = "anchors" => Range(types_path') \subseteq Range(ditype_paths)
    BY <2>1 DEF OrderInv
  <2> QED BY <2>1, <2>2, OrderSame
<1>4. CASE TakeAnchor
  <2> DEFINE p0 == anchors[next]
  <2>1. /\ phase = "anchors" /\ phase' = "anchors" /\ next' = next + 1 /\ next <= Len(anchors)
        /\ UNCHANGED <<program, anchors, types_path>>
        /\ ~isBacktracked \/ intoAllocation
        /\ ditype_paths' = IF intoAllocation THEN ditype_paths ELSE Append(ditype_paths, p0)
    BY <1>4 DEF TakeAnchor
  <2>2. next \in DOMAIN anchors /\ p0 \in Paths /\ InLoop
    BY <1>0, <2>1, AnchorFacts DEF Typed, InLoop
  <2>3. ~intoAllocation
    BY <2>2, AnchorsAreNotTheStart DEF intoAllocation, anchor
  <2>4. ~isBackward(anchor)
    BY <2>1, <2>3 DEF isBacktracked, isBackward
  <2>5. /\ <<p0>> \in Seq(Paths) /\ ditype_paths' = ditype_paths \o <<p0>>
    BY <1>0, <2>1, <2>2, <2>3, AppendIsConcat
  <2>6. Range(<<p0>>) = {p0}
    <3>1. DOMAIN <<p0>> = {1} /\ <<p0>>[1] = p0
      OBVIOUS
    <3> QED BY <3>1 DEF Range
  <2>7. Range(ditype_paths \o <<p0>>) = Range(ditype_paths) \cup {p0}
    BY <1>0, <2>5, <2>6, RangeConcat
  <2>8. Range(types_path') \subseteq Range(ditype_paths)
    BY <2>1 DEF OrderInv
  <2>9. ASSUME p0 \notin Range(ditype_paths), NEW k \in DOMAIN anchors, Owns(k, p0)
        PROVE  next <= k
    <3>1. anchors[k] = p0
      BY <2>2, <2>9, AnchorsAreNotTheStart DEF Owns
    <3>2. ~isBackward(value(anchors[k]))
      BY <2>4, <3>1 DEF anchor
    <3>3. ~(k \in 1..(next - 1))
      BY <2>2, <2>9, <3>1, <3>2 DEF OrderInv
    <3> QED BY <1>0, <3>3
  <2>10. Owns(next, p0)
    BY DEF Owns
  <2> HIDE DEF p0
  <2>11. anchors[next] \in Range(ditype_paths \o <<p0>>)
    BY <2>7 DEF p0
  <2> QED BY <2>1, <2>4, <2>5, <2>6, <2>7, <2>8, <2>9, <2>10, <2>11, OrderAdd
<1>5. CASE BackwardEnd
  <2>1. /\ phase = "backward" /\ ~running /\ phase' = "anchors" /\ next' = next + 1
        /\ ditype_paths' = ditype_paths \o types_path
        /\ UNCHANGED <<program, anchors, types_path>>
        /\ next <= Len(anchors)
    BY <1>5 DEF BackwardEnd, Typed
  <2>2. next \in DOMAIN anchors /\ InLoop /\ isBackward(anchor)
    BY <1>0, <2>1 DEF InLoop, SearchInv, isBacktracked, isBackward
  <2>3. PICK f \in SUBSET Paths :
            /\ f \subseteq Range(types_path)
            /\ Range(types_path) \subseteq Range(ditype_paths) \cup f
            /\ \A p \in f : start_value(p) = anchor
            /\ \E x \in From(program, First(anchor)) : x.found = f
            /\ Yields(program, anchor, f)
    BY <2>1 DEF ReplayInv
  <2>4. Range(ditype_paths \o types_path) = Range(ditype_paths) \cup Range(types_path)
    BY <1>0, RangeConcat
  <2>5. Yields(program, anchor, Range(ditype_paths \o types_path))
    BY <2>3, <2>4 DEF Yields
  <2>6. \A p \in Range(types_path) : p \in Range(ditype_paths) \/ Owns(next, p)
    BY <2>3 DEF Owns, anchor
  <2>7. ASSUME NEW p \in Range(types_path) \ Range(ditype_paths), NEW k \in DOMAIN anchors, Owns(k, p)
        PROVE  next <= k
    <3>1. p \in f /\ start_value(p) = anchor
      BY <2>3, <2>7
    <3>2. value(anchors[k]) = anchor
      <4>1. anchor # from /\ start_value(anchors[k]) = from
        BY <2>2, <2>7, AnchorsAreNotTheStart DEF anchor
      <4> QED BY <2>7, <3>1, <4>1 DEF Owns
    <3>3. ~Yields(program, value(anchors[k]), Range(ditype_paths))
      BY <2>3, <2>7, <3>1, <3>2 DEF Yields
    <3>4. ~(k \in 1..(next - 1))
      BY <2>2, <3>2, <3>3 DEF OrderInv
    <3> QED BY <1>0, <3>4
  <2> QED BY <1>0, <2>1, <2>2, <2>4, <2>5, <2>6, <2>7, OrderAdd
<1> QED BY <1>1, <1>2, <1>3, <1>4, <1>5 DEF Next, Progress

(****************************************************************************)
(* The theorem.                                                             *)
(****************************************************************************)

LEMMA OrderInvariance == Spec => [](CallInv /\ ReplayInv /\ OrderInv)
<1>1. Init => CallInv /\ ReplayInv /\ OrderInv
  BY DEF Init, Chain!Init, CallInv, ReplayInv, OrderInv, InLoop, Answered
<1>2. Typed /\ TraverserOK /\ SearchInv /\ AnchorInv /\ ResultInv /\ CallInv /\ ReplayInv
        /\ OrderInv /\ TraverserOK' /\ [Next]_vars
        => CallInv' /\ ReplayInv' /\ OrderInv'
  BY CallStep, ReplayInvStep, OrderStep
<1> QED BY <1>1, <1>2, QueryInvariance, PTL DEF Spec

\* The type reported is that of the first path.  A path that is no repetition
\* of one before it belongs to an anchor no earlier than theirs, whatever the
\* shared matcher hands over again.
THEOREM AnchorOrder == Spec => []NewPathsInAnchorOrder
<1>1. ASSUME Typed, ResultInv, OrderInv PROVE NewPathsInAnchorOrder
  <2>1. CASE ~Answered
    BY <2>1 DEF NewPathsInAnchorOrder
  <2>2. CASE Answered
    <3>1. DOMAIN anchors = 1..(next - 1)
      BY <1>1, <2>2, LenProperties DEF ResultInv, Typed, TypeOK
    <3>2. Ordered(ditype_paths) /\ \A p \in Range(ditype_paths) : \E k \in DOMAIN anchors : Owns(k, p)
      BY <1>1, <2>2, <3>1 DEF OrderInv, InLoop
    <3> QED BY <1>1, <3>2, OrderedIsAnchorOrder
  <2> QED BY <2>1, <2>2
<1> QED BY <1>1, QueryInvariance, OrderInvariance, PTL

==============================================================================
