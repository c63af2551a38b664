------------------------- MODULE HeapDataflowProofs -------------------------
(****************************************************************************)
(* Theorems about HeapDataflow for every function of the IR, proved with    *)
(* TLAPS on top of those about the traverser it drives: the theorems of     *)
(* DefUseChainProofs are instantiated, not proved again.                    *)
(****************************************************************************)
EXTENDS HeapDataflow, SequenceTheorems, TLAPS

Traversal == INSTANCE DefUseChainProofs WITH Graphs <- Searches, Matchers <- Callbacks

(****************************************************************************)
(* The search functions and callbacks of the queries are what a traverser   *)
(* may be called with.                                                      *)
(****************************************************************************)

LEMMA SearchFacts ==
    ASSUME NEW p \in Programs
    PROVE  /\ usersSearch(p) \in [Value -> Seq(Value)]
           /\ heapSearch(p) \in [Value -> Seq(Value)]
           /\ MallocBacktrackSearch(p) \in [Value -> Seq(Value)]
<1>1. /\ p.users \in [Value -> Seq(Value)]
      /\ p.operands \in [Value -> Seq(Value)]
  BY ProgramsAssumption
<1>2. usersSearch(p) \in [Value -> Seq(Value)]
  BY <1>1 DEF usersSearch
<1>3. ASSUME NEW v \in Value, p.kind[v] = "store" PROVE pointerOperand(p, v) \in Value
  <2>1. p.operands[v] \in Seq(Value) /\ Len(p.operands[v]) = 2
    BY <1>1, <1>3, ProgramsAssumption
  <2> QED BY <2>1, ElementOfSeq DEF pointerOperand
<1>4. heapSearch(p) \in [Value -> Seq(Value)]
  BY <1>1, <1>3 DEF heapSearch
<1>5. ASSUME NEW v \in Value, p.operands[v] # <<>> PROVE p.operands[v][1] \in Value
  <2>1. p.operands[v] \in Seq(Value) /\ Len(p.operands[v]) \in Nat \ {0}
    BY <1>1, <1>5, EmptySeq, LenProperties
  <2> QED BY <2>1, ElementOfSeq
<1>6. MallocBacktrackSearch(p) \in [Value -> Seq(Value)]
  <2> DEFINE unary == {"load", "gep", "bitcast", "sext", "constgep", "constcast", "memcpy"}
  <2> SUFFICES ASSUME NEW v \in Value PROVE MallocBacktrackSearch(p)[v] \in Seq(Value)
    BY DEF MallocBacktrackSearch
  <2>1. CASE p.kind[v] = "store"
    BY <1>3, <2>1 DEF MallocBacktrackSearch
  <2>2. CASE p.kind[v] \in unary
    BY <1>5, <2>2, ProgramsAssumption DEF MallocBacktrackSearch
  <2>3. CASE p.kind[v] = "phi"
    BY <1>1, <2>3 DEF MallocBacktrackSearch
  <2>4. CASE p.kind[v] \notin unary \cup {"store", "phi"}
    BY <2>4 DEF MallocBacktrackSearch
  <2> QED BY <2>1, <2>2, <2>3, <2>4
<1> QED BY <1>2, <1>4, <1>6

LEMMA SearchesTyped == Searches \subseteq [Value -> Seq(Value)]
BY SearchFacts DEF Searches

LEMMA CallbacksTyped == Callbacks \subseteq [Value -> Traversal!MatchResult]
BY DEF Callbacks, Traversal!MatchResult, anchorMatch, targetMatch, helperMatch, shapeMatch

(****************************************************************************)
(* Composition: a query drives the traverser the way its clients may.       *)
(****************************************************************************)

\* The query's variables are of their type and so are the traverser's; while
\* it walks backward there is an anchor it started from.
Typed ==
    /\ program \in Programs
    /\ TypeOK
    /\ Traversal!TypeOK
    /\ phase = "backward" => next <= Len(anchors)

LEMMA PathFacts ==
    ASSUME NEW p \in Paths
    PROVE  value(p) \in Value /\ start_value(p) \in Value
BY ElementOfSeq, LenProperties, EmptySeq DEF Paths, value, start_value

LEMMA AppendFacts ==
    ASSUME NEW l \in Seq(Paths), NEW p \in Paths
    PROVE  /\ Append(l, p) \in Seq(Paths)
           /\ Len(l) \in Nat
           /\ DOMAIN l = 1..Len(l)
           /\ Len(Append(l, p)) = Len(l) + 1
           /\ DOMAIN Append(l, p) = 1..(Len(l) + 1)
           /\ \A i \in 1..Len(l) : Append(l, p)[i] = l[i]
           /\ Append(l, p)[Len(l) + 1] = p
<1>1. /\ Append(l, p) \in Seq(Paths)
      /\ Len(Append(l, p)) = Len(l) + 1
      /\ \A i \in 1..Len(l) : Append(l, p)[i] = l[i]
      /\ Append(l, p)[Len(l) + 1] = p
  BY AppendProperties
<1> QED BY <1>1, LenProperties

\* The anchor the loop looks at.
LEMMA AnchorFacts ==
    ASSUME TypeOK, next <= Len(anchors)
    PROVE  /\ next \in 1..Len(anchors)
           /\ anchors[next] \in Paths
           /\ anchor \in Value
<1>1. next \in 1..Len(anchors)
  BY LenProperties DEF TypeOK
<1>2. anchors[next] \in Paths
  BY <1>1, ElementOfSeq DEF TypeOK
<1> QED BY <1>1, <1>2, PathFacts DEF anchor

LEMMA ComposesStep ==
    ASSUME Typed, [Next]_vars
    PROVE  [Chain!Next]_(Chain!vars)
<1>1. ASSUME NEW v \in Value, NEW search \in Searches, NEW match \in Callbacks,
             Chain!Traverse(v, search, match)
      PROVE  Chain!Next
  <2>1. ~running
    BY <1>1 DEF Chain!Traverse
  <2> QED BY <1>1, <2>1 DEF Chain!Next, Chain!Call
<1>2. /\ usersSearch(program) \in Searches
      /\ heapSearch(program) \in Searches
      /\ MallocBacktrackSearch(program) \in Searches
      /\ \A v \in Value : anchorMatch(program, v) \in Callbacks
      /\ targetMatch(program) \in Callbacks
      /\ helperMatch(program) \in Callbacks
      /\ shapeMatch(program) \in Callbacks
  BY DEF Typed, Searches, Callbacks
<1>3. CASE Query
  <2>1. PICK v \in Value :
           \/ type_for_heap_call(v) \/ path_from_alloca(v) \/ path_from_value(v)
           \/ passed_to_fortran_helper(v) \/ shape_from_value(v)
    BY <1>3 DEF Query
  <2> QED BY <1>1, <1>2, <2>1 DEF type_for_heap_call, path_from_alloca, path_from_value,
             passed_to_fortran_helper, shape_from_value
<1>4. CASE Backtrack
  <2>1. anchor \in Value
    BY <1>4, AnchorFacts DEF Backtrack, Typed
  <2> QED BY <1>1, <1>2, <1>4, <2>1 DEF Backtrack
<1>5. CASE ForwardStep \/ BackwardStep
  BY <1>5 DEF ForwardStep, BackwardStep, Chain!Next
<1>6. CASE ForwardEnd \/ UsersEnd \/ ValueEnd \/ TakeAnchor \/ BackwardEnd \/ Return
           \/ UNCHANGED vars
  BY <1>6 DEF ForwardEnd, UsersEnd, ValueEnd, TakeAnchor, BackwardEnd, Return, vars, chainVars,
     Chain!vars
<1> QED BY <1>3, <1>4, <1>5, <1>6 DEF Next, Progress

\* The two instances are of one specification.
LEMMA SameStep ==
    ASSUME [Chain!Next]_(Chain!vars)
    PROVE  [Traversal!Next]_(Traversal!vars)
BY DEF Chain!vars, Chain!Next, Chain!Call, Chain!Traverse, Chain!Step, Chain!MatchSkip,
   Chain!MatchCancel, Chain!MatchContinue, Chain!AddToWork, Chain!Exhausted, Chain!HasWork,
   Chain!Leave, Chain!top, Chain!popped, Chain!value, Chain!addToWorkS, Chain!NoSearch,
   Chain!NoMatch,
   Traversal!vars, Traversal!Next, Traversal!Call, Traversal!Traverse, Traversal!Step,
   Traversal!MatchSkip, Traversal!MatchCancel, Traversal!MatchContinue, Traversal!AddToWork,
   Traversal!Exhausted, Traversal!HasWork, Traversal!Leave, Traversal!top, Traversal!popped,
   Traversal!value, Traversal!addToWorkS, Traversal!NoSearch, Traversal!NoMatch

\* The path the callback is called with.
LEMMA TopFacts ==
    ASSUME Traversal!TypeOK, Chain!HasWork
    PROVE  Chain!top \in Paths /\ value(Chain!top) \in Value
<1>1. Traversal!HasWork /\ Chain!top = Traversal!top
  BY DEF Chain!HasWork, Chain!top, Traversal!HasWork, Traversal!top
<1>2. Traversal!top \in Traversal!Path
  BY <1>1, Traversal!HeadFacts, SearchesTyped, CallbacksTyped
<1>3. Chain!top \in Paths
  BY <1>1, <1>2 DEF Traversal!Path, Paths
<1> QED BY <1>3, PathFacts

\* Calls of a query: fresh locals, and the traverser is called.
LEMMA QueryFacts ==
    ASSUME Query
    PROVE  /\ anchors' = <<>> /\ next' = 1 /\ types_path' = <<>> /\ ditype_paths' = <<>>
           /\ UNCHANGED program
           /\ ~running /\ running'
           /\ start' \in Value
           /\ seen' = seen
           /\ \/ /\ phase' = "forward"
                 /\ succ' = heapSearch(program)
                 /\ verdict' = anchorMatch(program, start')
              \/ /\ phase' = "value"
                 /\ succ' = MallocBacktrackSearch(program)
                 /\ verdict' = targetMatch(program)
              \/ /\ phase' = "helper"
                 /\ succ' = usersSearch(program)
                 /\ verdict' = helperMatch(program)
              \/ /\ phase' = "shape"
                 /\ succ' = usersSearch(program)
                 /\ verdict' = shapeMatch(program)
              \/ phase' = "users"
BY DEF Query, type_for_heap_call, path_from_alloca, path_from_value,
     passed_to_fortran_helper, shape_from_value, Enter, Chain!Traverse

LEMMA TypedStep ==
    ASSUME Typed, [Next]_vars
    PROVE  Typed'
<1>1. Traversal!TypeOK'
  BY ComposesStep, SameStep, Traversal!TypeStep, SearchesTyped, CallbacksTyped DEF Typed
<1>2. program' = program
  BY DEF Next, Query, Progress, vars, Enter, type_for_heap_call, path_from_alloca,
     path_from_value, passed_to_fortran_helper, shape_from_value, ForwardStep, ForwardEnd,
     UsersEnd, ValueEnd, TakeAnchor, Backtrack, BackwardStep, BackwardEnd, Return
<1>0. Chain!HasWork => Chain!top \in Paths
  BY TopFacts DEF Typed
<1>3. /\ anchors \in Seq(Paths) /\ types_path \in Seq(Paths) /\ ditype_paths \in Seq(Paths)
      /\ next \in 1..(Len(anchors) + 1) /\ Len(anchors) \in Nat
      /\ phase \in {"forward", "users", "helper", "shape", "value", "anchors",
                    "backward", "returned"}
      /\ phase = "backward" => next <= Len(anchors)
  BY LenProperties DEF Typed, TypeOK
<1> SUFFICES /\ phase' \in {"forward", "users", "helper", "shape", "value", "anchors",
                            "backward", "returned"}
             /\ anchors' \in Seq(Paths)
             /\ next' \in 1..(Len(anchors') + 1)
             /\ types_path' \in Seq(Paths)
             /\ ditype_paths' \in Seq(Paths)
             /\ phase' = "backward" => next' <= Len(anchors')
  BY <1>1, <1>2 DEF Typed, TypeOK
<1>4. CASE Query
  BY <1>4, QueryFacts, EmptySeq
<1>5. CASE ForwardStep
  <2>1. \/ anchors' = anchors
        \/ Chain!HasWork /\ anchors' = Append(anchors, Chain!top)
    BY <1>5 DEF ForwardStep
  <2>2. /\ anchors' \in Seq(Paths)
        /\ Len(anchors') \in {Len(anchors), Len(anchors) + 1}
    BY <1>0, <1>3, <2>1, AppendFacts
  <2> QED BY <1>3, <1>5, <2>2 DEF ForwardStep
<1>6. CASE BackwardStep
  <2>1. \/ types_path' = types_path
        \/ Chain!HasWork /\ types_path' = Append(types_path, Chain!top)
    BY <1>6 DEF BackwardStep
  <2>2. types_path' \in Seq(Paths)
    BY <1>0, <1>3, <2>1, AppendFacts
  <2> QED BY <1>3, <1>6, <2>2 DEF BackwardStep
<1>7. CASE TakeAnchor
  <2>1. ditype_paths' = ditype_paths \/ ditype_paths' = Append(ditype_paths, anchors[next])
    BY <1>7 DEF TakeAnchor
  <2>2. ditype_paths' \in Seq(Paths)
    BY <1>3, <1>7, <2>1, AnchorFacts, AppendFacts DEF TakeAnchor, Typed
  <2> QED BY <1>3, <1>7, <2>2 DEF TakeAnchor
<1>8. CASE BackwardEnd
  <2>1. ditype_paths' \in Seq(Paths)
    BY <1>3, <1>8, ConcatProperties DEF BackwardEnd
  <2> QED BY <1>3, <1>8, <2>1 DEF BackwardEnd
<1>9. CASE ForwardEnd \/ UsersEnd \/ ValueEnd \/ Backtrack \/ Return \/ UNCHANGED vars
  BY <1>3, <1>9 DEF ForwardEnd, UsersEnd, ValueEnd, Backtrack, Return, vars, queryVars
<1> QED BY <1>4, <1>5, <1>6, <1>7, <1>8, <1>9 DEF Next, Progress

LEMMA TypedInvariance == Spec => []Typed
<1>1. Init => Typed
  <2> SUFFICES ASSUME Init PROVE Typed
    OBVIOUS
  <2>1. Traversal!TypeOK
    BY EmptySeq DEF Init, Chain!Init, Chain!NoSearch, Chain!NoMatch, Traversal!TypeOK,
       Traversal!NoSearch, Traversal!NoMatch
  <2>2. TypeOK
    BY ProgramsAssumption, EmptySeq DEF Init, TypeOK
  <2> QED BY <2>1, <2>2 DEF Init, Typed
<1>2. Typed /\ [Next]_vars => Typed'
  BY TypedStep
<1> QED BY <1>1, <1>2, PTL DEF Spec

\* Every variable of a query keeps its type, on every function of the IR.
THEOREM TypeCorrect == Spec => []TypeOK
<1>1. Typed => TypeOK
  BY DEF Typed
<1> QED BY <1>1, TypedInvariance, PTL

\* A query never calls the traverser while it runs and hands it searches and
\* callbacks it expects: what is proved of the traverser holds in a query.
THEOREM DrivesTraverser == Spec => Chain!Spec
<1>1. Init => Chain!Init
  BY DEF Init
<1>2. Typed /\ [Next]_vars => [Chain!Next]_(Chain!vars)
  BY ComposesStep
<1> QED BY <1>1, <1>2, TypedInvariance, PTL DEF Spec, Chain!Spec

(****************************************************************************)
(* What a query may rely on.                                                *)
(****************************************************************************)

\* The inductive invariant of the traverser.
TraverserOK ==
    /\ Traversal!TypeOK /\ Traversal!LoopInv /\ Traversal!PathsAreSimple /\ Traversal!SeenInv
    /\ Traversal!OnceInv

LEMMA TraverserInvariance == Spec => []TraverserOK
<1>1. Init => Traversal!Init
  BY DEF Init, Chain!Init, Chain!NoSearch, Chain!NoMatch, Traversal!Init, Traversal!NoSearch,
     Traversal!NoMatch
<1>2. Typed /\ [Next]_vars => [Traversal!Next]_(Traversal!vars)
  BY ComposesStep, SameStep
<1>3. Spec => Traversal!Spec
  BY <1>1, <1>2, TypedInvariance, PTL DEF Spec, Traversal!Spec
<1>4. Traversal!Spec
        => [](Traversal!TypeOK /\ Traversal!LoopInv /\ Traversal!PathsAreSimple /\ Traversal!SeenInv)
  BY Traversal!Invariance, SearchesTyped, CallbacksTyped
<1>5. Traversal!Spec
        => [](Traversal!StaleEntriesAreExhausted /\ Traversal!RestInv /\ Traversal!OnceInv)
  BY Traversal!OnceInvariance, SearchesTyped, CallbacksTyped
<1> QED BY <1>3, <1>4, <1>5, PTL DEF TraverserOK

\* What one step of the traverser does, as its client sees it: it takes a value
\* and goes on, looks at a successor, is cancelled at a value, or has matched
\* all there is to reach.
LEMMA TraverserStep ==
    ASSUME TraverserOK, Chain!Step
    PROVE  /\ running /\ start' = start
           /\ \/ /\ Chain!HasWork /\ running' /\ UNCHANGED <<succ, verdict>>
                 /\ verdict[value(Chain!top)] # "kCancel"
                 /\ seen' = seen \cup {value(Chain!top)}
              \/ /\ ~Chain!HasWork /\ running' /\ UNCHANGED <<succ, verdict, seen>>
              \/ /\ Chain!HasWork /\ ~running'
                 /\ verdict[value(Chain!top)] = "kCancel"
              \/ /\ ~Chain!HasWork /\ ~running'
                 /\ seen = ReachedFrom(start, succ, verdict)
           /\ Chain!HasWork =>
                 Chain!top \in Paths /\ value(Chain!top) \in Value /\ start_value(Chain!top) = start
<1>0. Chain!value(Chain!top) = value(Chain!top)
  BY DEF Chain!value, value
<1>1. ASSUME Chain!HasWork
      PROVE  Chain!top \in Paths /\ value(Chain!top) \in Value /\ start_value(Chain!top) = start
  <2>1. Chain!top \in Paths /\ value(Chain!top) \in Value
    BY <1>1, TopFacts DEF TraverserOK
  <2>2. Traversal!HasWork /\ Chain!top = Traversal!top
    BY <1>1 DEF Chain!HasWork, Chain!top, Traversal!HasWork, Traversal!top
  <2>3. Traversal!IsSearchPath(Traversal!top)
    BY <2>2, Traversal!HeadFacts, SearchesTyped, CallbacksTyped DEF TraverserOK, Traversal!PathsAreSimple
  <2> QED BY <2>1, <2>2, <2>3 DEF Traversal!IsSearchPath, Traversal!start_value, start_value
<1>2. CASE Chain!MatchSkip \/ Chain!MatchContinue
  BY <1>0, <1>2, <1>1 DEF Chain!MatchSkip, Chain!MatchContinue, Chain!HasWork
<1>3. CASE Chain!MatchCancel
  BY <1>0, <1>3, <1>1 DEF Chain!MatchCancel, Chain!HasWork, Chain!Leave
<1>4. CASE Chain!AddToWork
  BY <1>4 DEF Chain!AddToWork, Chain!HasWork
<1>5. CASE Chain!Exhausted
  <2>1. running /\ pending = <<>> /\ working = <<>> /\ Chain!Leave
    BY <1>5 DEF Chain!Exhausted
  <2>2. seen = Traversal!Abstract!Reachable
    BY <2>1, Traversal!ExhaustedIsClosed, SearchesTyped, CallbacksTyped DEF TraverserOK
  <2>3. \A v \in Value : Traversal!Abstract!successors(v) = Range(succ[v])
    BY DEF Traversal!Abstract!successors, Range
  <2>4. Traversal!Abstract!Reachable = ReachedFrom(start, succ, verdict)
    BY <2>3 DEF Traversal!Abstract!Reachable, Traversal!Abstract!Closed, ReachedFrom
  <2> QED BY <2>1, <2>2, <2>4 DEF Chain!Leave, Chain!HasWork
<1> QED BY <1>1, <1>2, <1>3, <1>4, <1>5 DEF Chain!Step

(****************************************************************************)
(* The invariant of a query, part by part.                                  *)
(****************************************************************************)

\* Between searches the traverser rests; during one it has the functions of
\* the phase, and a backward search starts at the anchor.
SearchInv ==
    /\ phase \in {"anchors", "returned"} => ~running
    /\ running /\ phase = "forward" =>
          succ = heapSearch(program) /\ verdict = anchorMatch(program, start)
    /\ running /\ phase \in {"value", "backward"} =>
          succ = MallocBacktrackSearch(program) /\ verdict = targetMatch(program)
    /\ running /\ phase \in {"helper", "shape"} => succ = usersSearch(program)
    /\ running /\ phase = "helper" => verdict = helperMatch(program)
    /\ running /\ phase = "shape" => verdict = shapeMatch(program)
    /\ phase = "backward" => start = anchor /\ isBacktracked
    /\ phase \in {"forward", "users", "helper", "shape", "value"} => next = 1

LEMMA SearchStep ==
    ASSUME Typed, TraverserOK, SearchInv, [Next]_vars
    PROVE  SearchInv'
<1>0. ~running => seen = {}
  BY DEF TraverserOK, Traversal!LoopInv
<1>1. CASE Query
  BY <1>1, QueryFacts DEF SearchInv
<1>2. CASE ForwardStep
  BY <1>2, TraverserStep DEF SearchInv, ForwardStep
<1>3. CASE ForwardEnd \/ UsersEnd \/ ValueEnd \/ BackwardEnd
  BY <1>3 DEF SearchInv, ForwardEnd, UsersEnd, ValueEnd, BackwardEnd, chainVars
<1>4. CASE TakeAnchor \/ Return
  BY <1>4 DEF SearchInv, TakeAnchor, Return, chainVars
<1>5. CASE Backtrack
  <2>1. start' = anchor /\ anchor' = anchor /\ (isBacktracked <=> isBacktracked')
    BY <1>5 DEF Backtrack, Chain!Traverse, anchor, isBacktracked, isMemIntrinsic, value
  <2> QED BY <1>5, <2>1 DEF SearchInv, Backtrack, Chain!Traverse
<1>6. CASE BackwardStep
  <2>1. anchor' = anchor /\ (isBacktracked <=> isBacktracked')
    BY <1>6 DEF BackwardStep, anchor, isBacktracked, isMemIntrinsic, value
  <2> QED BY <1>6, <2>1, TraverserStep DEF SearchInv, BackwardStep
<1>7. CASE UNCHANGED vars
  BY <1>7 DEF vars, queryVars, chainVars, SearchInv, anchor, isBacktracked, isMemIntrinsic, value
<1> QED BY <1>1, <1>2, <1>3, <1>4, <1>5, <1>6, <1>7 DEF Next, Progress

ends(l) == {value(l[i]) : i \in DOMAIN l}

LEMMA EndsFacts ==
    ASSUME NEW l \in Seq(Paths), NEW p \in Paths
    PROVE  ends(Append(l, p)) = ends(l) \cup {value(p)}
<1> HIDE DEF Paths
<1>1. /\ DOMAIN l = 1..Len(l) /\ Len(l) \in Nat
      /\ DOMAIN Append(l, p) = 1..(Len(l) + 1)
      /\ \A i \in 1..Len(l) : Append(l, p)[i] = l[i]
      /\ Append(l, p)[Len(l) + 1] = p
  BY AppendFacts
<1>2. \A i \in 1..(Len(l) + 1) : i \in 1..Len(l) \/ i = Len(l) + 1
  BY <1>1
<1>3. \A i \in 1..Len(l) : i \in 1..(Len(l) + 1)
  BY <1>1
<1> QED BY <1>1, <1>2, <1>3 DEF ends

\* Each anchor was recorded on a path from the allocation.
AnchorsFrom(origin) ==
    \A i \in DOMAIN anchors :
        start_value(anchors[i]) = origin /\ isAnchor(program, origin, value(anchors[i]))

reachedAnchors(origin) ==
    {v \in ReachedFrom(origin, heapSearch(program), anchorMatch(program, origin)) :
        isAnchor(program, origin, v)}

foundReturn == \E v \in anchorValues : program.kind[v] = "ret"

\* The forward search has recorded the anchors among the values seen; when it
\* is over, all there are, or it was cut off at a return.
AnchorInv ==
    /\ phase = "forward" =>
          /\ AnchorsFrom(start)
          /\ running => anchorValues = {v \in seen : isAnchor(program, start, v)}
          /\ ~running => foundReturn \/ anchorValues = reachedAnchors(start)
    /\ phase \in {"anchors", "backward"} \/ Answered => AnchorsFrom(from)
    /\ phase = "anchors" /\ next = 1 /\ anchors # <<>> =>
          foundReturn \/ anchorValues = reachedAnchors(from)

\* A step of the forward search: what is recorded keeps up with what is seen.
LEMMA ForwardAnchors ==
    ASSUME Typed, TraverserOK, SearchInv, AnchorInv, ForwardStep, phase = "forward"
    PROVE  /\ AnchorsFrom(start)'
           /\ running' => anchorValues' = {v \in seen' : isAnchor(program, start, v)}
           /\ ~running' => foundReturn' \/ anchorValues' = reachedAnchors(start)
<1> DEFINE v0 == value(Chain!top)
<1>1. /\ Chain!Step /\ UNCHANGED program
      /\ Chain!HasWork /\ isAnchor(program, start, v0) => anchors' = Append(anchors, Chain!top)
      /\ ~(Chain!HasWork /\ isAnchor(program, start, v0)) => anchors' = anchors
  BY DEF ForwardStep, isRecorded
<1>2. anchors \in Seq(Paths)
  BY DEF Typed, TypeOK
<1>3. /\ AnchorsFrom(start)
      /\ running => anchorValues = {v \in seen : isAnchor(program, start, v)}
      /\ running => succ = heapSearch(program) /\ verdict = anchorMatch(program, start)
  BY DEF AnchorInv, SearchInv
<1>4. /\ running /\ start' = start
      /\ Chain!HasWork => Chain!top \in Paths /\ v0 \in Value /\ start_value(Chain!top) = start
  BY <1>1, TraverserStep
<1>5. /\ anchorValues = ends(anchors)
      /\ anchorValues' = ends(anchors')
  BY DEF anchorValues, ends
<1>6. CASE Chain!HasWork /\ isAnchor(program, start, v0)
  <2>1. anchorValues' = anchorValues \cup {v0}
    BY <1>1, <1>2, <1>4, <1>5, <1>6, EndsFacts
  <2>2. AnchorsFrom(start)'
    <3> SUFFICES ASSUME NEW i \in DOMAIN anchors'
                 PROVE  /\ start_value(anchors'[i]) = start
                        /\ isAnchor(program, start, value(anchors'[i]))
      BY <1>1, <1>4 DEF AnchorsFrom, isAnchor, isMemIntrinsic, storesIntoCopied, pointerOperand,
         start_value, value
    <3>1. anchors' = Append(anchors, Chain!top)
      BY <1>1, <1>6
    <3>2. /\ DOMAIN anchors = 1..Len(anchors) /\ Len(anchors) \in Nat
          /\ DOMAIN anchors' = 1..(Len(anchors) + 1)
          /\ \A k \in 1..Len(anchors) : anchors'[k] = anchors[k]
          /\ anchors'[Len(anchors) + 1] = Chain!top
      BY <1>2, <1>4, <1>6, <3>1, AppendFacts
    <3>3. CASE i = Len(anchors) + 1
      BY <1>4, <1>6, <3>2, <3>3
    <3>4. CASE i # Len(anchors) + 1
      <4>1. i \in DOMAIN anchors /\ anchors'[i] = anchors[i]
        BY <3>2, <3>4
      <4> QED BY <1>3, <4>1 DEF AnchorsFrom
    <3> QED BY <3>3, <3>4
  <2>3. running' => seen' = seen \cup {v0}
    BY <1>1, <1>6, TraverserStep
  <2>4. ~running' => program.kind[v0] = "ret"
    <3>1. ~running' => verdict[v0] = "kCancel"
      BY <1>1, <1>6, TraverserStep
    <3> QED BY <1>3, <1>4, <1>6, <3>1 DEF anchorMatch
  <2>5. ~running' => foundReturn'
    BY <1>1, <2>1, <2>4 DEF foundReturn
  <2> QED BY <1>3, <1>4, <1>6, <2>1, <2>2, <2>3, <2>5
<1>7. CASE ~(Chain!HasWork /\ isAnchor(program, start, v0))
  <2>1. anchors' = anchors /\ anchorValues' = anchorValues
    BY <1>1, <1>5, <1>7
  <2>2. AnchorsFrom(start)'
    BY <1>1, <1>3, <1>4, <2>1 DEF AnchorsFrom, isAnchor, isMemIntrinsic, storesIntoCopied,
       pointerOperand
  <2>3. running' => seen' = seen \/ (Chain!HasWork /\ seen' = seen \cup {v0})
    BY <1>1, TraverserStep
  <2>4. ~running' => ~Chain!HasWork
    <3>1. Chain!HasWork /\ ~running' => verdict[v0] = "kCancel"
      BY <1>1, TraverserStep
    <3>2. verdict[v0] = "kCancel" /\ v0 \in Value => isAnchor(program, start, v0)
      BY <1>3, <1>4 DEF anchorMatch, isAnchor
    <3> QED BY <1>4, <1>7, <3>1, <3>2
  <2>5. ~running' => seen = ReachedFrom(start, succ, verdict)
    BY <1>1, <2>4, TraverserStep
  <2>6. ~running' => anchorValues' = reachedAnchors(start)
    BY <1>3, <1>4, <2>1, <2>5 DEF reachedAnchors
  <2>7. running' => anchorValues' = {v \in seen' : isAnchor(program, start, v)}
    BY <1>3, <1>4, <1>7, <2>1, <2>3
  <2> QED BY <2>2, <2>6, <2>7
<1> QED BY <1>6, <1>7

LEMMA AnchorStep ==
    ASSUME Typed, TraverserOK, SearchInv, AnchorInv, [Next]_vars
    PROVE  AnchorInv'
<1>1. CASE Query
  <2>1. /\ anchors' = <<>> /\ next' = 1 /\ UNCHANGED program /\ running'
        /\ phase' \notin {"anchors", "backward", "returned"}
        /\ seen' = {}
    BY <1>1, QueryFacts DEF TraverserOK, Traversal!LoopInv
  <2> QED BY <2>1 DEF AnchorInv, AnchorsFrom, Answered, anchorValues
<1>2. CASE ForwardStep
  <2>1. phase' = phase /\ phase \in {"forward", "users", "helper", "shape"} /\ program' = program
    BY <1>2 DEF ForwardStep
  <2>2. CASE phase = "forward"
    <3>1. start' = start
      BY <1>2, TraverserStep DEF ForwardStep
    <3>2. reachedAnchors(start)' = reachedAnchors(start)
      BY <2>1, <3>1 DEF reachedAnchors
    <3>3. \A v : isAnchor(program, start, v)' <=> isAnchor(program, start, v)
      BY <2>1, <3>1
    <3> QED BY <1>2, <2>1, <2>2, <3>2, <3>3, ForwardAnchors DEF AnchorInv, Answered
  <2> QED BY <2>1, <2>2 DEF AnchorInv, Answered
<1>3. CASE ForwardEnd
  <2>1. /\ phase = "forward" /\ ~running /\ phase' = "anchors"
        /\ UNCHANGED <<program, anchors, next>>
    BY <1>3 DEF ForwardEnd
  <2>2. AnchorsFrom(start) /\ (foundReturn \/ anchorValues = reachedAnchors(start))
    BY <2>1 DEF AnchorInv
  <2>3. anchors # <<>> => from = start
    <3> SUFFICES ASSUME anchors # <<>> PROVE 1 \in DOMAIN anchors
      BY <2>2 DEF AnchorsFrom, from
    <3> QED BY EmptySeq, LenProperties DEF Typed, TypeOK
  <2>4. AnchorsFrom(from)
    BY <2>2, <2>3 DEF AnchorsFrom
  <2>5. AnchorsFrom(from)' /\ (foundReturn' <=> foundReturn)
          /\ anchorValues' = anchorValues /\ reachedAnchors(from)' = reachedAnchors(from)
    BY <2>1, <2>4 DEF AnchorsFrom, reachedAnchors, anchorValues, foundReturn, from
  <2> QED BY <2>1, <2>2, <2>3, <2>5 DEF AnchorInv
<1>4. CASE UsersEnd \/ ValueEnd
  <2>1. next' = 1 /\ phase' = "returned"
    BY <1>4 DEF UsersEnd, ValueEnd, SearchInv
  <2> QED BY <2>1 DEF AnchorInv, Answered
<1>5. ASSUME UNCHANGED <<program, anchors>>, phase' \in {"anchors", "backward", "returned"},
             phase \in {"anchors", "backward"}, phase' = "anchors" => next' # 1
      PROVE  AnchorInv'
  <2>1. AnchorsFrom(from)' <=> AnchorsFrom(from)
    BY <1>5 DEF AnchorsFrom, from
  <2> QED BY <1>5, <2>1 DEF AnchorInv
<1>6. CASE TakeAnchor \/ Backtrack \/ BackwardEnd
  <2>1. next \in Nat \ {0}
    BY DEF Typed, TypeOK
  <2> QED BY <1>5, <1>6, <2>1 DEF TakeAnchor, Backtrack, BackwardEnd
<1>7. CASE BackwardStep
  <2>1. phase' = phase /\ phase \in {"value", "backward"} /\ UNCHANGED <<program, anchors, next>>
    BY <1>7 DEF BackwardStep
  <2> QED BY <1>5, <2>1 DEF AnchorInv, Answered
<1>8. CASE Return
  BY <1>5, <1>8 DEF Return
<1>9. CASE UNCHANGED vars
  <2>1. UNCHANGED <<program, phase, anchors, next, running, start, seen>>
    BY <1>9 DEF vars, queryVars, chainVars
  <2>2. /\ AnchorsFrom(start)' <=> AnchorsFrom(start)
        /\ AnchorsFrom(from)' <=> AnchorsFrom(from)
        /\ reachedAnchors(start)' = reachedAnchors(start)
        /\ reachedAnchors(from)' = reachedAnchors(from)
        /\ anchorValues' = anchorValues
        /\ foundReturn' <=> foundReturn
        /\ {v \in seen : isAnchor(program, start, v)}' = {v \in seen : isAnchor(program, start, v)}
    BY <2>1 DEF AnchorsFrom, reachedAnchors, anchorValues, foundReturn, from
  <2> QED BY <2>1, <2>2 DEF AnchorInv, Answered
<1> QED BY <1>1, <1>2, <1>3, <1>4, <1>6, <1>7, <1>8, <1>9 DEF Next, Progress

\* A step of a backward search: the targets among the values seen are
\* recorded, and it ends when all there are have been.
LEMMA BackwardTargets ==
    ASSUME Typed, TraverserOK, SearchInv, BackwardStep
    PROVE  /\ running /\ UNCHANGED <<program, phase, anchors, next, ditype_paths, start>>
           /\ \/ /\ running' /\ Chain!top \in Paths /\ start_value(Chain!top) = start
                 /\ types_path' = Append(types_path, Chain!top)
                 /\ isTarget(program, value(Chain!top))
                 /\ seen' = seen \cup {value(Chain!top)}
              \/ /\ running' /\ types_path' = types_path
                 /\ \/ seen' = seen
                    \/ \E v \in Value : seen' = seen \cup {v} /\ ~isTarget(program, v)
              \/ /\ ~running' /\ types_path' = types_path
                 /\ {v \in seen : isTarget(program, v)} = targetsOf(start)
<1> DEFINE v0 == value(Chain!top)
<1>1. /\ Chain!Step /\ UNCHANGED <<program, phase, anchors, next, ditype_paths>>
      /\ Chain!HasWork /\ isTarget(program, v0) => types_path' = Append(types_path, Chain!top)
      /\ ~(Chain!HasWork /\ isTarget(program, v0)) => types_path' = types_path
      /\ phase \in {"value", "backward"}
  BY DEF BackwardStep
<1>2. /\ running /\ start' = start
      /\ Chain!HasWork => Chain!top \in Paths /\ v0 \in Value /\ start_value(Chain!top) = start
  BY <1>1, TraverserStep
<1>3. succ = MallocBacktrackSearch(program) /\ verdict = targetMatch(program)
  BY <1>1, <1>2 DEF SearchInv
<1>4. Chain!HasWork => verdict[v0] # "kCancel"
  BY <1>2, <1>3 DEF targetMatch
<1>5. \/ Chain!HasWork /\ running' /\ seen' = seen \cup {v0}
      \/ ~Chain!HasWork /\ running' /\ seen' = seen
      \/ ~Chain!HasWork /\ ~running' /\ seen = ReachedFrom(start, succ, verdict)
  BY <1>1, <1>4, TraverserStep
<1>6. seen = ReachedFrom(start, succ, verdict)
        => {v \in seen : isTarget(program, v)} = targetsOf(start)
  BY <1>3 DEF targetsOf
<1> QED BY <1>1, <1>2, <1>5, <1>6

\* The targets found for a value, as for the anchors before.
TargetInv ==
    /\ phase = "value" /\ running => ends(types_path) = {v \in seen : isTarget(program, v)}
    /\ TargetsComplete

LEMMA TargetStep ==
    ASSUME Typed, TraverserOK, SearchInv, TargetInv, [Next]_vars
    PROVE  TargetInv'
<1>1. CASE Query
  <2>1. types_path' = <<>> /\ running' /\ seen' = {}
    BY <1>1, QueryFacts DEF TraverserOK, Traversal!LoopInv
  <2> QED BY <2>1 DEF TargetInv, TargetsComplete, ends
<1>2. CASE ForwardStep \/ ForwardEnd \/ UsersEnd \/ ValueEnd \/ TakeAnchor \/ Backtrack
           \/ BackwardEnd \/ Return
  <2>1. phase' # "value"
    BY <1>2 DEF ForwardStep, ForwardEnd, UsersEnd, ValueEnd, TakeAnchor, Backtrack, BackwardEnd,
       Return
  <2> QED BY <2>1 DEF TargetInv, TargetsComplete
<1>3. CASE BackwardStep
  <2>1. running /\ UNCHANGED <<program, phase, start>> /\ types_path \in Seq(Paths)
    BY <1>3, BackwardTargets DEF Typed, TypeOK
  <2>2. CASE phase # "value"
    BY <2>1, <2>2 DEF TargetInv, TargetsComplete
  <2>3. CASE phase = "value"
    <3>1. ends(types_path) = {v \in seen : isTarget(program, v)}
      BY <2>1, <2>3 DEF TargetInv
    <3>2. running' => ends(types_path') = {v \in seen' : isTarget(program, v)}
      <4>1. CASE /\ Chain!top \in Paths
                 /\ types_path' = Append(types_path, Chain!top)
                 /\ isTarget(program, value(Chain!top))
                 /\ seen' = seen \cup {value(Chain!top)}
        BY <2>1, <3>1, <4>1, EndsFacts
      <4>2. CASE /\ types_path' = types_path
                 /\ \/ seen' = seen
                    \/ \E v \in Value : seen' = seen \cup {v} /\ ~isTarget(program, v)
        BY <3>1, <4>2
      <4> QED BY <1>3, <4>1, <4>2, BackwardTargets
    <3>3. ~running' => ends(types_path') = targetsOf(start)
      BY <1>3, <3>1, BackwardTargets
    <3>4. ends(types_path)' = ends(types_path') /\ targetsOf(start)' = targetsOf(start)
      BY <2>1 DEF ends, targetsOf
    <3> QED BY <2>1, <2>3, <3>2, <3>3, <3>4 DEF TargetInv, TargetsComplete, ends
  <2> QED BY <2>2, <2>3
<1>4. CASE UNCHANGED vars
  BY <1>4 DEF vars, queryVars, chainVars, TargetInv, TargetsComplete, ends, targetsOf
<1> QED BY <1>1, <1>2, <1>3, <1>4 DEF Next, Progress

(****************************************************************************)
(* The result of a query about a heap call.                                 *)
(****************************************************************************)

\* A path of the list l leads from a to t.
Leads(l, a, t) == \E i \in DOMAIN l : start_value(l[i]) = a /\ value(l[i]) = t

LEMMA LeadsAppend ==
    ASSUME NEW l \in Seq(Paths), NEW p \in Paths
    PROVE  \A a, t : Leads(Append(l, p), a, t)
                        <=> Leads(l, a, t) \/ (a = start_value(p) /\ t = value(p))
<1>1. /\ DOMAIN l = 1..Len(l) /\ Len(l) \in Nat
      /\ DOMAIN Append(l, p) = 1..(Len(l) + 1)
      /\ \A i \in 1..Len(l) : Append(l, p)[i] = l[i]
      /\ Append(l, p)[Len(l) + 1] = p
  BY AppendFacts
<1>2. /\ \A i \in 1..(Len(l) + 1) : i \in 1..Len(l) \/ i = Len(l) + 1
      /\ \A i \in 1..Len(l) : i \in 1..(Len(l) + 1)
      /\ Len(l) + 1 \in 1..(Len(l) + 1)
  BY <1>1
<1> QED BY <1>1, <1>2 DEF Leads

LEMMA LeadsConcat ==
    ASSUME NEW l \in Seq(Paths), NEW m \in Seq(Paths)
    PROVE  \A a, t : Leads(l \o m, a, t) <=> Leads(l, a, t) \/ Leads(m, a, t)
<1> DEFINE c == l \o m
<1>1. /\ DOMAIN l = 1..Len(l) /\ Len(l) \in Nat
      /\ DOMAIN m = 1..Len(m) /\ Len(m) \in Nat
      /\ DOMAIN c = 1..(Len(l) + Len(m))
      /\ \A i \in 1..(Len(l) + Len(m)) : c[i] = IF i <= Len(l) THEN l[i] ELSE m[i - Len(l)]
  BY ConcatProperties, LenProperties
<1> HIDE DEF c
<1>2. ASSUME NEW i \in DOMAIN c
      PROVE  \/ i \in DOMAIN l /\ c[i] = l[i]
             \/ i - Len(l) \in DOMAIN m /\ c[i] = m[i - Len(l)]
  BY <1>1, <1>2
<1>3. ASSUME NEW i \in DOMAIN l PROVE i \in DOMAIN c /\ c[i] = l[i]
  BY <1>1, <1>3
<1>4. ASSUME NEW i \in DOMAIN m PROVE Len(l) + i \in DOMAIN c /\ c[Len(l) + i] = m[i]
  <2>1. /\ Len(l) + i \in 1..(Len(l) + Len(m)) /\ ~(Len(l) + i <= Len(l))
        /\ (Len(l) + i) - Len(l) = i
    BY <1>1, <1>4
  <2> QED BY <1>1, <2>1
<1>5. \A a, t : Leads(c, a, t) => Leads(l, a, t) \/ Leads(m, a, t)
  BY <1>2 DEF Leads
<1>6. \A a, t : Leads(l, a, t) \/ Leads(m, a, t) => Leads(c, a, t)
  BY <1>3, <1>4 DEF Leads
<1> QED BY <1>5, <1>6 DEF c

isBackward(v) == program.kind[v] = "store" \/ isMemIntrinsic(program, v)

\* What the k-th anchor contributes to the matcher's list: its targets.
Found(k, a, t) ==
    isBackward(value(anchors[k])) /\ a = value(anchors[k]) /\ t \in targetsOf(a)

\* What it contributes to the result: its targets, or itself.
Due(k, a, t) ==
    \/ Found(k, a, t)
    \/ ~isBackward(value(anchors[k])) /\ a = from /\ t = value(anchors[k])

\* The targets among the values a backward search has seen so far.
foundSoFar == IF running THEN {v \in seen : isTarget(program, v)} ELSE targetsOf(anchor)

\* The result holds what is due of the anchors before the next one; the
\* matcher's list, what was found from them and is being found.
ResultInv ==
    /\ phase = "forward" => types_path = <<>> /\ ditype_paths = <<>>
    /\ phase \in {"anchors", "backward"} \/ Answered =>
          \A a, t : Leads(ditype_paths, a, t) <=> \E k \in 1..(next - 1) : Due(k, a, t)
    /\ phase = "anchors" =>
          \A a, t : Leads(types_path, a, t) <=> \E k \in 1..(next - 1) : Found(k, a, t)
    /\ phase = "backward" =>
          \A a, t : Leads(types_path, a, t) <=>
                      \/ \E k \in 1..(next - 1) : Found(k, a, t)
                      \/ a = anchor /\ t \in foundSoFar
    /\ Answered => next = Len(anchors) + 1

\* Nothing is owed differently when neither the anchors nor the program change.
LEMMA SameDues ==
    ASSUME UNCHANGED <<program, anchors>>
    PROVE  \A k, a, t : (Found(k, a, t)' <=> Found(k, a, t)) /\ (Due(k, a, t)' <=> Due(k, a, t))
BY DEF Found, Due, isBackward, targetsOf, from

LEMMA OneMore ==
    ASSUME TypeOK
    PROVE  \A k : k \in 1..((next + 1) - 1) <=> k \in 1..(next - 1) \/ k = next
BY DEF TypeOK

LEMMA LoopHead ==
    ASSUME UNCHANGED <<program, anchors>>, phase' = "anchors",
           \A a, t : Leads(ditype_paths', a, t) <=> \E k \in 1..(next' - 1) : Due(k, a, t),
           \A a, t : Leads(types_path', a, t) <=> \E k \in 1..(next' - 1) : Found(k, a, t)
    PROVE  ResultInv'
<1>1. \A a, t : Leads(ditype_paths', a, t) <=> \E k \in 1..(next' - 1) : Due(k, a, t)'
  BY SameDues
<1>2. \A a, t : Leads(types_path', a, t) <=> \E k \in 1..(next' - 1) : Found(k, a, t)'
  BY SameDues
<1>3. \A a, t : /\ Leads(ditype_paths, a, t)' <=> Leads(ditype_paths', a, t)
                /\ Leads(types_path, a, t)' <=> Leads(types_path', a, t)
  BY DEF Leads
<1> QED BY <1>1, <1>2, <1>3 DEF ResultInv, Answered

LEMMA ResultStep ==
    ASSUME Typed, TraverserOK, SearchInv, AnchorInv, ResultInv, [Next]_vars
    PROVE  ResultInv'
<1>0. /\ TypeOK /\ anchors \in Seq(Paths)
      /\ types_path \in Seq(Paths) /\ ditype_paths \in Seq(Paths)
      /\ next \in 1..(Len(anchors) + 1) /\ Len(anchors) \in Nat
  BY LenProperties DEF Typed, TypeOK
<1>1. CASE Query
  BY <1>1, QueryFacts DEF ResultInv, Answered
<1>2. CASE ForwardStep
  BY <1>2 DEF ForwardStep, ResultInv, Answered
<1>3. CASE ForwardEnd
  <2>1. /\ next' = 1 /\ phase' = "anchors" /\ types_path' = <<>> /\ ditype_paths' = <<>>
    BY <1>3 DEF ForwardEnd, ResultInv, SearchInv
  <2>2. 1..(next' - 1) = {}
    BY <2>1
  <2>3. \A a, t : ~Leads(<<>>, a, t)
    BY DEF Leads
  <2> QED BY <2>1, <2>2, <2>3 DEF ResultInv, Answered, Leads
<1>4. CASE UsersEnd \/ ValueEnd
  BY <1>4 DEF UsersEnd, ValueEnd, SearchInv, ResultInv, Answered
<1>5. CASE TakeAnchor
  <2>1. /\ phase = "anchors" /\ phase' = "anchors" /\ next' = next + 1
        /\ UNCHANGED <<program, anchors, types_path>>
        /\ ~isBacktracked \/ intoAllocation
        /\ ditype_paths' = IF intoAllocation THEN ditype_paths ELSE Append(ditype_paths, anchors[next])
    BY <1>5 DEF TakeAnchor
  <2>2. /\ next \in 1..Len(anchors) /\ anchors[next] \in Paths
        /\ DOMAIN anchors = 1..Len(anchors)
    BY <1>0, <1>5, AnchorFacts, LenProperties DEF TakeAnchor
  <2>3. start_value(anchors[next]) = from /\ isAnchor(program, from, anchor)
    BY <2>1, <2>2 DEF AnchorInv, AnchorsFrom, anchor
  <2>4. ~intoAllocation
    BY <2>3 DEF intoAllocation, isAnchor, isMemIntrinsic, CallKind
  <2>5. ~isBackward(anchor) /\ value(anchors[next]) = anchor
    BY <2>1, <2>4 DEF isBacktracked, isBackward, anchor
  <2>6. \A a, t : Leads(ditype_paths', a, t)
                    <=> Leads(ditype_paths, a, t) \/ (a = from /\ t = anchor)
    BY <1>0, <2>1, <2>2, <2>3, <2>4, <2>5, LeadsAppend
  <2>7. \A a, t : (Due(next, a, t) <=> a = from /\ t = anchor) /\ ~Found(next, a, t)
    BY <2>5 DEF Due, Found
  <2>8. /\ \A a, t : Leads(ditype_paths', a, t) <=> \E k \in 1..(next' - 1) : Due(k, a, t)
        /\ \A a, t : Leads(types_path', a, t) <=> \E k \in 1..(next' - 1) : Found(k, a, t)
    BY <1>0, <2>1, <2>6, <2>7, OneMore DEF ResultInv
  <2> QED BY <2>1, <2>8, LoopHead
<1>6. CASE Backtrack
  <2>1. /\ phase = "anchors" /\ phase' = "backward" /\ running' /\ seen' = seen /\ seen = {}
        /\ UNCHANGED <<program, anchors, next, types_path, ditype_paths>>
    BY <1>6 DEF Backtrack, Chain!Traverse, TraverserOK, Traversal!LoopInv
  <2>2. foundSoFar' = {}
    BY <2>1 DEF foundSoFar
  <2> QED BY <2>1, <2>2, SameDues DEF ResultInv, Answered, Leads
<1>7. CASE BackwardStep
  <2>1. /\ running /\ UNCHANGED <<program, phase, anchors, next, ditype_paths, start>>
        /\ phase \in {"value", "backward"}
    BY <1>7, BackwardTargets DEF BackwardStep
  <2>2. CASE phase = "value"
    BY <2>1, <2>2 DEF ResultInv, Answered
  <2>3. CASE phase = "backward"
    <3>1. /\ foundSoFar = {v \in seen : isTarget(program, v)}
          /\ start = anchor /\ anchor' = anchor /\ targetsOf(start)' = targetsOf(start)
      BY <2>1, <2>3 DEF foundSoFar, SearchInv, anchor, targetsOf
    <3>2. foundSoFar' = IF running' THEN {v \in seen' : isTarget(program, v)} ELSE targetsOf(start)
      BY <2>1, <3>1 DEF foundSoFar
    <3>3. \A a, t : Leads(types_path', a, t)
                      <=> Leads(types_path, a, t) \/ (a = anchor /\ t \in foundSoFar')
      <4>0. \A t : t \in foundSoFar => Leads(types_path, anchor, t)
        BY <2>3 DEF ResultInv
      <4>1. CASE /\ running' /\ Chain!top \in Paths /\ start_value(Chain!top) = start
                 /\ types_path' = Append(types_path, Chain!top)
                 /\ isTarget(program, value(Chain!top))
                 /\ seen' = seen \cup {value(Chain!top)}
        <5>1. foundSoFar' = foundSoFar \cup {value(Chain!top)}
          BY <3>1, <3>2, <4>1
        <5>2. \A a, t : Leads(types_path', a, t)
                 <=> Leads(types_path, a, t) \/ (a = anchor /\ t = value(Chain!top))
          BY <1>0, <3>1, <4>1, LeadsAppend
        <5> QED BY <4>0, <5>1, <5>2
      <4>2. CASE types_path' = types_path /\ foundSoFar' = foundSoFar
        BY <4>0, <4>2
      <4>3. types_path' = types_path /\ (running' =>
                \/ seen' = seen
                \/ \E v \in Value : seen' = seen \cup {v} /\ ~isTarget(program, v))
              /\ (~running' => {v \in seen : isTarget(program, v)} = targetsOf(start))
                => foundSoFar' = foundSoFar
        BY <3>1, <3>2
      <4> QED BY <1>7, <4>1, <4>2, <4>3, BackwardTargets
    <3>4. \A a, t : Leads(types_path', a, t) <=>
                      \/ \E k \in 1..(next - 1) : Found(k, a, t)
                      \/ a = anchor /\ t \in foundSoFar'
      <4>1. \A t : t \in foundSoFar => t \in foundSoFar'
        BY <1>7, <3>1, <3>2, BackwardTargets
      <4> QED BY <2>3, <3>3, <4>1 DEF ResultInv
    <3> QED BY <2>1, <2>3, <3>1, <3>4, SameDues DEF ResultInv, Answered, Leads
  <2> QED BY <2>1, <2>2, <2>3
<1>8. CASE BackwardEnd
  <2>1. /\ phase = "backward" /\ ~running /\ phase' = "anchors" /\ next' = next + 1
        /\ ditype_paths' = ditype_paths \o types_path
        /\ UNCHANGED <<program, anchors, types_path>>
    BY <1>8 DEF BackwardEnd
  <2>2. foundSoFar = targetsOf(anchor) /\ isBackward(anchor) /\ value(anchors[next]) = anchor
    BY <2>1 DEF foundSoFar, SearchInv, isBacktracked, isBackward, anchor
  <2>3. \A a, t : /\ Found(next, a, t) <=> a = anchor /\ t \in foundSoFar
                  /\ Due(next, a, t) <=> Found(next, a, t)
    BY <2>2 DEF Found, Due
  <2>4. \A a, t : Leads(types_path', a, t) <=> \E k \in 1..(next' - 1) : Found(k, a, t)
    BY <1>0, <2>1, <2>3, OneMore DEF ResultInv
  <2>5. \A a, t : Leads(ditype_paths', a, t) <=> \E k \in 1..(next' - 1) : Due(k, a, t)
    <3>1. \A a, t : Leads(ditype_paths', a, t) <=> Leads(ditype_paths, a, t) \/ Leads(types_path, a, t)
      BY <1>0, <2>1, LeadsConcat
    <3>2. \A k, a, t : Found(k, a, t) => Due(k, a, t)
      BY DEF Due
    <3> QED BY <1>0, <2>1, <2>3, <3>1, <3>2, OneMore DEF ResultInv
  <2> QED BY <2>1, <2>4, <2>5, LoopHead
<1>9. CASE Return
  <2>1. /\ phase = "anchors" /\ phase' = "returned" /\ next > Len(anchors)
        /\ UNCHANGED <<program, anchors, next, types_path, ditype_paths>>
    BY <1>9 DEF Return
  <2>2. next = Len(anchors) + 1
    BY <1>0, <2>1
  <2>3. \A a, t : Leads(ditype_paths, a, t) <=> \E k \in 1..(next - 1) : Due(k, a, t)
    BY <2>1 DEF ResultInv
  <2>4. \A a, t : Leads(ditype_paths, a, t)' <=> \E k \in 1..(next' - 1) : Due(k, a, t)'
    BY <2>1, <2>3, SameDues DEF Leads
  <2> QED BY <2>1, <2>2, <2>4 DEF ResultInv, Answered
<1>10. CASE UNCHANGED vars
  <2>1. UNCHANGED <<program, phase, anchors, next, types_path, ditype_paths, running, seen>>
    BY <1>10 DEF vars, queryVars, chainVars
  <2>2. foundSoFar' = foundSoFar /\ anchor' = anchor
    BY <2>1 DEF foundSoFar, anchor, targetsOf
  <2>3. \A k, a, t : /\ Found(k, a, t)' <=> Found(k, a, t)
                     /\ Due(k, a, t)' <=> Due(k, a, t)
                     /\ Leads(ditype_paths, a, t)' <=> Leads(ditype_paths, a, t)
                     /\ Leads(types_path, a, t)' <=> Leads(types_path, a, t)
    BY <2>1, SameDues DEF Leads
  <2> HIDE DEF Leads, Found, Due
  <2> QED BY <2>1, <2>2, <2>3 DEF ResultInv, Answered
<1> QED BY <1>1, <1>2, <1>3, <1>4, <1>5, <1>6, <1>7, <1>8, <1>9, <1>10 DEF Next, Progress

(****************************************************************************)
(* The two searches for calls of the Fortran run-time.                      *)
(****************************************************************************)

isHelper(v) == program.kind[v] \in {"helper", "bounds"}

isBounds(v) == program.kind[v] = "bounds"

\* While the search along users runs, all it has seen and the value it takes
\* next come from the start, and a value taken again is met by several uses.
LEMMA FlowFacts ==
    ASSUME Typed, TraverserOK, running, succ = usersSearch(program)
    PROVE  /\ seen \subseteq flowsInto(start)
           /\ Chain!HasWork => value(Chain!top) \in flowsInto(start)
           /\ Chain!HasWork /\ value(Chain!top) \in seen => ~usesDescriptorOnce(value(Chain!top))
<1> DEFINE always == [w \in Value |-> "kContinue"]
           v0 == value(Chain!top)
<1>1. \A v \in Value : Range(succ[v]) = Traversal!Abstract!successors(v)
  BY DEF Traversal!Abstract!successors, Range
<1>2. ASSUME NEW C \in SUBSET Value, start \in C,
             \A v \in C : always[v] = "kContinue" => Range(succ[v]) \subseteq C
      PROVE  seen \subseteq C /\ (Chain!HasWork => v0 \in C)
  <2>1. \A v \in C : Range(succ[v]) \subseteq C
    BY <1>2
  <2>2. Traversal!Abstract!Closed(C)
    BY <1>1, <1>2, <2>1 DEF Traversal!Abstract!Closed
  <2>3. seen \subseteq C
    BY <2>2 DEF TraverserOK, Traversal!SeenInv
  <2>4. ASSUME Chain!HasWork PROVE v0 \in C
    <3>1. Traversal!HasWork /\ v0 = Traversal!value(Traversal!top)
      BY <2>4 DEF Chain!HasWork, Chain!top, Traversal!HasWork, Traversal!top, Traversal!value, value
    <3>2. \/ v0 = start
          \/ \E w \in seen : verdict[w] = "kContinue" /\ v0 \in Traversal!successors(w)
      BY <3>1, Traversal!HeadIsReached, SearchesTyped, CallbacksTyped DEF TraverserOK
    <3>3. \A w \in seen : w \in C /\ Traversal!successors(w) = Range(succ[w])
      BY <2>3 DEF Traversal!successors, Range
    <3> QED BY <1>2, <2>1, <3>2, <3>3
  <2> QED BY <2>3, <2>4
<1>3. seen \subseteq Value
  BY DEF TraverserOK, Traversal!TypeOK
<1>4. Chain!HasWork => v0 \in Value
  BY TopFacts DEF TraverserOK
<1>5. seen \subseteq flowsInto(start) /\ (Chain!HasWork => v0 \in flowsInto(start))
  BY <1>2, <1>3, <1>4 DEF flowsInto, ReachedFrom
<1>6. ASSUME Chain!HasWork, v0 \in seen PROVE ~usesDescriptorOnce(v0)
  <2>1. /\ Traversal!HasWork /\ v0 = Traversal!value(Traversal!top)
    BY <1>6 DEF Chain!HasWork, Chain!top, Traversal!HasWork, Traversal!top, Traversal!value, value
  <2>2. /\ Traversal!top = working[Len(working)] /\ Len(working) \in DOMAIN working
    BY <2>1, Traversal!HeadFacts, SearchesTyped, CallbacksTyped DEF TraverserOK
  <2>3. ~Traversal!ReachedOneWay(v0)
    BY <1>4, <1>6, <2>1, <2>2 DEF TraverserOK, Traversal!OnceInv
  <2>4. ASSUME v0 # start PROVE ~usesDescriptorOnce(v0)
    <3>1. PICK w1 \in seen, w2 \in seen : \E i \in DOMAIN succ[w1], j \in DOMAIN succ[w2] :
              succ[w1][i] = v0 /\ succ[w2][j] = v0 /\ ~(w1 = w2 /\ i = j)
      BY <2>3, <2>4 DEF Traversal!ReachedOneWay
    <3>2. /\ w1 \in flowsInto(start) /\ w2 \in flowsInto(start)
          /\ succ[w1] = program.users[w1] /\ succ[w2] = program.users[w2]
      BY <1>3, <1>5 DEF usersSearch
    <3> QED BY <3>1, <3>2 DEF usesDescriptorOnce
  <2> QED BY <2>4 DEF usesDescriptorOnce
<1> QED BY <1>5, <1>6

\* The calls found are those seen; one found twice is used in several ways.
DimensionInv ==
    /\ phase = "shape" /\ running => anchorValues = {v \in seen : isBounds(v)}
    /\ phase = "helper" /\ running => anchors = <<>> /\ \A v \in seen : ~isHelper(v)
    /\ DimensionsComplete
    /\ DimensionsCountedOnce

\* A step of the search for calls that set bounds.
LEMMA ShapeStep ==
    ASSUME Typed, TraverserOK, SearchInv, DimensionInv, ForwardStep, phase = "shape"
    PROVE  DimensionInv'
<1> DEFINE v0 == value(Chain!top)
<1>1. /\ Chain!Step /\ UNCHANGED <<program, phase>>
      /\ Chain!HasWork /\ isBounds(v0) => anchors' = Append(anchors, Chain!top)
      /\ ~(Chain!HasWork /\ isBounds(v0)) => anchors' = anchors
  BY DEF ForwardStep, isRecorded, isBounds
<1>2. /\ running /\ start' = start
      /\ Chain!HasWork => Chain!top \in Paths /\ v0 \in Value
  BY <1>1, TraverserStep
<1>3. succ = usersSearch(program) /\ verdict = shapeMatch(program)
  BY <1>2 DEF SearchInv
<1>4. Chain!HasWork => verdict[v0] # "kCancel"
  BY <1>2, <1>3 DEF shapeMatch
<1>5. \/ Chain!HasWork /\ running' /\ seen' = seen \cup {v0}
      \/ ~Chain!HasWork /\ running' /\ seen' = seen
      \/ ~Chain!HasWork /\ ~running' /\ seen = ReachedFrom(start, succ, verdict)
  BY <1>1, <1>4, TraverserStep
<1>6. /\ anchors \in Seq(Paths) /\ anchorValues = {v \in seen : isBounds(v)}
      /\ DimensionsCountedOnce
  BY <1>2 DEF Typed, TypeOK, DimensionInv
<1>7. /\ anchorValues = ends(anchors) /\ anchorValues' = ends(anchors')
      /\ flowsInto(start)' = flowsInto(start)
      /\ \A v : isBounds(v)' <=> isBounds(v)
      /\ \A v : usesDescriptorOnce(v)' <=> usesDescriptorOnce(v)
  BY <1>1, <1>2 DEF anchorValues, ends, flowsInto, isBounds, usesDescriptorOnce
<1>8. ReachedFrom(start, succ, verdict) = flowsInto(start)
  BY <1>3 DEF flowsInto, shapeMatch
<1>9. CASE Chain!HasWork /\ isBounds(v0)
  <2>1. anchorValues' = anchorValues \cup {v0}
    BY <1>1, <1>2, <1>6, <1>7, <1>9, EndsFacts
  <2>2. anchors' = Append(anchors, Chain!top)
    BY <1>1, <1>9
  <2>3. /\ DOMAIN anchors = 1..Len(anchors) /\ Len(anchors) \in Nat
        /\ DOMAIN anchors' = 1..(Len(anchors) + 1)
        /\ \A k \in 1..Len(anchors) : anchors'[k] = anchors[k]
        /\ anchors'[Len(anchors) + 1] = Chain!top
    BY <1>2, <1>6, <1>9, <2>2, AppendFacts
  <2>4. \A k \in DOMAIN anchors' :
            \/ k \in DOMAIN anchors /\ anchors'[k] = anchors[k]
            \/ k = Len(anchors) + 1 /\ value(anchors'[k]) = v0
    BY <2>3
  <2>5. v0 \in anchorValues => ~usesDescriptorOnce(v0)
    BY <1>2, <1>3, <1>6, <1>9, FlowFacts
  <2>6. \A k \in DOMAIN anchors : value(anchors[k]) \in anchorValues
    BY DEF anchorValues
  <2>7. \A i, j \in DOMAIN anchors : i # j /\ value(anchors[i]) = value(anchors[j])
                                     => ~usesDescriptorOnce(value(anchors[i]))
    BY <1>6 DEF DimensionsCountedOnce
  <2>8. \A i, j \in DOMAIN anchors' : i # j /\ value(anchors'[i]) = value(anchors'[j])
                                      => ~usesDescriptorOnce(value(anchors'[i]))
    BY <2>4, <2>5, <2>6, <2>7
  <2>9. DimensionsCountedOnce'
    BY <1>7, <2>8 DEF DimensionsCountedOnce, value
  <2> QED BY <1>1, <1>5, <1>6, <1>7, <1>9, <2>1, <2>9 DEF DimensionInv, DimensionsComplete
<1>10. CASE ~(Chain!HasWork /\ isBounds(v0))
  <2>1. anchors' = anchors /\ anchorValues' = anchorValues
    BY <1>1, <1>7, <1>10
  <2>2. DimensionsCountedOnce'
    BY <1>1, <1>6, <1>7, <2>1 DEF DimensionsCountedOnce
  <2>3. running' => anchorValues' = {v \in seen' : isBounds(v)}
    BY <1>5, <1>6, <1>10, <2>1
  <2>4. ~running' => anchorValues' = {v \in flowsInto(start) : isBounds(v)}
    BY <1>5, <1>6, <1>8, <2>1
  <2> QED BY <1>1, <1>7, <2>2, <2>3, <2>4 DEF DimensionInv, DimensionsComplete, isBounds
<1> QED BY <1>9, <1>10

\* A step of the search for a helper: it ends at the first.
LEMMA HelperStep ==
    ASSUME Typed, TraverserOK, SearchInv, DimensionInv, ForwardStep, phase = "helper"
    PROVE  DimensionInv'
<1> DEFINE v0 == value(Chain!top)
<1>1. /\ Chain!Step /\ UNCHANGED <<program, phase>>
      /\ Chain!HasWork /\ isHelper(v0) => anchors' = Append(anchors, Chain!top)
      /\ ~(Chain!HasWork /\ isHelper(v0)) => anchors' = anchors
  BY DEF ForwardStep, isRecorded, isHelper
<1>2. /\ running /\ start' = start
      /\ Chain!HasWork => Chain!top \in Paths /\ v0 \in Value
  BY <1>1, TraverserStep
<1>3. succ = usersSearch(program) /\ verdict = helperMatch(program)
  BY <1>2 DEF SearchInv
<1>4. Chain!HasWork => (verdict[v0] = "kCancel" <=> isHelper(v0))
  BY <1>2, <1>3 DEF helperMatch, isHelper
<1>5. /\ anchors = <<>> /\ \A v \in seen : ~isHelper(v)
  BY <1>2 DEF DimensionInv
<1>6. /\ flowsInto(start)' = flowsInto(start)
      /\ \A v : isHelper(v)' <=> isHelper(v)
  BY <1>1, <1>2 DEF flowsInto, isHelper
<1>7. CASE Chain!HasWork /\ isHelper(v0)
  <2>1. anchors' # <<>>
    <3>1. anchors' = Append(anchors, Chain!top) /\ Chain!top \in Paths /\ anchors \in Seq(Paths)
      BY <1>1, <1>2, <1>7 DEF Typed, TypeOK
    <3>2. Len(anchors') = Len(anchors) + 1 /\ Len(anchors) \in Nat
      BY <3>1, AppendFacts
    <3>3. anchors' = <<>> => Len(anchors') = 0
      OBVIOUS
    <3> QED BY <3>2, <3>3
  <2>2. v0 \in flowsInto(start) /\ ~running'
    BY <1>1, <1>2, <1>3, <1>4, <1>7, FlowFacts, TraverserStep
  <2> QED BY <1>1, <1>6, <1>7, <2>1, <2>2 DEF DimensionInv, DimensionsComplete,
             DimensionsCountedOnce, isHelper
<1>8. CASE ~(Chain!HasWork /\ isHelper(v0))
  <2>1. anchors' = <<>>
    BY <1>1, <1>5, <1>8
  <2>2. running' => \A v \in seen' : ~isHelper(v)
    BY <1>1, <1>5, <1>8, TraverserStep
  <2>3. ASSUME ~running' PROVE \A v \in flowsInto(start) : ~isHelper(v)
    <3>1. seen = ReachedFrom(start, succ, verdict)
      BY <1>1, <1>4, <1>8, <2>3, TraverserStep
    <3>2. \A v \in Value : verdict[v] = "kContinue" <=> ~isHelper(v)
      BY <1>3 DEF helperMatch, isHelper
    <3>3. seen \subseteq Value
      BY DEF TraverserOK, Traversal!TypeOK
    <3>4. start \in seen /\ \A v \in seen : Range(succ[v]) \subseteq seen
      <4>1. start \in Value /\ \A v \in Value : Range(succ[v]) \subseteq Value
        BY SearchFacts, <1>3, ElementOfSeq, LenProperties DEF TraverserOK, Traversal!TypeOK, Range, Typed
      <4> QED BY <1>5, <3>1, <3>2, <3>3, <4>1 DEF ReachedFrom
    <3>5. flowsInto(start) \subseteq seen
      BY <1>3, <3>3, <3>4 DEF flowsInto, ReachedFrom
    <3> QED BY <1>5, <3>5
  <2> QED BY <1>1, <1>6, <2>1, <2>2, <2>3 DEF DimensionInv, DimensionsComplete,
             DimensionsCountedOnce, isHelper
<1> QED BY <1>7, <1>8

LEMMA DimensionStep ==
    ASSUME Typed, TraverserOK, SearchInv, DimensionInv, [Next]_vars
    PROVE  DimensionInv'
<1>1. CASE Query
  <2>1. anchors' = <<>> /\ running' /\ seen' = {}
    BY <1>1, QueryFacts DEF TraverserOK, Traversal!LoopInv
  <2> QED BY <2>1 DEF DimensionInv, DimensionsComplete, DimensionsCountedOnce, anchorValues
<1>2. CASE ForwardStep
  <2>1. phase' = phase
    BY <1>2 DEF ForwardStep
  <2>2. CASE phase \notin {"shape", "helper"}
    BY <2>1, <2>2 DEF DimensionInv, DimensionsComplete, DimensionsCountedOnce
  <2> QED BY <1>2, <2>2, ShapeStep, HelperStep
<1>3. CASE ForwardEnd \/ UsersEnd \/ ValueEnd \/ TakeAnchor \/ Backtrack \/ BackwardStep
           \/ BackwardEnd \/ Return
  <2>1. phase' \notin {"shape", "helper"}
    BY <1>3 DEF ForwardEnd, UsersEnd, ValueEnd, TakeAnchor, Backtrack, BackwardStep, BackwardEnd, Return
  <2> QED BY <2>1 DEF DimensionInv, DimensionsComplete, DimensionsCountedOnce
<1>4. CASE UNCHANGED vars
  BY <1>4 DEF vars, queryVars, chainVars, DimensionInv, DimensionsComplete, DimensionsCountedOnce,
     anchorValues, flowsInto, usesDescriptorOnce, isBounds, isHelper
<1> QED BY <1>1, <1>2, <1>3, <1>4 DEF Next, Progress

(****************************************************************************)
(* Theorems.                                                                *)
(****************************************************************************)

LEMMA QueryInvariance ==
    Spec => [](/\ Typed /\ TraverserOK /\ SearchInv
               /\ AnchorInv /\ TargetInv /\ ResultInv /\ DimensionInv)
<1>1. Init => SearchInv /\ AnchorInv /\ TargetInv /\ ResultInv /\ DimensionInv
  BY DEF Init, Chain!Init, SearchInv, AnchorInv, TargetInv, ResultInv, TargetsComplete, Answered,
     DimensionInv, DimensionsComplete, DimensionsCountedOnce
<1>2. Typed /\ TraverserOK /\ SearchInv /\ AnchorInv /\ TargetInv /\ ResultInv /\ DimensionInv
        /\ [Next]_vars
        => SearchInv' /\ AnchorInv' /\ TargetInv' /\ ResultInv' /\ DimensionInv'
  BY SearchStep, AnchorStep, TargetStep, ResultStep, DimensionStep
<1> QED BY <1>1, <1>2, TypedInvariance, TraverserInvariance, PTL DEF Spec

\* Unless a return ended the search, each store, call and memory intrinsic that
\* the allocated pointer can flow into is found, and nothing else.
THEOREM Anchors == Spec => []AnchorsComplete
<1>1. AnchorInv => AnchorsComplete
  BY DEF AnchorInv, AnchorsComplete, foundReturn, reachedAnchors, anchorValues
<1> QED BY <1>1, QueryInvariance, PTL

\* Each variable, argument and call a value can come from is found.
THEOREM Targets == Spec => []TargetsComplete
<1>1. TargetInv => TargetsComplete
  BY DEF TargetInv
<1> QED BY <1>1, QueryInvariance, PTL

\* The shape of a Fortran array has a dimension for each call that sets bounds
\* in its descriptor, and a helper the alloca is passed to is noticed.
THEOREM Dimensions == Spec => []DimensionsComplete
<1>1. DimensionInv => DimensionsComplete
  BY DEF DimensionInv
<1> QED BY <1>1, QueryInvariance, PTL

\* A call that uses the descriptor once is one dimension.
THEOREM CountedOnce == Spec => []DimensionsCountedOnce
<1>1. DimensionInv => DimensionsCountedOnce
  BY DEF DimensionInv
<1> QED BY <1>1, QueryInvariance, PTL

\* What type extraction is given ends in something that has a type.
THEOREM TypeRoots == Spec => []PathsEndInTypeRoots
<1>1. ASSUME Typed, AnchorInv, ResultInv PROVE PathsEndInTypeRoots
  <2> SUFFICES ASSUME phase \in {"anchors", "backward"} \/ Answered,
                      NEW i \in DOMAIN ditype_paths
               PROVE  program.kind[value(ditype_paths[i])]
                        \in {"ret", "alloca", "global", "argument"} \cup CallKind
    BY DEF PathsEndInTypeRoots
  <2> DEFINE a == start_value(ditype_paths[i])
             t == value(ditype_paths[i])
  <2>1. Leads(ditype_paths, a, t)
    BY DEF Leads
  <2>2. PICK k \in 1..(next - 1) : Due(k, a, t)
    BY <1>1, <2>1 DEF ResultInv
  <2>3. k \in DOMAIN anchors
    BY <1>1, LenProperties DEF Typed, TypeOK
  <2>4. isAnchor(program, from, value(anchors[k]))
    BY <1>1, <2>3 DEF AnchorInv, AnchorsFrom
  <2>5. CASE Found(k, a, t)
    BY <2>5 DEF Found, targetsOf, isTarget
  <2>6. CASE ~isBackward(value(anchors[k])) /\ t = value(anchors[k])
    BY <2>4, <2>6 DEF isAnchor, isBackward
  <2> QED BY <2>2, <2>5, <2>6 DEF Due
<1> QED BY <1>1, QueryInvariance, PTL

\* One matcher for all the backward searches of a query gives the result that
\* one matcher for each of them would give.
THEOREM SharedMatcher == Spec => []SharedMatcherAddsNothing
<1>1. ASSUME Typed, ResultInv PROVE SharedMatcherAddsNothing
  <2> SUFFICES ASSUME Answered
               PROVE  {<<start_value(ditype_paths[i]), value(ditype_paths[i])>> : i \in DOMAIN ditype_paths}
                        = UNION {IF isBackward(s) THEN {<<s, t>> : t \in targetsOf(s)}
                                 ELSE {<<from, s>>} : s \in anchorValues}
    BY DEF SharedMatcherAddsNothing, isBackward
  <2> DEFINE result == {<<start_value(ditype_paths[i]), value(ditype_paths[i])>> : i \in DOMAIN ditype_paths}
             dues(s) == IF isBackward(s) THEN {<<s, t>> : t \in targetsOf(s)} ELSE {<<from, s>>}
  <2>1. DOMAIN anchors = 1..(next - 1)
    BY <1>1, LenProperties DEF ResultInv, Typed, TypeOK
  <2>2. \A a, t : <<a, t>> \in result <=> Leads(ditype_paths, a, t)
    BY DEF Leads
  <2>3. \A a, t : Leads(ditype_paths, a, t) <=> \E k \in DOMAIN anchors : Due(k, a, t)
    BY <1>1, <2>1 DEF ResultInv
  <2>4. \A k, a, t : Due(k, a, t) <=> <<a, t>> \in dues(value(anchors[k]))
    BY DEF Due, Found
  <2>5. \A a, t : (\E k \in DOMAIN anchors : Due(k, a, t))
                    <=> \E s \in anchorValues : <<a, t>> \in dues(s)
    BY <2>4 DEF anchorValues
  <2>6. \A r \in result : \E a, t : r = <<a, t>>
    OBVIOUS
  <2>7. \A s : \A r \in dues(s) : \E a, t : r = <<a, t>>
    OBVIOUS
  <2> HIDE DEF result, dues
  <2>8. result = UNION {dues(s) : s \in anchorValues}
    BY <2>2, <2>3, <2>5, <2>6, <2>7
  <2> QED BY <2>8 DEF result, dues
<1> QED BY <1>1, QueryInvariance, PTL

=============================================================================
