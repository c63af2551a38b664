-------------------------- MODULE DefUseChainProofs --------------------------
(****************************************************************************)
(* Theorems about DefUseChain for every set of values, every set of graphs  *)
(* (finite or not) and every set of matchers, proved with TLAPS.            *)
(****************************************************************************)
EXTENDS DefUseChain, SequenceTheorems, TLAPS

Path == Seq(Value) \ {<<>>}

(****************************************************************************)
(* The stack of paths.                                                      *)
(****************************************************************************)

\* A path of the working set ends in a value.
LEMMA PathFacts ==
    ASSUME NEW p \in Path
    PROVE  /\ Len(p) \in Nat \ {0}
           /\ value(p) \in Value
           /\ start_value(p) \in Value
           /\ DOMAIN p = 1..Len(p)
           /\ \A i \in 1..Len(p) : p[i] \in Value
BY ElementOfSeq, LenProperties, EmptySeq DEF Path, value, start_value

\* The path taken from a non-empty working set, and what it leaves.
LEMMA PopFacts ==
    ASSUME working \in Seq(Path), working # <<>>
    PROVE  /\ top \in Path
           /\ popped \in Seq(Path)
           /\ Len(working) \in Nat \ {0}
           /\ Len(popped) = Len(working) - 1
           /\ DOMAIN popped = 1..Len(popped)
           /\ DOMAIN working = 1..Len(working)
           /\ \A k \in 1..Len(popped) : popped[k] = working[k]
<1>1. Len(working) \in Nat \ {0} /\ DOMAIN working = 1..Len(working)
  BY EmptySeq, LenProperties
<1>2. \A i \in 1..Len(working) : working[i] \in Path
  BY ElementOfSeq
<1>3. /\ popped \in Seq(Path)
      /\ Len(popped) = Len(working) - 1
      /\ \A k \in 1..(Len(working) - 1) : popped[k] = working[k]
  <2>1. \A i \in 1..(Len(working) - 1) : working[i] \in Path
    BY <1>1, <1>2
  <2> HIDE DEF Path
  <2>2. /\ SubSeq(working, 1, Len(working) - 1) \in Seq(Path)
        /\ Len(SubSeq(working, 1, Len(working) - 1)) =
              IF 1 <= Len(working) - 1 THEN (Len(working) - 1) - 1 + 1 ELSE 0
        /\ \A i \in 1..((Len(working) - 1) - 1 + 1) :
              SubSeq(working, 1, Len(working) - 1)[i] = working[1 + i - 1]
    BY <1>1, <2>1, SubSeqProperties, SMT
  <2> QED BY <1>1, <2>2 DEF popped
<1>4. DOMAIN popped = 1..Len(popped)
  BY <1>3, LenProperties
<1> QED BY <1>1, <1>2, <1>3, <1>4 DEF top

\* A path pushed by addToWorkS is on top, unless its value was seen.
LEMMA PushFacts ==
    ASSUME NEW w \in Seq(Path), NEW p \in Path
    PROVE  /\ addToWorkS(w, p) \in Seq(Path)
           /\ value(p) \in seen => addToWorkS(w, p) = w
           /\ Len(w) \in Nat
           /\ DOMAIN w = 1..Len(w)
<1> HIDE DEF Path
<1>1. Append(w, p) \in Seq(Path) /\ DOMAIN w = 1..Len(w) /\ Len(w) \in Nat
  BY AppendProperties, LenProperties
<1> QED BY <1>1 DEF addToWorkS

LEMMA PushOnTop ==
    ASSUME NEW w \in Seq(Path), NEW p \in Path, value(p) \notin seen
    PROVE  /\ Len(addToWorkS(w, p)) = Len(w) + 1
           /\ DOMAIN addToWorkS(w, p) = 1..(Len(w) + 1)
           /\ addToWorkS(w, p)[Len(w) + 1] = p
           /\ \A k \in 1..Len(w) : addToWorkS(w, p)[k] = w[k]
<1> HIDE DEF Path
<1>1. addToWorkS(w, p) = Append(w, p)
  BY DEF addToWorkS
<1>2. /\ Append(w, p) \in Seq(Path)
      /\ Len(Append(w, p)) = Len(w) + 1
      /\ Append(w, p)[Len(w) + 1] = p
      /\ \A k \in 1..Len(w) : Append(w, p)[k] = w[k]
  BY AppendProperties
<1>3. DOMAIN Append(w, p) = 1..(Len(w) + 1)
  BY <1>2, LenProperties
<1> QED BY <1>1, <1>2, <1>3

\* A path extended by a value is a path, of one value more.
LEMMA ExtendFacts ==
    ASSUME NEW p \in Seq(Value), NEW v \in Value
    PROVE  /\ Append(p, v) \in Path
           /\ Len(Append(p, v)) = Len(p) + 1
           /\ Len(p) \in Nat
           /\ value(Append(p, v)) = v
           /\ \A i \in 1..Len(p) : Append(p, v)[i] = p[i]
           /\ Append(p, v)[Len(p) + 1] = v
<1>1. /\ Append(p, v) \in Seq(Value)
      /\ Len(Append(p, v)) = Len(p) + 1
      /\ \A i \in 1..Len(p) : Append(p, v)[i] = p[i]
      /\ Append(p, v)[Len(p) + 1] = v
      /\ Len(p) \in Nat
  BY AppendProperties, LenProperties
<1>2. Append(p, v) # <<>>
  BY <1>1, EmptySeq
<1> QED BY <1>1, <1>2 DEF Path, value

\* The values the search function returns are values.
LEMMA SuccessorFacts ==
    ASSUME TypeOK, NEW v \in Value
    PROVE  /\ succ[v] \in Seq(Value)
           /\ successors(v) \subseteq Value
           /\ succ[v] = <<>> => successors(v) = {}
<1>1. succ[v] \in Seq(Value)
  BY GraphsAssumption, EmptySeq DEF TypeOK, NoSearch
<1> QED BY <1>1, ElementOfSeq, LenProperties, EmptySeq DEF successors

(****************************************************************************)
(* Types.                                                                   *)
(****************************************************************************)

LEMMA TypeStep ==
    ASSUME TypeOK, [Next]_vars
    PROVE  TypeOK'
<1> USE DEF TypeOK
<1>0. working \in Seq(Path)
  BY DEF Path
<1>1. ASSUME NEW v \in Value, NEW search \in Graphs, NEW match \in Matchers,
           Traverse(v, search, match)
    PROVE  TypeOK'
  <2>1. <<v>> \in Path
    BY DEF Path
  <2> QED BY <1>0, <1>1, <2>1, PushFacts DEF Traverse, Path
<1>2. ASSUME HasWork PROVE popped \in Seq(Path) /\ top \in Path /\ value(top) \in Value
  BY <1>0, <1>2, PopFacts, PathFacts DEF HasWork
<1>3. CASE MatchSkip
  BY <1>2, <1>3 DEF MatchSkip, Path
<1>4. ASSUME Leave PROVE TypeOK'
  BY <1>4, EmptySeq DEF Leave
<1>5. CASE MatchCancel
  BY <1>4, <1>5 DEF MatchCancel
<1>6. CASE MatchContinue
  <2>1. HasWork
    BY <1>6 DEF MatchContinue
  <2>2. succ[value(top)] \in Seq(Value)
    BY <1>2, <2>1, SuccessorFacts
  <2> QED BY <1>2, <1>6, <2>1, <2>2 DEF MatchContinue, Path
<1>7. CASE AddToWork
  <2>1. Head(pending) \in Value /\ Tail(pending) \in Seq(Value)
    BY <1>7, HeadTailProperties DEF AddToWork
  <2>2. addToWorkS(working, Append(current, Head(pending))) \in Seq(Path)
    BY <1>0, <2>1, ExtendFacts, PushFacts
  <2> QED BY <1>7, <2>1, <2>2, EmptySeq DEF AddToWork, Path
<1>8. CASE Exhausted
  BY <1>4, <1>8 DEF Exhausted
<1>9. CASE UNCHANGED vars
  BY <1>9 DEF vars
<1> QED BY <1>1, <1>3, <1>5, <1>6, <1>7, <1>8, <1>9 DEF Next, Call, Step

\* Every variable keeps its type: paths of the working set are never empty.
THEOREM TypeCorrect == Spec => []TypeOK
<1>1. Init => TypeOK
  BY EmptySeq DEF Init, TypeOK
<1>2. TypeOK /\ [Next]_vars => TypeOK'
  BY TypeStep
<1> QED BY <1>1, <1>2, PTL DEF Spec

(****************************************************************************)
(* The inductive invariant.                                                 *)
(****************************************************************************)

\* What the loop of addToWork works on belongs to the value matched last, and
\* a traverser that is not running holds nothing.
LoopInv ==
    /\ ~running => working = <<>> /\ seen = {} /\ pending = <<>>
    /\ pending # <<>> =>
          /\ current # <<>>
          /\ value(current) \in seen
          /\ verdict[value(current)] = "kContinue"
          /\ \A i \in DOMAIN pending : pending[i] \in successors(value(current))

\* The paths taken next, as popping and pushing leave them, with the facts on
\* sequences that the proofs below use.
LEMMA HeadFacts ==
    ASSUME TypeOK, HasWork
    PROVE  /\ top \in Path
           /\ value(top) \in Value
           /\ top = working[Len(working)]
           /\ Len(working) \in Nat \ {0}
           /\ Len(popped) = Len(working) - 1
           /\ DOMAIN popped = 1..(Len(working) - 1)
           /\ DOMAIN working = 1..Len(working)
           /\ \A k \in 1..(Len(working) - 1) : popped[k] = working[k]
<1>1. working \in Seq(Path) /\ working # <<>>
  BY DEF TypeOK, HasWork, Path
<1> QED BY <1>1, PopFacts, PathFacts DEF top

LEMMA PendingFacts ==
    ASSUME TypeOK, pending # <<>>
    PROVE  /\ Head(pending) \in Value
           /\ Head(pending) = pending[1]
           /\ Tail(pending) \in Seq(Value)
           /\ 1 \in DOMAIN pending
           /\ Len(pending) \in Nat \ {0}
           /\ DOMAIN pending = 1..Len(pending)
           /\ DOMAIN Tail(pending) = 1..(Len(pending) - 1)
           /\ \A i \in 1..(Len(pending) - 1) : Tail(pending)[i] = pending[i + 1]
<1>1. pending \in Seq(Value)
  BY DEF TypeOK
<1>2. Len(pending) \in Nat \ {0} /\ DOMAIN pending = 1..Len(pending)
  BY <1>1, EmptySeq, LenProperties
<1>3. /\ Head(pending) \in Value
      /\ Tail(pending) \in Seq(Value)
      /\ Len(Tail(pending)) = Len(pending) - 1
      /\ \A i \in 1..Len(Tail(pending)) : Tail(pending)[i] = pending[i + 1]
  BY <1>1, HeadTailProperties
<1>4. DOMAIN Tail(pending) = 1..Len(Tail(pending))
  BY <1>3, LenProperties
<1>5. Head(pending) = pending[1]
  BY <1>1, <1>2
<1> QED BY <1>2, <1>3, <1>4, <1>5

LEMMA LoopInvStep ==
    ASSUME TypeOK, LoopInv, [Next]_vars
    PROVE  LoopInv'
<1>1. ASSUME NEW v \in Value, NEW search \in Graphs, NEW match \in Matchers,
             Traverse(v, search, match)
      PROVE  LoopInv'
  BY <1>1 DEF Traverse, LoopInv
<1>2. CASE MatchSkip
  BY <1>2 DEF MatchSkip, HasWork, LoopInv
<1>3. ASSUME Leave PROVE LoopInv'
  BY <1>3 DEF Leave, LoopInv
<1>4. CASE MatchContinue
  <2>1. HasWork /\ pending' = succ[value(top)] /\ current' = top
    BY <1>4 DEF MatchContinue
  <2>2. top # <<>> /\ value(top) \in Value
    BY <2>1, HeadFacts DEF Path
  <2>3. \A i \in DOMAIN pending' : pending'[i] \in successors(value(top))
    BY <2>1 DEF successors
  <2>5. value(current)' = value(top)
    BY <2>1 DEF value
  <2>6. \A i \in DOMAIN pending' : pending'[i] \in successors(value(current))'
    BY <1>4, <2>1, <2>3, <2>5 DEF MatchContinue, successors
  <2>7. running /\ running' = running /\ seen' = seen \cup {value(top)}
          /\ verdict' = verdict /\ verdict[value(top)] = "kContinue"
    BY <1>4 DEF MatchContinue, HasWork
  <2> QED BY <2>1, <2>2, <2>5, <2>6, <2>7 DEF LoopInv
<1>5. CASE AddToWork
  <2>1. /\ running /\ running' = running /\ pending # <<>>
        /\ pending' = Tail(pending) /\ seen' = seen
        /\ verdict' = verdict /\ succ' = succ
        /\ Tail(pending) # <<>> => current' = current
    BY <1>5 DEF AddToWork
  <2>2. ASSUME pending' # <<>>
        PROVE  /\ current' # <<>>
               /\ value(current)' \in seen'
               /\ verdict'[value(current)'] = "kContinue"
               /\ \A i \in DOMAIN pending' : pending'[i] \in successors(value(current))'
    <3>1. current' = current /\ value(current)' = value(current)
            /\ successors(value(current))' = successors(value(current))
      BY <2>1, <2>2 DEF successors, value
    <3>2. \A i \in DOMAIN pending' : pending'[i] \in successors(value(current))
      BY <2>1, PendingFacts DEF LoopInv
    <3> QED BY <2>1, <3>1, <3>2 DEF LoopInv
  <2> QED BY <2>1, <2>2 DEF LoopInv
<1>6. CASE UNCHANGED vars
  BY <1>6 DEF vars, LoopInv, successors, value
<1> QED BY <1>1, <1>2, <1>3, <1>4, <1>5, <1>6 DEF Next, Call, Step, MatchCancel, Exhausted

\* Popping keeps the search paths: the popped value becomes seen.
LEMMA PathsAreSimpleStep ==
    ASSUME TypeOK, LoopInv, PathsAreSimple, [Next]_vars
    PROVE  PathsAreSimple'
<1>0. /\ working \in Seq(Path)
      /\ \A k \in DOMAIN working : IsSearchPath(working[k])
      /\ pending # <<>> => IsSearchPath(current)
  BY DEF TypeOK, Path, PathsAreSimple
<1>2. ASSUME NEW v \in Value, NEW search \in Graphs, NEW match \in Matchers,
             Traverse(v, search, match)
      PROVE  PathsAreSimple'
  <2>1. /\ ~running /\ seen = {} /\ working = <<>> /\ pending = <<>>
        /\ start' = v /\ seen' = seen /\ pending' = pending
        /\ working' = addToWorkS(working, <<v>>)
    BY <1>2 DEF Traverse, LoopInv
  <2>2. <<v>> \in Path /\ Len(<<v>>) = 1 /\ DOMAIN <<v>> = {1} /\ <<v>>[1] = v
    BY DEF Path
  <2>3. IsSearchPath(<<v>>)'
    BY <2>1, <2>2 DEF IsSearchPath, start_value
  <2>4. DOMAIN working' = 1..1 /\ working'[1] = <<v>>
    <3>1. value(<<v>>) \notin seen /\ Len(working) = 0
      BY <2>1
    <3> HIDE DEF Path
    <3>2. /\ DOMAIN addToWorkS(working, <<v>>) = 1..(0 + 1)
          /\ addToWorkS(working, <<v>>)[0 + 1] = <<v>>
      BY <1>0, <2>2, <3>1, PushOnTop
    <3> QED BY <2>1, <3>2
  <2> QED BY <2>1, <2>3, <2>4 DEF PathsAreSimple
<1>3. ASSUME HasWork, working' = popped, seen' = seen \cup {value(top)},
             UNCHANGED <<succ, verdict, start>>
      PROVE  \A k \in DOMAIN working' : IsSearchPath(working[k])'
  <2> SUFFICES ASSUME NEW k \in DOMAIN working'
               PROVE  IsSearchPath(working[k])'
    OBVIOUS
  <2>1. k \in DOMAIN working /\ working'[k] = working[k]
    BY <1>3, HeadFacts
  <2>2. IsSearchPath(working'[k])
    BY <1>0, <2>1
  <2>3. seen \subseteq seen' /\ UNCHANGED <<succ, verdict, start>>
    BY <1>3
  <2> QED BY <2>2, <2>3 DEF IsSearchPath, successors, start_value
<1>4. CASE MatchSkip
  BY <1>3, <1>4 DEF MatchSkip, PathsAreSimple, HasWork
<1>5. ASSUME Leave PROVE PathsAreSimple'
  BY <1>5 DEF Leave, PathsAreSimple
<1>6. CASE MatchContinue
  <2>1. /\ HasWork /\ current' = top /\ seen \subseteq seen'
        /\ UNCHANGED <<succ, verdict, start>>
    BY <1>6 DEF MatchContinue
  <2>2. IsSearchPath(top)
    BY <1>0, <2>1, HeadFacts
  <2>3. IsSearchPath(current)'
    BY <2>1, <2>2 DEF IsSearchPath, successors, start_value
  <2>4. \A k \in DOMAIN working' : IsSearchPath(working[k])'
    BY <1>3, <1>6 DEF MatchContinue
  <2> QED BY <2>3, <2>4 DEF PathsAreSimple
<1>7. CASE AddToWork
  <2> DEFINE s == Head(pending)
             q == Append(current, s)
  <2>1. /\ running /\ pending # <<>>
        /\ working' = addToWorkS(working, q)
        /\ pending' = Tail(pending)
        /\ pending' # <<>> => current' = current
        /\ seen' = seen
        /\ UNCHANGED <<succ, verdict, start>>
    BY <1>7 DEF AddToWork
  <2>2. /\ s \in Value /\ s \in successors(value(current))
        /\ value(current) \in seen /\ verdict[value(current)] = "kContinue"
        /\ current \in Seq(Value) /\ current # <<>>
        /\ IsSearchPath(current)
    BY <1>0, <2>1, PendingFacts DEF LoopInv, TypeOK
  <2>3. /\ q \in Path /\ Len(q) = Len(current) + 1
        /\ Len(current) \in Nat \ {0}
        /\ value(q) = s /\ q[Len(current) + 1] = s
        /\ \A i \in 1..Len(current) : q[i] = current[i]
        /\ DOMAIN q = 1..(Len(current) + 1)
        /\ DOMAIN current = 1..Len(current)
    BY <2>2, ExtendFacts, PathFacts, EmptySeq, LenProperties
  <2>4. ASSUME s \notin seen PROVE IsSearchPath(q)
    <3>1. \A i \in 1..Len(current) : current[i] \in seen /\ verdict[current[i]] = "kContinue"
      <4>1. current[Len(current)] \in seen /\ verdict[current[Len(current)]] = "kContinue"
        BY <2>2 DEF value
      <4> QED BY <2>2, <2>3, <4>1 DEF IsSearchPath
    <3>2. \A i \in 1..Len(current) : q[i + 1] \in successors(q[i])
      <4> SUFFICES ASSUME NEW i \in 1..Len(current) PROVE q[i + 1] \in successors(q[i])
        OBVIOUS
      <4>1. CASE i = Len(current)
        BY <2>2, <2>3, <4>1 DEF value
      <4>2. CASE i # Len(current)
        <5>0. Len(current) \in Nat \ {0}
          BY <2>3
        <5>1. i \in 1..(Len(current) - 1) /\ i + 1 \in 1..Len(current)
          BY <4>2, <5>0
        <5>2. current[i + 1] \in successors(current[i])
          BY <2>2, <5>1 DEF IsSearchPath
        <5> QED BY <2>3, <5>1, <5>2
      <4> QED BY <4>1, <4>2
    <3>3. \A i, j \in DOMAIN q : q[i] = q[j] => i = j
      <4> SUFFICES ASSUME NEW i \in DOMAIN q, NEW j \in DOMAIN q, q[i] = q[j]
                   PROVE  i = j
        OBVIOUS
      <4>1. CASE i \in 1..Len(current) /\ j \in 1..Len(current)
        <5>1. current[i] = current[j]
          BY <2>3, <4>1
        <5> QED BY <2>2, <2>3, <4>1, <5>1 DEF IsSearchPath
      <4>2. CASE i = Len(current) + 1 /\ j = Len(current) + 1
        BY <4>2
      <4>3. CASE i = Len(current) + 1 /\ j \in 1..Len(current)
        BY <2>3, <2>4, <3>1, <4>3
      <4>4. CASE j = Len(current) + 1 /\ i \in 1..Len(current)
        BY <2>3, <2>4, <3>1, <4>4
      <4> QED BY <2>3, <4>1, <4>2, <4>3, <4>4
    <3>4. start_value(q) = start
      BY <2>2, <2>3 DEF IsSearchPath, start_value
    <3>5. \A i \in 1..(Len(q) - 1) : q[i] \in seen /\ verdict[q[i]] = "kContinue"
      BY <2>3, <3>1
    <3>6. \A i \in 1..(Len(q) - 1) : q[i + 1] \in successors(q[i])
      BY <2>3, <3>2
    <3> HIDE DEF q, s
    <3> QED BY <3>3, <3>4, <3>5, <3>6 DEF IsSearchPath
  <2>5. \A k \in DOMAIN working' : IsSearchPath(working'[k])
    <3> HIDE DEF q, s
    <3>1. CASE s \in seen
      BY <1>0, <2>1, <2>3, <3>1, PushFacts
    <3>2. CASE s \notin seen
      <4>1. /\ DOMAIN working' = 1..(Len(working) + 1)
            /\ working'[Len(working) + 1] = q
            /\ \A k \in 1..Len(working) : working'[k] = working[k]
            /\ DOMAIN working = 1..Len(working) /\ Len(working) \in Nat
        <5>1. value(q) \notin seen
          BY <2>3, <3>2
        <5>2. DOMAIN working = 1..Len(working) /\ Len(working) \in Nat
          BY <1>0, <2>3, PushFacts
        <5> QED BY <1>0, <2>1, <2>3, <5>1, <5>2, PushOnTop
      <4>2. IsSearchPath(q)
        BY <2>4, <3>2
      <4> SUFFICES ASSUME NEW k \in 1..(Len(working) + 1) PROVE IsSearchPath(working'[k])
        BY <4>1
      <4>3. CASE k = Len(working) + 1
        BY <4>1, <4>2, <4>3
      <4>4. CASE k \in 1..Len(working)
        BY <1>0, <4>1, <4>4
      <4> QED BY <4>1, <4>3, <4>4
    <3> QED BY <3>1, <3>2
  <2> HIDE DEF q, s
  <2>6. \A k \in DOMAIN working' : IsSearchPath(working[k])'
    <3> SUFFICES ASSUME NEW k \in DOMAIN working' PROVE IsSearchPath(working[k])'
      OBVIOUS
    <3>1. IsSearchPath(working'[k])
      BY <2>5
    <3> QED BY <2>1, <3>1 DEF IsSearchPath, successors, start_value
  <2>7. pending' # <<>> => IsSearchPath(current)'
    BY <2>1, <2>2 DEF IsSearchPath, successors, start_value
  <2> QED BY <2>6, <2>7 DEF PathsAreSimple
<1>8. CASE UNCHANGED vars
  BY <1>8 DEF vars, PathsAreSimple, IsSearchPath, successors, start_value
<1> QED BY <1>2, <1>4, <1>5, <1>6, <1>7, <1>8 DEF Next, Call, Step, MatchCancel, Exhausted

\* Every path a matcher is called with is a simple path of the def-use graph
\* from the start, over values the search went on from.
THEOREM SimplePaths == Spec => []PathsAreSimple
<1>1. Init => LoopInv /\ PathsAreSimple
  BY DEF Init, LoopInv, PathsAreSimple
<1>2. TypeOK /\ LoopInv /\ PathsAreSimple /\ [Next]_vars => LoopInv' /\ PathsAreSimple'
  BY LoopInvStep, PathsAreSimpleStep
<1> QED BY <1>1, <1>2, TypeCorrect, PTL DEF Spec

(****************************************************************************)
(* Completeness: no value that can be reached is forgotten.                 *)
(****************************************************************************)

PendingSet == {pending[i] : i \in DOMAIN pending}

\* v was matched, or its path is on the working set, or it is to be pushed.
Known(v) ==
    \/ v \in seen
    \/ \E k \in DOMAIN working : value(working[k]) = v
    \/ v \in PendingSet

\* The seen values are those a traversal must reach; all their successors are
\* known, and so is the start.
SeenInv ==
    /\ running => Known(start)
    /\ \A v \in seen : verdict[v] # "kCancel"
    /\ \A v \in seen : verdict[v] = "kContinue" => \A s \in successors(v) : Known(s)
    /\ running => \A C \in SUBSET Value : Abstract!Closed(C) => seen \subseteq C

\* The loop loses no value on its way from the graph to the seen set.
LEMMA KnownStep ==
    ASSUME TypeOK, NEW v \in Value, Known(v),
           MatchSkip \/ MatchContinue \/ AddToWork
    PROVE  Known(v)'
<1>1. ASSUME HasWork, working' = popped, seen' = seen \cup {value(top)}
      PROVE  Known(v)'
  <2>1. pending = <<>>
    BY <1>1 DEF HasWork
  <2>2. PendingSet = {}
    BY <2>1 DEF PendingSet
  <2>3. CASE v \in seen
    BY <1>1, <2>3 DEF Known
  <2>4. ASSUME NEW k \in DOMAIN working, value(working[k]) = v PROVE Known(v)'
    <3>1. CASE k = Len(working)
      BY <1>1, <2>4, <3>1, HeadFacts DEF Known
    <3>2. CASE k # Len(working)
      <4>1. k \in DOMAIN popped /\ popped[k] = working[k]
        BY <1>1, <3>2, HeadFacts
      <4> QED BY <1>1, <2>4, <4>1 DEF Known, value
    <3> QED BY <3>1, <3>2
  <2> QED BY <2>2, <2>3, <2>4 DEF Known
<1>2. CASE AddToWork
  <2> DEFINE q == Append(current, Head(pending))
  <2>1. /\ working \in Seq(Path) /\ current \in Seq(Value) /\ pending # <<>>
        /\ working' = addToWorkS(working, q)
        /\ pending' = Tail(pending)
        /\ seen' = seen
    BY <1>2 DEF AddToWork, TypeOK, Path
  <2>2. q \in Path /\ value(q) = Head(pending)
    BY <2>1, PendingFacts, ExtendFacts
  <2>3. Len(working) \in Nat /\ DOMAIN working = 1..Len(working)
    BY <2>1, <2>2, PushFacts
  <2> HIDE DEF q
  <2>4. CASE v \in seen
    BY <2>1, <2>4 DEF Known
  <2>5. ASSUME NEW k \in DOMAIN working, value(working[k]) = v PROVE Known(v)'
    <3>1. CASE value(q) \in seen
      BY <2>1, <2>2, <2>5, <3>1, PushFacts DEF Known, value
    <3>2. CASE value(q) \notin seen
      <4>1. k \in DOMAIN working' /\ working'[k] = working[k]
        BY <2>1, <2>2, <2>3, <3>2, PushOnTop
      <4> QED BY <2>5, <4>1 DEF Known, value
    <3> QED BY <3>1, <3>2
  <2>6. ASSUME NEW i \in DOMAIN pending, pending[i] = v PROVE Known(v)'
    <3>1. CASE i = 1
      <4>1. value(q) = v
        BY <2>1, <2>2, <2>6, <3>1, PendingFacts
      <4>2. CASE v \in seen
        BY <2>1, <4>2 DEF Known
      <4>3. CASE v \notin seen
        <5>1. Len(working) + 1 \in DOMAIN working' /\ working'[Len(working) + 1] = q
          BY <2>1, <2>2, <2>3, <4>1, <4>3, PushOnTop
        <5> QED BY <4>1, <5>1 DEF Known, value
      <4> QED BY <4>2, <4>3
    <3>2. CASE i # 1
      <4>1. i \in 1..Len(pending) /\ Len(pending) \in Nat \ {0}
        BY <2>1, PendingFacts
      <4>2. i - 1 \in 1..(Len(pending) - 1) /\ (i - 1) + 1 = i
        BY <3>2, <4>1
      <4>3. i - 1 \in DOMAIN pending' /\ pending'[i - 1] = v
        BY <2>1, <2>6, <4>2, PendingFacts
      <4> QED BY <4>3 DEF Known, PendingSet
    <3> QED BY <3>1, <3>2
  <2> QED BY <2>4, <2>5, <2>6 DEF Known, PendingSet
<1> QED BY <1>1, <1>2 DEF MatchSkip, MatchContinue

\* The value of a search path is the start, or a successor of a seen value the
\* search went on from.
LEMMA EndIsReached ==
    ASSUME NEW p \in Path, IsSearchPath(p)
    PROVE  \/ value(p) = start
           \/ \E w \in seen : verdict[w] = "kContinue" /\ value(p) \in successors(w)
<1>1. Len(p) \in Nat \ {0}
  BY PathFacts
<1>2. CASE Len(p) = 1
  BY <1>2 DEF IsSearchPath, start_value, value
<1>3. CASE Len(p) # 1
  <2>1. \A n \in Nat \ {0, 1} : n - 1 \in 1..(n - 1) /\ (n - 1) + 1 = n
    OBVIOUS
  <2>2. Len(p) \in Nat \ {0, 1}
    BY <1>1, <1>3
  <2>3. Len(p) - 1 \in 1..(Len(p) - 1) /\ (Len(p) - 1) + 1 = Len(p)
    BY <2>1, <2>2
  <2> QED BY <2>3 DEF IsSearchPath, value
<1> QED BY <1>2, <1>3

LEMMA HeadIsReached ==
    ASSUME TypeOK, PathsAreSimple, HasWork
    PROVE  \/ value(top) = start
           \/ \E w \in seen : verdict[w] = "kContinue" /\ value(top) \in successors(w)
<1>1. top \in Path /\ IsSearchPath(top)
  BY HeadFacts DEF PathsAreSimple
<1> QED BY <1>1, EndIsReached

LEMMA SeenInvStep ==
    ASSUME TypeOK, LoopInv, PathsAreSimple, SeenInv, [Next]_vars
    PROVE  SeenInv'
<1>1. ASSUME NEW v \in Value, NEW search \in Graphs, NEW match \in Matchers,
             Traverse(v, search, match)
      PROVE  SeenInv'
  <2>1. /\ working = <<>> /\ seen = {} /\ seen' = {} /\ start' = v
        /\ working' = addToWorkS(working, <<v>>)
        /\ <<v>> \in Path /\ value(<<v>>) = v /\ value(<<v>>) \notin seen
        /\ working \in Seq(Path) /\ Len(working) = 0
    BY <1>1 DEF Traverse, LoopInv, Path, value, TypeOK
  <2>2. 1 \in DOMAIN working' /\ working'[1] = <<v>>
    <3> HIDE DEF Path
    <3>1. /\ DOMAIN addToWorkS(working, <<v>>) = 1..(0 + 1)
          /\ addToWorkS(working, <<v>>)[0 + 1] = <<v>>
      BY <2>1, PushOnTop
    <3> QED BY <2>1, <3>1
  <2> QED BY <2>1, <2>2 DEF SeenInv, Known, value
<1>2. ASSUME Leave PROVE SeenInv'
  BY <1>2 DEF Leave, SeenInv
<1>3. CASE UNCHANGED vars
  <2>1. PendingSet' = PendingSet /\ \A v : Known(v) <=> Known(v)'
    BY <1>3 DEF vars, Known, PendingSet, value
  <2> QED BY <1>3, <2>1 DEF vars, SeenInv, successors, Abstract!Closed, Abstract!successors
<1>4. CASE MatchSkip \/ MatchContinue \/ AddToWork
  <2>1. UNCHANGED <<succ, verdict, running, start>> /\ running
    BY <1>4 DEF MatchSkip, MatchContinue, AddToWork, HasWork
  <2>2. \A v \in Value : Known(v) => Known(v)'
    BY <1>4, KnownStep
  <2>3. start \in Value /\ \A v \in Value : successors(v) \subseteq Value
    BY SuccessorFacts DEF TypeOK
  <2>4. (running => Known(start))'
    BY <2>1, <2>2, <2>3 DEF SeenInv, Known, PendingSet
  <2>5. \/ seen' = seen
        \/ HasWork /\ seen' = seen \cup {value(top)} /\ verdict[value(top)] \in {"kSkip", "kContinue"}
    BY <1>4 DEF MatchSkip, MatchContinue, AddToWork
  <2>6. \A v \in seen' : verdict'[v] # "kCancel"
    BY <2>1, <2>5 DEF SeenInv
  <2>7. ASSUME NEW v \in seen', verdict'[v] = "kContinue", NEW s \in successors(v)'
        PROVE  Known(s)'
    <3>1. successors(v)' = successors(v) /\ verdict[v] = "kContinue"
      BY <2>1, <2>7 DEF successors
    <3>2. CASE v \in seen
      <4>1. Known(s) /\ s \in Value
        BY <2>3, <2>7, <3>1, <3>2 DEF SeenInv, TypeOK
      <4> QED BY <2>2, <4>1
    <3>3. CASE v \notin seen
      <4>1. HasWork /\ v = value(top)
        BY <2>5, <2>7, <3>3
      <4>2. MatchContinue
        BY <1>4, <3>1, <4>1 DEF MatchSkip, AddToWork, HasWork
      <4>3. pending' = succ[v]
        BY <4>1, <4>2 DEF MatchContinue
      <4> QED BY <2>7, <3>1, <4>3 DEF Known, PendingSet, successors
    <3> QED BY <3>2, <3>3
  <2>8. ASSUME NEW C \in SUBSET Value, Abstract!Closed(C) PROVE seen' \subseteq C
    <3>1. seen \subseteq C
      BY <2>1, <2>8 DEF SeenInv
    <3>2. CASE seen' = seen
      BY <3>1, <3>2
    <3>3. CASE HasWork /\ seen' = seen \cup {value(top)}
      <4>1. \/ value(top) = start
            \/ \E w \in seen : verdict[w] = "kContinue" /\ value(top) \in successors(w)
        BY <3>3, HeadIsReached
      <4>2. value(top) \in C
        BY <2>8, <3>1, <4>1 DEF Abstract!Closed, Abstract!successors, successors
      <4> QED BY <3>1, <3>3, <4>2
    <3> QED BY <2>5, <3>2, <3>3
  <2>9. \A C \in SUBSET Value : Abstract!Closed(C)' => Abstract!Closed(C)
    BY <2>1 DEF Abstract!Closed, Abstract!successors
  <2>10. (running => \A C \in SUBSET Value : Abstract!Closed(C) => seen \subseteq C)'
    BY <2>8, <2>9
  <2> QED BY <2>4, <2>6, <2>7, <2>10 DEF SeenInv
<1> QED BY <1>1, <1>2, <1>3, <1>4 DEF Next, Call, Step, MatchCancel, Exhausted

\* In every reachable state the parts of the invariant hold together.
LEMMA Invariance == Spec => [](TypeOK /\ LoopInv /\ PathsAreSimple /\ SeenInv)
<1>1. Init => LoopInv /\ SeenInv
  BY DEF Init, LoopInv, SeenInv
<1>2. TypeOK /\ LoopInv /\ PathsAreSimple /\ SeenInv /\ [Next]_vars
        => LoopInv' /\ SeenInv'
  BY LoopInvStep, SeenInvStep
<1> QED BY <1>1, <1>2, TypeCorrect, SimplePaths, PTL DEF Spec

\* When the working set runs empty the whole search has been done: the seen
\* set is closed, and it is in every closed set.
LEMMA ExhaustedIsClosed ==
    ASSUME TypeOK, SeenInv, running, pending = <<>>, working = <<>>
    PROVE  Abstract!Closed(seen) /\ Abstract!Frontier = {} /\ seen = Abstract!Reachable
<1>1. \A v : Known(v) => v \in seen
  BY DEF Known, PendingSet
<1>2. Abstract!Closed(seen)
  BY <1>1 DEF SeenInv, Abstract!Closed, Abstract!successors, successors
<1>3. Abstract!Frontier = {}
  BY <1>2 DEF Abstract!Frontier, Abstract!Closed
<1>4. seen \in SUBSET Value
  BY DEF TypeOK
<1>5. seen = Abstract!Reachable
  BY <1>2, <1>4 DEF SeenInv, Abstract!Reachable
<1> QED BY <1>2, <1>3, <1>5

\* A traversal that is not cancelled has matched exactly the values that can
\* be reached from its start.
THEOREM Completeness == Spec => []ExhaustedMeansComplete
<1>1. TypeOK /\ SeenInv => ExhaustedMeansComplete
  BY ExhaustedIsClosed DEF ExhaustedMeansComplete
<1> QED BY <1>1, Invariance, PTL

(****************************************************************************)
(* The order of the working set.                                            *)
(****************************************************************************)

\* While successors are pending, the path they extend follows the branch that
\* the waiting paths were forked off from.
BranchInv ==
    pending # <<>> =>
        \A j \in DOMAIN working : \A i \in 1..(Len(working[j]) - 1) :
            i <= Len(current) /\ current[i] = working[j][i]

LEMMA StaleStep ==
    ASSUME TypeOK, LoopInv, StaleEntriesAreExhausted, [Next]_vars
    PROVE  StaleEntriesAreExhausted'
<1>1. ASSUME NEW v \in Value, NEW search \in Graphs, NEW match \in Matchers,
             Traverse(v, search, match)
      PROVE  StaleEntriesAreExhausted'
  <2>1. seen' = {}
    BY <1>1 DEF Traverse, LoopInv
  <2> QED BY <2>1 DEF StaleEntriesAreExhausted
<1>2. ASSUME Leave PROVE StaleEntriesAreExhausted'
  BY <1>2 DEF Leave, StaleEntriesAreExhausted
<1>3. CASE UNCHANGED vars
  BY <1>3 DEF vars, StaleEntriesAreExhausted, successors, value
<1>4. CASE MatchSkip \/ MatchContinue
  <2>1. /\ HasWork /\ pending = <<>>
        /\ working' = popped /\ seen' = seen \cup {value(top)}
        /\ UNCHANGED <<succ, verdict>>
    BY <1>4 DEF MatchSkip, MatchContinue, HasWork
  <2>2. SUFFICES ASSUME NEW k \in DOMAIN working',
                        value(working'[k]) \in seen', verdict'[value(working'[k])] = "kContinue",
                        NEW s \in successors(value(working[k]))'
                 PROVE  \/ s \in seen'
                        \/ \E j \in (k + 1)..Len(working') : value(working'[j]) = s
                        \/ pending' # <<>> /\ s \in {pending'[i] : i \in DOMAIN pending'}
    BY DEF StaleEntriesAreExhausted, value
  <2> DEFINE v == value(working[k])
  <2>3. /\ k \in 1..(Len(working) - 1) /\ k \in DOMAIN working /\ working'[k] = working[k]
        /\ Len(working') = Len(working) - 1 /\ Len(working) \in Nat
        /\ \A j \in 1..(Len(working) - 1) : working'[j] = working[j]
        /\ top = working[Len(working)]
    BY <2>1, HeadFacts
  <2>4. /\ value(working'[k]) = v /\ verdict[v] = "kContinue" /\ s \in successors(v)
        /\ v \in seen \cup {value(top)}
    <3>1. value(working[k])' = v
      BY <2>3 DEF value
    <3>2. successors(value(working[k]))' = successors(v)
      BY <2>1, <3>1 DEF successors
    <3> QED BY <2>1, <2>2, <2>3, <3>2
  <2>5. CASE v \in seen
    <3>1. s \in seen \/ \E j \in (k + 1)..Len(working) : value(working[j]) = s
      BY <2>1, <2>3, <2>4, <2>5 DEF StaleEntriesAreExhausted
    <3>2. ASSUME NEW j \in (k + 1)..Len(working), value(working[j]) = s
          PROVE  s \in seen' \/ \E i \in (k + 1)..Len(working') : value(working'[i]) = s
      <4>1. CASE j = Len(working)
        BY <2>1, <2>3, <3>2, <4>1
      <4>2. CASE j # Len(working)
        <5>1. j \in (k + 1)..Len(working') /\ j \in 1..(Len(working) - 1)
          BY <2>3, <4>2
        <5> QED BY <2>3, <3>2, <5>1
      <4> QED BY <4>1, <4>2
    <3> QED BY <2>1, <3>1, <3>2
  <2>6. CASE v \notin seen
    <3>1. v = value(top)
      BY <2>4, <2>6
    <3>2. MatchContinue
      BY <1>4, <2>4, <3>1 DEF MatchSkip
    <3>3. pending' = succ[v]
      BY <3>1, <3>2 DEF MatchContinue
    <3>4. v \in Value
      BY <2>1, <3>1, HeadFacts
    <3>5. pending' # <<>>
      BY <2>4, <3>3, <3>4, SuccessorFacts
    <3> QED BY <2>4, <3>3, <3>5 DEF successors
  <2> QED BY <2>5, <2>6
<1>5. CASE AddToWork
  <2> DEFINE q == Append(current, Head(pending))
  <2>1. /\ working \in Seq(Path) /\ current \in Seq(Value) /\ pending # <<>>
        /\ working' = addToWorkS(working, q)
        /\ pending' = Tail(pending)
        /\ seen' = seen
        /\ UNCHANGED <<succ, verdict>>
    BY <1>5 DEF AddToWork, TypeOK, Path
  <2>2. q \in Path /\ value(q) = Head(pending)
    BY <2>1, PendingFacts, ExtendFacts
  <2>3. Len(working) \in Nat /\ DOMAIN working = 1..Len(working)
    BY <2>1, <2>2, PushFacts
  <2> HIDE DEF q
  <2>4. /\ \A k \in 1..Len(working) : working'[k] = working[k]
        /\ \/ value(q) \in seen /\ working' = working
           \/ /\ value(q) \notin seen /\ DOMAIN working' = 1..(Len(working) + 1)
              /\ Len(working') = Len(working) + 1 /\ working'[Len(working) + 1] = q
    BY <2>1, <2>2, <2>3, PushFacts, PushOnTop
  <2>5. SUFFICES ASSUME NEW k \in DOMAIN working',
                        value(working'[k]) \in seen', verdict'[value(working'[k])] = "kContinue",
                        NEW s \in successors(value(working[k]))'
                 PROVE  \/ s \in seen'
                        \/ \E j \in (k + 1)..Len(working') : value(working'[j]) = s
                        \/ pending' # <<>> /\ s \in {pending'[i] : i \in DOMAIN pending'}
    BY DEF StaleEntriesAreExhausted, value
  <2> DEFINE v == value(working[k])
  <2>6. k \in DOMAIN working /\ k \in 1..Len(working) /\ working'[k] = working[k]
    BY <2>1, <2>3, <2>4, <2>5
  <2>7. v \in seen /\ verdict[v] = "kContinue" /\ s \in successors(v)
    <3>1. value(working[k])' = v
      BY <2>6 DEF value
    <3>2. successors(value(working[k]))' = successors(v)
      BY <2>1, <3>1 DEF successors
    <3> QED BY <2>1, <2>5, <2>6, <3>2
  <2>8. \/ s \in seen
        \/ \E j \in (k + 1)..Len(working) : value(working[j]) = s
        \/ \E i \in DOMAIN pending : pending[i] = s
    BY <2>6, <2>7 DEF StaleEntriesAreExhausted
  <2>9. ASSUME NEW j \in (k + 1)..Len(working), value(working[j]) = s
        PROVE  \E i \in (k + 1)..Len(working') : value(working'[i]) = s
    <3>1. j \in 1..Len(working) /\ j \in (k + 1)..Len(working')
      BY <2>3, <2>4, <2>6
    <3> QED BY <2>4, <2>9, <3>1
  <2>10. ASSUME NEW i \in DOMAIN pending, pending[i] = s
         PROVE  \/ s \in seen'
                \/ \E j \in (k + 1)..Len(working') : value(working'[j]) = s
                \/ pending' # <<>> /\ s \in {pending'[n] : n \in DOMAIN pending'}
    <3>1. CASE i = 1
      <4>1. value(q) = s
        BY <2>1, <2>2, <2>10, <3>1, PendingFacts
      <4>2. CASE s \in seen
        BY <2>1, <4>2
      <4>3. CASE s \notin seen
        <5>1. /\ Len(working') = Len(working) + 1 /\ working'[Len(working) + 1] = q
              /\ Len(working) + 1 \in (k + 1)..Len(working')
          BY <2>3, <2>4, <2>6, <4>1, <4>3
        <5> QED BY <4>1, <5>1
      <4> QED BY <4>2, <4>3
    <3>2. CASE i # 1
      <4>1. i \in 1..Len(pending) /\ Len(pending) \in Nat \ {0}
        BY <2>1, PendingFacts
      <4>2. i - 1 \in 1..(Len(pending) - 1) /\ (i - 1) + 1 = i
        BY <3>2, <4>1
      <4>3. i - 1 \in DOMAIN pending' /\ pending'[i - 1] = s
        BY <2>1, <2>10, <4>2, PendingFacts
      <4>4. pending' # <<>>
        BY <4>3
      <4> QED BY <4>3, <4>4
    <3> QED BY <3>1, <3>2
  <2> QED BY <2>1, <2>8, <2>9, <2>10
<1> QED BY <1>1, <1>2, <1>3, <1>4, <1>5 DEF Next, Call, Step, MatchCancel, Exhausted

\* A path whose value has been searched meanwhile has nothing left to find:
\* the values that follow it were seen, lie above it, or are about to.
THEOREM StaleExhausted == Spec => []StaleEntriesAreExhausted
<1>1. Init => StaleEntriesAreExhausted
  BY DEF Init, StaleEntriesAreExhausted
<1>2. TypeOK /\ LoopInv /\ StaleEntriesAreExhausted /\ [Next]_vars => StaleEntriesAreExhausted'
  BY StaleStep
<1> QED BY <1>1, <1>2, Invariance, PTL DEF Spec

\* While successors are pending they are the rest of those of the value
\* matched last.
RestInv ==
    pending # <<>> =>
        \E n \in Nat : \A i \in DOMAIN pending :
            /\ n + i \in DOMAIN succ[value(current)]
            /\ pending[i] = succ[value(current)][n + i]

\* A value that one use leads to waits once at most, and not once it was seen
\* or while it is to be pushed.
OnceInv ==
    \A v \in Value : ReachedOneWay(v) =>
        /\ \A j, k \in DOMAIN working : value(working[j]) = v /\ value(working[k]) = v => j = k
        /\ \A k \in DOMAIN working : value(working[k]) = v => v \notin seen /\ v \notin PendingSet

LEMMA RestStep ==
    ASSUME TypeOK, LoopInv, RestInv, [Next]_vars
    PROVE  RestInv'
<1>1. CASE MatchContinue
  <2>1. /\ HasWork /\ pending' = succ[value(top)] /\ succ' = succ /\ value(current)' = value(top)
    BY <1>1 DEF MatchContinue, value
  <2>2. succ[value(top)] \in Seq(Value)
    BY <2>1, HeadFacts, SuccessorFacts
  <2>3. \A i \in DOMAIN succ[value(top)] : 0 + i = i
    BY <2>2, LenProperties
  <2>4. 0 \in Nat
    OBVIOUS
  <2> QED BY <2>1, <2>3, <2>4 DEF RestInv
<1>2. CASE AddToWork
  <2>1. /\ pending # <<>> /\ pending' = Tail(pending) /\ succ' = succ
        /\ pending' # <<>> => value(current)' = value(current)
    BY <1>2 DEF AddToWork, value
  <2>2. PICK n \in Nat : \A i \in DOMAIN pending :
            /\ n + i \in DOMAIN succ[value(current)]
            /\ pending[i] = succ[value(current)][n + i]
    BY <2>1 DEF RestInv
  <2>3. \A i \in DOMAIN pending' :
            /\ i + 1 \in DOMAIN pending /\ pending'[i] = pending[i + 1]
            /\ (n + 1) + i = n + (i + 1)
    BY <2>1, PendingFacts
  <2>4. n + 1 \in Nat
    OBVIOUS
  <2>5. \A i \in DOMAIN pending' :
            /\ (n + 1) + i \in DOMAIN succ[value(current)]
            /\ pending'[i] = succ[value(current)][(n + 1) + i]
    BY <2>2, <2>3
  <2> QED BY <2>1, <2>4, <2>5 DEF RestInv
<1>3. CASE UNCHANGED vars
  BY <1>3 DEF vars, RestInv, value
<1>4. ASSUME NEW v \in Value, NEW search \in Graphs, NEW match \in Matchers,
             Traverse(v, search, match)
      PROVE  RestInv'
  BY <1>4 DEF Traverse, RestInv, LoopInv
<1>5. CASE MatchSkip \/ MatchCancel \/ Exhausted
  BY <1>5 DEF MatchSkip, MatchCancel, Exhausted, HasWork, Leave, RestInv
<1> QED BY <1>1, <1>2, <1>3, <1>4, <1>5 DEF Next, Call, Step

\* What is seen only grows, so several ways remain several.
LEMMA OneWayBefore ==
    ASSUME NEW v, ReachedOneWay(v)', seen \subseteq seen', UNCHANGED <<succ, verdict, start>>
    PROVE  ReachedOneWay(v)
BY DEF ReachedOneWay

LEMMA OnceStep ==
    ASSUME TypeOK, LoopInv, PathsAreSimple, StaleEntriesAreExhausted, RestInv, OnceInv, [Next]_vars
    PROVE  OnceInv'
<1>0. working \in Seq(Path) /\ \A k \in DOMAIN working : working[k] \in Path /\ value(working[k]) \in Value
  <2>1. working \in Seq(Path)
    BY DEF TypeOK, Path
  <2>2. \A k \in DOMAIN working : working[k] \in Path
    BY <2>1, ElementOfSeq, LenProperties
  <2> QED BY <2>1, <2>2, PathFacts
<1>1. ASSUME NEW v \in Value, NEW search \in Graphs, NEW match \in Matchers,
             Traverse(v, search, match)
      PROVE  OnceInv'
  <2>1. /\ working = <<>> /\ seen = {} /\ start' = v
        /\ working' = addToWorkS(working, <<v>>)
        /\ <<v>> \in Path /\ value(<<v>>) = v /\ value(<<v>>) \notin seen /\ Len(working) = 0
    BY <1>1 DEF Traverse, LoopInv, Path, value, TypeOK
  <2>2. DOMAIN working' = 1..1 /\ working'[1] = <<v>>
    <3> HIDE DEF Path
    <3>1. /\ DOMAIN addToWorkS(working, <<v>>) = 1..(0 + 1)
          /\ addToWorkS(working, <<v>>)[0 + 1] = <<v>>
      BY <1>0, <2>1, PushOnTop
    <3> QED BY <2>1, <3>1
  <2>3. \A k \in DOMAIN working' : value(working'[k]) = start'
    BY <2>1, <2>2
  <2>4. \A w : value(w)' = value(w')
    BY DEF value
  <2> QED BY <2>3, <2>4 DEF OnceInv, ReachedOneWay, value
<1>2. CASE MatchCancel \/ Exhausted
  BY <1>2 DEF MatchCancel, Exhausted, Leave, OnceInv
<1>3. CASE UNCHANGED vars
  BY <1>3 DEF vars, OnceInv, ReachedOneWay, PendingSet, value
<1>4. CASE MatchSkip \/ MatchContinue
  <2>1. /\ HasWork /\ pending = <<>>
        /\ working' = popped /\ seen' = seen \cup {value(top)}
        /\ UNCHANGED <<succ, verdict, start>>
        /\ \/ pending' = <<>>
           \/ pending' = succ[value(top)] /\ verdict[value(top)] = "kContinue"
    BY <1>4 DEF MatchSkip, MatchContinue, HasWork
  <2> SUFFICES ASSUME NEW v \in Value, ReachedOneWay(v)'
               PROVE  /\ \A j, k \in DOMAIN working' :
                            value(working'[j]) = v /\ value(working'[k]) = v => j = k
                      /\ \A k \in DOMAIN working' :
                            value(working'[k]) = v => v \notin seen' /\ v \notin PendingSet'
    BY DEF OnceInv, value
  <2>2. ReachedOneWay(v)
    BY <2>1, OneWayBefore
  <2>3. /\ \A j, k \in DOMAIN working : value(working[j]) = v /\ value(working[k]) = v => j = k
        /\ \A k \in DOMAIN working : value(working[k]) = v => v \notin seen /\ v \notin PendingSet
    BY <2>2 DEF OnceInv
  <2>4. /\ Len(working) \in Nat \ {0} /\ top = working[Len(working)]
        /\ DOMAIN working = 1..Len(working) /\ DOMAIN working' = 1..(Len(working) - 1)
        /\ \A k \in 1..(Len(working) - 1) : working'[k] = working[k]
    BY <2>1, HeadFacts
  <2>5. \A k \in DOMAIN working' : k \in DOMAIN working /\ k # Len(working) /\ working'[k] = working[k]
    BY <2>4
  <2>6. \A j, k \in DOMAIN working' : value(working'[j]) = v /\ value(working'[k]) = v => j = k
    BY <2>3, <2>5
  <2>7. ASSUME NEW k \in DOMAIN working', value(working'[k]) = v
        PROVE  v \notin seen' /\ v \notin PendingSet'
    <3>1. k \in DOMAIN working /\ value(working[k]) = v /\ v \notin seen
      BY <2>3, <2>5, <2>7
    <3>2. v # value(top)
      BY <2>3, <2>4, <2>5, <2>7, <3>1
    <3>3. ASSUME v \in PendingSet' PROVE FALSE
      <4> DEFINE w == value(top)
      <4>1. w \in Value /\ pending' = succ[w] /\ verdict[w] = "kContinue"
        BY <2>1, <3>3, HeadFacts DEF PendingSet
      <4>2. PICK i \in DOMAIN succ[w] : succ[w][i] = v
        BY <3>3, <4>1 DEF PendingSet
      <4>3. v # start
        BY <2>2 DEF ReachedOneWay
      <4>4. IsSearchPath(working[k])
        BY <3>1 DEF PathsAreSimple
      <4>5. PICK u \in seen : verdict[u] = "kContinue" /\ v \in successors(u)
        BY <1>0, <3>1, <4>3, <4>4, EndIsReached
      <4>6. PICK j \in DOMAIN succ[u] : succ[u][j] = v
        BY <4>5 DEF successors
      <4>7. u = w
        BY <2>1, <4>1, <4>2, <4>5, <4>6 DEF ReachedOneWay
      <4>8. Len(working) \in DOMAIN working /\ w \in seen /\ v \in successors(w)
        BY <2>4, <4>5, <4>7
      <4>9. v \in seen \/ \E j1 \in (Len(working) + 1)..Len(working) : value(working[j1]) = v
        BY <2>1, <2>4, <4>1, <4>8 DEF StaleEntriesAreExhausted
      <4> QED BY <2>4, <3>1, <4>9
    <3> QED BY <2>1, <3>1, <3>2, <3>3
  <2> QED BY <2>6, <2>7
<1>5. CASE AddToWork
  <2> DEFINE q == Append(current, Head(pending))
             h == Head(pending)
  <2>1. /\ current \in Seq(Value) /\ pending # <<>>
        /\ working' = addToWorkS(working, q)
        /\ pending' = Tail(pending)
        /\ seen' = seen
        /\ UNCHANGED <<succ, verdict, start>>
    BY <1>5 DEF AddToWork, TypeOK
  <2>2. q \in Path /\ value(q) = h
    BY <2>1, PendingFacts, ExtendFacts
  <2>3. Len(working) \in Nat /\ DOMAIN working = 1..Len(working)
    BY <1>0, <2>2, PushFacts
  <2> HIDE DEF q
  <2>4. /\ \A k \in 1..Len(working) : working'[k] = working[k]
        /\ \/ working' = working
           \/ /\ h \notin seen /\ DOMAIN working' = 1..(Len(working) + 1)
              /\ working'[Len(working) + 1] = q
    BY <1>0, <2>1, <2>2, <2>3, PushFacts, PushOnTop
  <2>5. \A k \in DOMAIN working' :
            \/ k \in DOMAIN working /\ working'[k] = working[k]
            \/ k = Len(working) + 1 /\ value(working'[k]) = h /\ h \notin seen
    BY <2>2, <2>3, <2>4
  <2>6. \A i \in DOMAIN pending' : i + 1 \in DOMAIN pending /\ pending'[i] = pending[i + 1] /\ i \in Nat \ {0}
    BY <2>1, PendingFacts
  <2>7. PendingSet' \subseteq PendingSet /\ h \in PendingSet
    BY <2>1, <2>6, PendingFacts DEF PendingSet
  <2> SUFFICES ASSUME NEW v \in Value, ReachedOneWay(v)'
               PROVE  /\ \A j, k \in DOMAIN working' :
                            value(working'[j]) = v /\ value(working'[k]) = v => j = k
                      /\ \A k \in DOMAIN working' :
                            value(working'[k]) = v => v \notin seen' /\ v \notin PendingSet'
    BY DEF OnceInv, value
  <2>8. ReachedOneWay(v)
    BY <2>1, OneWayBefore
  <2>9. /\ \A j, k \in DOMAIN working : value(working[j]) = v /\ value(working[k]) = v => j = k
        /\ \A k \in DOMAIN working : value(working[k]) = v => v \notin seen /\ v \notin PendingSet
    BY <2>8 DEF OnceInv
  <2>10. \A j, k \in DOMAIN working' : value(working'[j]) = v /\ value(working'[k]) = v => j = k
    BY <2>5, <2>7, <2>9
  <2>11. ASSUME h = v PROVE v \notin PendingSet'
    <3> DEFINE w == value(current)
    <3>1. PICK n \in Nat : \A i \in DOMAIN pending :
              n + i \in DOMAIN succ[w] /\ pending[i] = succ[w][n + i]
      BY <2>1 DEF RestInv
    <3>2. w \in seen /\ verdict[w] = "kContinue"
      BY <2>1 DEF LoopInv
    <3>3. n + 1 \in DOMAIN succ[w] /\ succ[w][n + 1] = v
      BY <2>1, <2>11, <3>1, PendingFacts
    <3>4. ASSUME NEW i \in DOMAIN pending', pending'[i] = v PROVE FALSE
      <4>1. n + (i + 1) \in DOMAIN succ[w] /\ succ[w][n + (i + 1)] = v /\ i \in Nat \ {0}
        BY <2>6, <3>1, <3>4
      <4>2. n + 1 = n + (i + 1)
        BY <2>8, <3>2, <3>3, <4>1 DEF ReachedOneWay
      <4> QED BY <4>1, <4>2
    <3> QED BY <3>4 DEF PendingSet
  <2>12. \A k \in DOMAIN working' : value(working'[k]) = v => v \notin seen' /\ v \notin PendingSet'
    BY <2>1, <2>5, <2>7, <2>9, <2>11
  <2> QED BY <2>10, <2>12
<1> QED BY <1>1, <1>2, <1>3, <1>4, <1>5 DEF Next, Call, Step

LEMMA OnceInvariance == Spec => [](StaleEntriesAreExhausted /\ RestInv /\ OnceInv)
<1>1. Init => RestInv /\ OnceInv
  BY DEF Init, RestInv, OnceInv
<1>2. TypeOK /\ LoopInv /\ PathsAreSimple /\ StaleEntriesAreExhausted /\ RestInv /\ OnceInv
        /\ [Next]_vars => RestInv' /\ OnceInv'
  BY RestStep, OnceStep
<1> QED BY <1>1, <1>2, Invariance, StaleExhausted, PTL DEF Spec

\* The callback is called again only for values that several uses lead to.
THEOREM RepeatsAreMerges == Spec => []OnlyMergesAreRepeated
<1>1. TypeOK /\ OnceInv => OnlyMergesAreRepeated
  <2> SUFFICES ASSUME TypeOK, OnceInv, NEW k \in DOMAIN working, value(working[k]) \in seen
               PROVE  ~ReachedOneWay(value(working[k]))
    BY DEF OnlyMergesAreRepeated
  <2>1. value(working[k]) \in Value
    BY DEF TypeOK
  <2> QED BY <2>1 DEF OnceInv
<1> QED BY <1>1, OnceInvariance, TypeCorrect, PTL

LEMMA BranchStep ==
    ASSUME TypeOK, LoopInv, WaitingPathsFollowOneBranch, BranchInv, [Next]_vars
    PROVE  WaitingPathsFollowOneBranch' /\ BranchInv'
<1>1. ASSUME NEW v \in Value, NEW search \in Graphs, NEW match \in Matchers,
             Traverse(v, search, match)
      PROVE  WaitingPathsFollowOneBranch' /\ BranchInv'
  <2>1. /\ working = <<>> /\ pending' = <<>> /\ value(<<v>>) \notin seen
        /\ working' = addToWorkS(working, <<v>>)
        /\ <<v>> \in Path /\ working \in Seq(Path) /\ Len(working) = 0
    BY <1>1 DEF Traverse, LoopInv, TypeOK, Path
  <2>2. DOMAIN working' = 1..1
    <3> HIDE DEF Path
    <3>1. DOMAIN addToWorkS(working, <<v>>) = 1..(0 + 1)
      BY <2>1, PushOnTop
    <3> QED BY <2>1, <3>1
  <2>3. ~ \E j, k \in DOMAIN working' : j < k
    BY <2>2
  <2> QED BY <2>1, <2>3 DEF WaitingPathsFollowOneBranch, BranchInv
<1>2. ASSUME Leave PROVE WaitingPathsFollowOneBranch' /\ BranchInv'
  BY <1>2 DEF Leave, WaitingPathsFollowOneBranch, BranchInv
<1>3. CASE UNCHANGED vars
  BY <1>3 DEF vars, WaitingPathsFollowOneBranch, BranchInv
<1>4. CASE MatchSkip \/ MatchContinue
  <2>1. HasWork /\ pending = <<>> /\ working' = popped
    BY <1>4 DEF MatchSkip, MatchContinue, HasWork
  <2>2. /\ DOMAIN working' = 1..(Len(working) - 1) /\ DOMAIN working = 1..Len(working)
        /\ \A k \in 1..(Len(working) - 1) : working'[k] = working[k]
        /\ Len(working) \in Nat \ {0} /\ top = working[Len(working)]
        /\ Len(top) \in Nat
    BY <2>1, HeadFacts, PathFacts
  <2>3. WaitingPathsFollowOneBranch'
    <3> SUFFICES ASSUME NEW j \in DOMAIN working', NEW k \in DOMAIN working', j < k,
                        NEW i \in 1..(Len(working'[j]) - 1)
                 PROVE  i < Len(working'[k]) /\ working'[k][i] = working'[j][i]
      BY DEF WaitingPathsFollowOneBranch
    <3>1. /\ j \in DOMAIN working /\ k \in DOMAIN working
          /\ working'[j] = working[j] /\ working'[k] = working[k]
      BY <2>2
    <3> QED BY <3>1 DEF WaitingPathsFollowOneBranch
  <2>4. BranchInv'
    <3> SUFFICES ASSUME pending' # <<>>, NEW j \in DOMAIN working',
                        NEW i \in 1..(Len(working'[j]) - 1)
                 PROVE  i <= Len(current') /\ current'[i] = working'[j][i]
      BY DEF BranchInv
    <3>1. current' = top
      BY <1>4, <2>1 DEF MatchSkip, MatchContinue
    <3>2. /\ j \in DOMAIN working /\ Len(working) \in DOMAIN working /\ j < Len(working)
          /\ working'[j] = working[j]
      BY <2>2
    <3>3. i < Len(top) /\ top[i] = working[j][i]
      BY <2>2, <3>2 DEF WaitingPathsFollowOneBranch
    <3>4. i \in Nat
      OBVIOUS
    <3> QED BY <2>2, <3>1, <3>2, <3>3, <3>4
  <2> QED BY <2>3, <2>4
<1>5. CASE AddToWork
  <2> DEFINE q == Append(current, Head(pending))
  <2>1. /\ working \in Seq(Path) /\ current \in Seq(Value) /\ pending # <<>>
        /\ working' = addToWorkS(working, q)
        /\ pending' # <<>> => current' = current
    BY <1>5 DEF AddToWork, TypeOK, Path
  <2>2. /\ q \in Path /\ Len(q) = Len(current) + 1 /\ Len(current) \in Nat
        /\ \A i \in 1..Len(current) : q[i] = current[i]
    BY <2>1, PendingFacts, ExtendFacts
  <2>3. Len(working) \in Nat /\ DOMAIN working = 1..Len(working)
    BY <2>1, <2>2, PushFacts
  <2> HIDE DEF q
  <2>4. /\ \A k \in 1..Len(working) : working'[k] = working[k]
        /\ \/ working' = working
           \/ DOMAIN working' = 1..(Len(working) + 1) /\ working'[Len(working) + 1] = q
    BY <2>1, <2>2, <2>3, PushFacts, PushOnTop
  <2>5. ASSUME NEW j \in DOMAIN working, NEW i \in 1..(Len(working[j]) - 1)
        PROVE  i \in 1..Len(current) /\ current[i] = working[j][i]
    BY <2>1, <2>5 DEF BranchInv
  <2>6. ASSUME NEW j \in DOMAIN working', NEW k \in DOMAIN working', j < k,
               NEW i \in 1..(Len(working'[j]) - 1)
        PROVE  i < Len(working'[k]) /\ working'[k][i] = working'[j][i]
    <3>1. j \in DOMAIN working /\ working'[j] = working[j]
      BY <2>3, <2>4, <2>6
    <3>2. CASE k \in DOMAIN working
      BY <2>3, <2>4, <2>6, <3>1, <3>2 DEF WaitingPathsFollowOneBranch
    <3>3. CASE k \notin DOMAIN working
      <4>1. working'[k] = q
        BY <2>3, <2>4, <3>3
      <4>2. i \in 1..Len(current) /\ current[i] = working[j][i]
        BY <2>5, <2>6, <3>1
      <4> QED BY <2>2, <3>1, <4>1, <4>2
    <3> QED BY <3>2, <3>3
  <2>7. ASSUME pending' # <<>>, NEW j \in DOMAIN working', NEW i \in 1..(Len(working'[j]) - 1)
        PROVE  i <= Len(current') /\ current'[i] = working'[j][i]
    <3>1. CASE j \in DOMAIN working
      <4>1. working'[j] = working[j]
        BY <2>3, <2>4, <3>1
      <4> QED BY <2>1, <2>2, <2>5, <2>7, <3>1, <4>1
    <3>2. CASE j \notin DOMAIN working
      <4>1. working'[j] = q
        BY <2>3, <2>4, <3>2
      <4>2. i \in 1..Len(current)
        BY <2>2, <2>7, <4>1
      <4> QED BY <2>1, <2>2, <2>7, <4>1, <4>2
    <3> QED BY <3>1, <3>2
  <2> QED BY <2>6, <2>7 DEF WaitingPathsFollowOneBranch, BranchInv
<1> QED BY <1>1, <1>2, <1>3, <1>4, <1>5 DEF Next, Call, Step, MatchCancel, Exhausted

\* Paths are matched depth first: of two that wait, the upper one was forked
\* off deeper along the same branch.
THEOREM OneBranch == Spec => []WaitingPathsFollowOneBranch
<1>1. Init => WaitingPathsFollowOneBranch /\ BranchInv
  BY DEF Init, WaitingPathsFollowOneBranch, BranchInv
<1>2. TypeOK /\ LoopInv /\ WaitingPathsFollowOneBranch /\ BranchInv /\ [Next]_vars
        => WaitingPathsFollowOneBranch' /\ BranchInv'
  BY BranchStep
<1> QED BY <1>1, <1>2, Invariance, PTL DEF Spec

(****************************************************************************)
(* Refinement.                                                              *)
(****************************************************************************)

LEMMA RefinementStep ==
    ASSUME TypeOK, LoopInv, PathsAreSimple, SeenInv, [Next]_vars
    PROVE  [Abstract!Next]_(Abstract!vars)
<1>1. ASSUME NEW v \in Value, NEW search \in Graphs, NEW match \in Matchers,
             Traverse(v, search, match)
      PROVE  Abstract!Next
  BY <1>1 DEF Traverse, Abstract!Begin, Abstract!Next
<1>2. ASSUME HasWork PROVE value(top) \in seen \/ value(top) \in Abstract!Frontier
  BY <1>2, HeadIsReached DEF Abstract!Frontier, Abstract!successors, successors
<1>3. ASSUME HasWork, seen' = seen \cup {value(top)}, verdict[value(top)] # "kCancel",
             UNCHANGED <<succ, verdict, running, start>>
      PROVE  Abstract!Reach(value(top)) \/ UNCHANGED Abstract!vars
  <2>1. CASE value(top) \in seen
    BY <1>3, <2>1 DEF Abstract!vars
  <2>2. CASE value(top) \in Abstract!Frontier
    BY <1>3, <2>2 DEF Abstract!Reach, HasWork
  <2> QED BY <1>2, <1>3, <2>1, <2>2
<1>4. HasWork => value(top) \in Value
  BY HeadFacts
<1>5. CASE MatchSkip
  BY <1>3, <1>4, <1>5 DEF MatchSkip, Abstract!Next
<1>6. CASE MatchContinue
  BY <1>3, <1>4, <1>6 DEF MatchContinue, Abstract!Next
<1>7. CASE MatchCancel
  <2>1. HasWork /\ verdict[value(top)] = "kCancel" /\ Leave /\ running
    BY <1>7 DEF MatchCancel, HasWork
  <2>2. value(top) \in Abstract!Frontier
    BY <1>2, <2>1 DEF SeenInv
  <2>3. Abstract!Cancel(value(top))
    BY <2>1, <2>2 DEF Abstract!Cancel, Abstract!End, Leave, NoSearch, NoMatch,
       Abstract!NoSearch, Abstract!NoMatch
  <2> QED BY <1>4, <2>1, <2>3 DEF Abstract!Next
<1>8. CASE AddToWork
  BY <1>8 DEF AddToWork, Abstract!vars
<1>9. CASE Exhausted
  BY <1>9, ExhaustedIsClosed DEF Exhausted, Leave, NoSearch, NoMatch, Abstract!Complete,
        Abstract!End, Abstract!NoSearch, Abstract!NoMatch, Abstract!Next
<1>10. CASE UNCHANGED vars
  BY <1>10 DEF vars, Abstract!vars
<1> QED BY <1>1, <1>5, <1>6, <1>7, <1>8, <1>9, <1>10 DEF Next, Call, Step, Abstract!Next

\* The worklist traversal is a reachability search.
THEOREM Refinement == Spec => ImplementsReachability
<1>1. Init => Abstract!Init
  BY DEF Init, NoSearch, NoMatch, Abstract!Init, Abstract!NoSearch, Abstract!NoMatch
<1>2. TypeOK /\ LoopInv /\ PathsAreSimple /\ SeenInv /\ [Next]_vars
        => [Abstract!Next]_(Abstract!vars)
  BY RefinementStep
<1> QED BY <1>1, <1>2, Invariance, PTL DEF Spec, ImplementsReachability, Abstract!Spec

==============================================================================
