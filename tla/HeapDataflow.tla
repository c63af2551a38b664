---------------------------- MODULE HeapDataflow ----------------------------
(****************************************************************************)
(* From a heap allocation to the places that tell its type                  *)
(* (type_for_heap_call and path_from_alloca, lib/type/DataflowAnalysis.cpp).*)
(*                                                                          *)
(* Forward, from the call: the traversal collects anchors, the stores,      *)
(* returns and calls the pointer ends up in.  Backward, from every store    *)
(* and memory intrinsic among them: it collects the paths to the alloca,    *)
(* argument, global or call whose debug type describes the pointer.  One    *)
(* traverser and ONE target matcher serve all the backward traversals; the  *)
(* matcher's list is never cleared, so a later anchor appends the earlier   *)
(* anchors' paths to the result again.  path_from_value searches backward   *)
(* only, and for Fortran two forward searches look for calls of the         *)
(* run-time library.                                                        *)
(*                                                                          *)
(* The traverser is DefUseChain; its search functions and callbacks are     *)
(* built here from a program: the kind of each IR value, its operands and   *)
(* its users (in use-list order, once per use).                             *)
(****************************************************************************)
EXTENDS ValuePath, FiniteSets, Functions

CONSTANTS
    Value,      \* the values of an IR function and its module
    Programs    \* records [kind, operands, users] of functions on Value

\* ret .. sext: instructions; memintrinsic is one that is not a memcpy
\* (memset, memmove); other is any instruction the matchers do not name.
\* A call of the Fortran run-time is a helper, or bounds when it sets bounds.
CallKind == {"call", "helper", "bounds"}

InstructionKind == CallKind \cup {"ret", "store", "gep", "memcpy", "memintrinsic", "intrinsic",
                    "alloca", "load", "bitcast", "phi", "sext", "other"}

\* constgep and constcast are constant expressions.
Kind == InstructionKind \cup {"argument", "global", "constgep", "constcast", "constant"}

\* Of the operands the model looks at those that all such instructions have.
ASSUME ProgramsAssumption ==
    \A p \in Programs :
        /\ p.kind \in [Value -> Kind]
        /\ p.operands \in [Value -> Seq(Value)]
        /\ p.users \in [Value -> Seq(Value)]
        /\ \A v \in Value :
              /\ p.kind[v] = "store" => Len(p.operands[v]) = 2
              /\ p.kind[v] \in {"load", "gep", "bitcast", "sext", "constgep", "constcast", "memcpy"}
                    => p.operands[v] # <<>>

VARIABLES
    program,        \* the IR under analysis
    phase,          \* where the query stands
    anchors,        \* MallocAnchorMatcher::anchors, or the calls found for Fortran
    next,           \* index of the anchor path the loop looks at
    types_path,     \* MallocTargetMatcher::types_path
    ditype_paths,   \* the result
    \* the traverser, value_traversal
    succ, verdict, running, start, working, seen, current, pending

chainVars == <<succ, verdict, running, start, working, seen, current, pending>>

queryVars == <<phase, anchors, next, types_path, ditype_paths>>

vars == <<program, queryVars, chainVars>>

(****************************************************************************)
(* Search functions.                                                        *)
(****************************************************************************)

pointerOperand(p, store) == p.operands[store][2]

isMemIntrinsic(p, v) == p.kind[v] \in {"memcpy", "memintrinsic"}

\* traverse: the users of a value.
usersSearch(p) == [v \in Value |-> p.users[v]]

\* Forward from a call: past a store, the users of the location stored to.
heapSearch(p) ==
    [v \in Value |-> IF p.kind[v] = "store" THEN p.users[pointerOperand(p, v)]
                     ELSE p.users[v]]

\* Backward: from a value to the operand it was computed from.
MallocBacktrackSearch(p) ==
    [v \in Value |->
        CASE p.kind[v] = "store" -> <<pointerOperand(p, v)>>
          [] p.kind[v] \in {"load", "gep", "bitcast", "sext", "constgep", "constcast",
                            "memcpy"} -> <<p.operands[v][1]>>
          [] p.kind[v] = "phi" -> p.operands[v]
          [] OTHER -> <<>>]

(****************************************************************************)
(* Callbacks: what they answer, and whether they record the path.           *)
(****************************************************************************)

storesIntoCopied(p, v) ==
    \E user \in Range(p.users[pointerOperand(p, v)]) : isMemIntrinsic(p, user)

\* Mutant: the search ends at a store as it does at a return.
anchorMatch_CancelsAtStore(p, from) ==
    [v \in Value |->
        CASE p.kind[v] \notin InstructionKind -> "kSkip"
          [] p.kind[v] \in {"memcpy", "memintrinsic", "intrinsic", "gep"} -> "kSkip"
          [] p.kind[v] = "ret" -> "kCancel"
          [] p.kind[v] = "store" ->
                IF pointerOperand(p, v) # from /\ storesIntoCopied(p, v)
                THEN "kContinue" ELSE "kCancel"
          [] OTHER -> "kContinue"]

\* MallocAnchorMatcher, with the start of the paths it is called with.
anchorMatch(p, from) ==
    [v \in Value |->
        CASE p.kind[v] \notin InstructionKind -> "kSkip"
          [] p.kind[v] \in {"memcpy", "memintrinsic", "intrinsic", "gep"} -> "kSkip"
          [] p.kind[v] = "ret" -> "kCancel"
          [] p.kind[v] = "store" ->
                IF pointerOperand(p, v) # from /\ storesIntoCopied(p, v)
                THEN "kContinue" ELSE "kSkip"
          [] OTHER -> "kContinue"]

\* The paths to these values are the anchors.
isAnchor(p, from, v) ==
    \/ isMemIntrinsic(p, v)
    \/ p.kind[v] = "ret"
    \/ p.kind[v] = "store" /\ pointerOperand(p, v) # from /\ ~storesIntoCopied(p, v)
    \/ p.kind[v] \in CallKind /\ v # from

\* Mutant: loads are recorded as well as searched through.
isTarget_Load(p, v) == p.kind[v] \in {"alloca", "argument", "global", "load"} \cup CallKind

isTarget(p, v) == p.kind[v] \in {"alloca", "argument", "global"} \cup CallKind

\* Mutant: the search ends at the first target.
targetMatch_Cancels(p) ==
    [v \in Value |->
        IF isTarget(p, v) THEN "kCancel"
        ELSE IF p.kind[v] \in {"memintrinsic", "intrinsic"} THEN "kSkip" ELSE "kContinue"]

\* MallocTargetMatcher.
targetMatch(p) ==
    [v \in Value |->
        IF isTarget(p, v) \/ p.kind[v] \in {"memintrinsic", "intrinsic"}
        THEN "kSkip" ELSE "kContinue"]

\* passed_to_fortran_helper
helperMatch(p) == [v \in Value |-> IF p.kind[v] \in {"helper", "bounds"} THEN "kCancel" ELSE "kContinue"]

\* Mutant: only the bounds of one dimension are found.
shapeMatch_Cancels(p) == [v \in Value |-> IF p.kind[v] = "bounds" THEN "kCancel" ELSE "kContinue"]

\* shape_from_value
shapeMatch(p) == [v \in Value |-> "kContinue"]

\* What the traverser is called with.
Searches == UNION {{usersSearch(p), heapSearch(p), MallocBacktrackSearch(p)} : p \in Programs}

Callbacks ==
    UNION {{anchorMatch(p, v) : v \in Value} \cup {targetMatch(p), helperMatch(p), shapeMatch(p)} :
              p \in Programs}

Chain == INSTANCE DefUseChain WITH Graphs <- Searches, Matchers <- Callbacks

(****************************************************************************)
(* Actions.                                                                 *)
(****************************************************************************)

Init ==
    /\ program \in Programs
    /\ phase = "returned"
    /\ anchors = <<>>
    /\ next = 1
    /\ types_path = <<>>
    /\ ditype_paths = <<>>
    /\ Chain!Init

\* Mutant: the index survives from the last query.
Enter_KeepsIndex(ph) ==
    /\ phase = "returned"
    /\ phase' = ph
    /\ anchors' = <<>>
    /\ types_path' = <<>>
    /\ ditype_paths' = <<>>
    /\ UNCHANGED <<program, next>>

\* Every query starts from fresh locals, the result of the last one is gone.
Enter(ph) ==
    /\ phase = "returned"
    /\ phase' = ph
    /\ anchors' = <<>>
    /\ next' = 1
    /\ types_path' = <<>>
    /\ ditype_paths' = <<>>
    /\ UNCHANGED program

isOperand(v, kinds) == \E user \in Range(program.users[v]) : program.kind[user] \in kinds

type_for_heap_call(call) ==
    /\ program.kind[call] = "call"
    /\ Enter("forward")
    /\ Chain!Traverse(call, heapSearch(program), anchorMatch(program, call))

\* path_from_alloca and path_from_instruction: the anchors are the result.
path_from_alloca(alloca) ==
    /\ program.kind[alloca] = "alloca"
    /\ Enter("users")
    /\ Chain!Traverse(alloca, usersSearch(program), anchorMatch(program, alloca))

\* Of an argument of a call, or the source of a memcpy.
path_from_value(v) ==
    /\ isOperand(v, CallKind \cup {"memcpy"})
    /\ Enter("value")
    /\ Chain!Traverse(v, MallocBacktrackSearch(program), targetMatch(program))

passed_to_fortran_helper(alloca) ==
    /\ program.kind[alloca] = "alloca"
    /\ Enter("helper")
    /\ Chain!Traverse(alloca, usersSearch(program), helperMatch(program))

\* Of the descriptor, an argument of the allocating call.
shape_from_value(v) ==
    /\ isOperand(v, CallKind)
    /\ Enter("shape")
    /\ Chain!Traverse(v, usersSearch(program), shapeMatch(program))

isRecorded(v) ==
    CASE phase \in {"forward", "users"} -> isAnchor(program, start, v)
      [] phase = "helper" -> program.kind[v] \in {"helper", "bounds"}
      [] phase = "shape" -> program.kind[v] = "bounds"

\* A step of the traverser; a path its callback records goes to the list.
ForwardStep ==
    /\ phase \in {"forward", "users", "helper", "shape"}
    /\ Chain!Step
    /\ anchors' = IF Chain!HasWork /\ isRecorded(value(Chain!top))
                  THEN Append(anchors, Chain!top) ELSE anchors
    /\ UNCHANGED <<program, phase, next, types_path, ditype_paths>>

ForwardEnd ==
    /\ phase = "forward"
    /\ ~running
    /\ phase' = "anchors"
    /\ UNCHANGED <<program, anchors, next, types_path, ditype_paths, chainVars>>

\* An alloca is passed to a helper when a path was found; a shape has one
\* dimension for each.
UsersEnd ==
    /\ phase \in {"users", "helper", "shape"}
    /\ ~running
    /\ phase' = "returned"
    /\ ditype_paths' = anchors
    /\ UNCHANGED <<program, anchors, next, types_path, chainVars>>

ValueEnd ==
    /\ phase = "value"
    /\ ~running
    /\ phase' = "returned"
    /\ ditype_paths' = types_path
    /\ UNCHANGED <<program, anchors, next, types_path, chainVars>>

anchor == value(anchors[next])

\* A store into the allocation itself says nothing about its type.
intoAllocation ==
    program.kind[anchor] = "store" /\ pointerOperand(program, anchor) = start_value(anchors[next])

isBacktracked == program.kind[anchor] = "store" \/ isMemIntrinsic(program, anchor)

\* The anchor is the end of a path to a type (a return, a call's argument),
\* or is passed over.
TakeAnchor ==
    /\ phase = "anchors"
    /\ next <= Len(anchors)
    /\ ~isBacktracked \/ intoAllocation
    /\ ditype_paths' = IF intoAllocation THEN ditype_paths ELSE Append(ditype_paths, anchors[next])
    /\ next' = next + 1
    /\ UNCHANGED <<program, phase, anchors, types_path, chainVars>>

Backtrack ==
    /\ phase = "anchors"
    /\ next <= Len(anchors)
    /\ isBacktracked /\ ~intoAllocation
    /\ phase' = "backward"
    /\ Chain!Traverse(anchor, MallocBacktrackSearch(program), targetMatch(program))
    /\ UNCHANGED <<program, anchors, next, types_path, ditype_paths>>

BackwardStep ==
    /\ phase \in {"backward", "value"}
    /\ Chain!Step
    /\ types_path' = IF Chain!HasWork /\ isTarget(program, value(Chain!top))
                     THEN Append(types_path, Chain!top) ELSE types_path
    /\ UNCHANGED <<program, phase, anchors, next, ditype_paths>>

\* Mutant: the paths found last are put first.
BackwardEnd_Prepends ==
    /\ phase = "backward"
    /\ ~running
    /\ phase' = "anchors"
    /\ ditype_paths' = types_path \o ditype_paths
    /\ next' = next + 1
    /\ UNCHANGED <<program, anchors, types_path, chainVars>>

\* Mutant: a backtrack that found a path ends the loop over the anchors.
BackwardEnd_Stops ==
    /\ phase = "backward"
    /\ ~running
    /\ phase' = "anchors"
    /\ ditype_paths' = ditype_paths \o types_path
    /\ next' = IF types_path = <<>> THEN next + 1 ELSE Len(anchors) + 1
    /\ UNCHANGED <<program, anchors, types_path, chainVars>>

\* All of the matcher's list is appended, the earlier anchors' part again.
BackwardEnd ==
    /\ phase = "backward"
    /\ ~running
    /\ phase' = "anchors"
    /\ ditype_paths' = ditype_paths \o types_path
    /\ next' = next + 1
    /\ UNCHANGED <<program, anchors, types_path, chainVars>>

\* Mutant: the loop never leaves when the last anchor gave no path.
Return_NeedsResult ==
    /\ phase = "anchors"
    /\ next > Len(anchors)
    /\ ditype_paths # <<>>
    /\ phase' = "returned"
    /\ UNCHANGED <<program, anchors, next, types_path, ditype_paths, chainVars>>

Return ==
    /\ phase = "anchors"
    /\ next > Len(anchors)
    /\ phase' = "returned"
    /\ UNCHANGED <<program, anchors, next, types_path, ditype_paths, chainVars>>

Query ==
    \E v \in Value :
        \/ type_for_heap_call(v) \/ path_from_alloca(v) \/ path_from_value(v)
        \/ passed_to_fortran_helper(v) \/ shape_from_value(v)

Progress ==
    \/ ForwardStep \/ ForwardEnd \/ UsersEnd \/ ValueEnd
    \/ TakeAnchor \/ Backtrack \/ BackwardStep \/ BackwardEnd \/ Return

Next == Query \/ Progress

\* The query is sequential code: once called it runs on to its return.
Spec == Init /\ [][Next]_vars /\ WF_vars(Progress)

(****************************************************************************)
(* Properties.                                                              *)
(****************************************************************************)

Paths == Seq(Value) \ {<<>>}

TypeOK ==
    /\ program.kind \in [Value -> Kind]
    /\ program.users \in [Value -> Seq(Value)]
    /\ phase \in {"forward", "users", "helper", "shape", "value", "anchors", "backward", "returned"}
    /\ anchors \in Seq(Paths)
    /\ next \in 1..(Len(anchors) + 1)
    /\ types_path \in Seq(Paths)
    /\ ditype_paths \in Seq(Paths)

\* What an uncancelled traversal looks at: the least set that holds origin and,
\* of each value the search continues at, what the search gives there.
ReachedFrom(origin, search, match) ==
    LET closed == {C \in SUBSET Value :
                      /\ origin \in C
                      /\ \A v \in C : match[v] = "kContinue" => Range(search[v]) \subseteq C}
    IN  {v \in Value : \A C \in closed : v \in C}

\* The result of a query about a heap call is complete and being looked at.
Answered == phase = "returned" /\ next > 1

anchorValues == {value(anchors[i]) : i \in DOMAIN anchors}

from == start_value(anchors[1])

\* A return ends the forward search on the spot.  Otherwise every store,
\* call and memory intrinsic the pointer can flow into is an anchor: the order
\* of the use lists does not decide which ones are found.
AnchorsComplete ==
    phase = "anchors" /\ next = 1 /\ anchors # <<>> =>
        \/ \E i \in DOMAIN anchors : program.kind[value(anchors[i])] = "ret"
        \/ anchorValues =
              {v \in ReachedFrom(from, heapSearch(program), anchorMatch(program, from)) :
                  isAnchor(program, from, v)}

\* Type extraction can make something of the end of every path of the result:
\* it is of one of the kinds find_type_root knows.
PathsEndInTypeRoots ==
    phase \in {"anchors", "backward"} \/ Answered =>
        \A i \in DOMAIN ditype_paths :
            program.kind[value(ditype_paths[i])] \in {"ret", "alloca", "global", "argument"} \cup CallKind

targetsOf(a) ==
    {v \in ReachedFrom(a, MallocBacktrackSearch(program), targetMatch(program)) :
        isTarget(program, v)}

\* path_from_value finds each variable, argument and call that the value can
\* come from, past the first one and around the cycles of phis.
TargetsComplete ==
    phase = "value" /\ ~running =>
        {value(types_path[i]) : i \in DOMAIN types_path} = targetsOf(start)

\* What can be reached from v along users, whatever the callback answers.
flowsInto(v) == ReachedFrom(v, usersSearch(program), [w \in Value |-> "kContinue"])

\* The shape of a Fortran array has a dimension for each call that sets bounds
\* in the descriptor, wherever it is used from; and an alloca that is passed
\* to any helper is known to be.
DimensionsComplete ==
    ~running =>
        /\ phase = "shape" => anchorValues = {v \in flowsInto(start) : program.kind[v] = "bounds"}
        /\ phase = "helper" =>
              (anchors # <<>> <=> \E v \in flowsInto(start) : program.kind[v] \in {"helper", "bounds"})

\* The call uses one value that comes from the descriptor, and uses it once.
usesDescriptorOnce(call) ==
    /\ call # start
    /\ \A v, w \in flowsInto(start) :
          \A i \in DOMAIN program.users[v], j \in DOMAIN program.users[w] :
              program.users[v][i] = call /\ program.users[w][j] = call => v = w /\ i = j

\* A call that sets bounds is one dimension and not two, unless the bounds it
\* sets are computed from the descriptor too.
DimensionsCountedOnce ==
    phase = "shape" =>
        \A i, j \in DOMAIN anchors :
            i # j /\ value(anchors[i]) = value(anchors[j]) => ~usesDescriptorOnce(value(anchors[i]))

\* The matcher shared by the backward traversals costs no target and adds
\* none: the (anchor, target) pairs of the result are those that a matcher of
\* its own for every anchor would give.
SharedMatcherAddsNothing ==
    Answered =>
        {<<start_value(ditype_paths[i]), value(ditype_paths[i])>> : i \in DOMAIN ditype_paths}
          = UNION {IF program.kind[a] = "store" \/ isMemIntrinsic(program, a)
                   THEN {<<a, t>> : t \in targetsOf(a)}
                   ELSE {<<from, a>>} : a \in anchorValues}

\* The position of the anchor a result path belongs to.
anchorOf(p) ==
    CHOOSE i \in DOMAIN anchors :
        /\ value(anchors[i]) = start_value(p) \/ anchors[i] = p
        /\ \A j \in 1..(i - 1) : value(anchors[j]) # start_value(p) /\ anchors[j] # p

\* The type reported is the one of the first path, so the order matters: a
\* path that is not a repetition belongs to an anchor no earlier than those of
\* the paths before it.  The repetitions cannot overtake.
NewPathsInAnchorOrder ==
    Answered =>
        \A i, j \in DOMAIN ditype_paths :
            i < j /\ (\A k \in 1..(j - 1) : ditype_paths[k] # ditype_paths[j])
                => anchorOf(ditype_paths[i]) <= anchorOf(ditype_paths[j])

\* Each query returns, phi cycles or not.
QueryReturns == phase # "returned" ~> phase = "returned"

==============================================================================
