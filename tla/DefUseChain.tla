----------------------------- MODULE DefUseChain -----------------------------
(****************************************************************************)
(* The worklist traversal every dataflow question is answered with (class   *)
(* DefUseChain, lib/type/DefUseAnalysis.h): from a start value it walks     *)
(* the IR in the direction a search function gives and calls the match      *)
(* callback on the path of every value it takes from the working set.       *)
(*                                                                          *)
(* The code is a sequential loop; a step here is the call, one iteration's  *)
(* pop and match, one iteration of the inner loop that pushes successors,   *)
(* or the end of the loop.  A value is marked as seen when it is popped,    *)
(* not when it is pushed, so the working set may hold it several times and  *)
(* the callback may be called for it several times.                         *)
(*                                                                          *)
(* succ and verdict stand for the search function and for the callback.     *)
(* The callbacks of the library answer by the value at the end of the path  *)
(* and by whether it is the start, so a verdict per value is what they are. *)
(* should_search is constantly true at every call site.                     *)
(****************************************************************************)
EXTENDS ValuePath

CONSTANTS
    Value,      \* the IR values (llvm::Value*)
    Graphs,     \* successor functions: value -> sequence of values, with repeats
    Matchers    \* match callbacks: value -> MatchResult

MatchResult == {"kContinue", "kCancel", "kSkip"}

ASSUME GraphsAssumption == Graphs \subseteq [Value -> Seq(Value)]

ASSUME MatchersAssumption == Matchers \subseteq [Value -> MatchResult]

VARIABLES
    succ,       \* the search function this traversal was called with
    verdict,    \* the match callback this traversal was called with
    running,    \* control is inside do_traverse
    start,      \* the value the latest traversal started at
    working,    \* working_set_, a stack of paths, the top at the end
    seen,       \* seen_set_
    current,    \* path whose successors addToWork is pushing
    pending     \* the successors it has still to look at

vars == <<succ, verdict, running, start, working, seen, current, pending>>

(****************************************************************************)
(* The working set.                                                         *)
(****************************************************************************)

\* Mutant: the paths are pushed whether their value was seen or not.
addToWorkS_Unchecked(w, p) == Append(w, p)

\* Mutant: pushed at the other end of the working set.
addToWorkS_Queue(w, p) == IF value(p) \in seen THEN w ELSE <<p>> \o w

addToWorkS(w, p) == IF value(p) \in seen THEN w ELSE Append(w, p)

top == working[Len(working)]

\* Mutant: the path is read but stays on the working set.
popped_Kept == working

popped == SubSeq(working, 1, Len(working) - 1)

\* Control is at the head of the loop of do_traverse with a path to take.
HasWork == running /\ pending = <<>> /\ working # <<>>

(****************************************************************************)
(* Actions.                                                                 *)
(****************************************************************************)

\* Between two calls there is no search function and no callback.
NoSearch == [v \in Value |-> <<>>]

NoMatch == [v \in Value |-> "kSkip"]

Init ==
    /\ succ = NoSearch
    /\ verdict = NoMatch
    /\ running = FALSE
    /\ start \in Value
    /\ working = <<>>
    /\ seen = {}
    /\ current = <<>>
    /\ pending = <<>>

\* Mutant: the scope exit forgets the seen set.
Leave_KeepsSeen ==
    /\ running' = FALSE
    /\ working' = <<>>
    /\ current' = <<>>
    /\ pending' = <<>>
    /\ succ' = NoSearch
    /\ verdict' = NoMatch
    /\ UNCHANGED <<start, seen>>

\* Every way out of do_traverse runs the scope exit, which clears both sets.
Leave ==
    /\ running' = FALSE
    /\ working' = <<>>
    /\ seen' = {}
    /\ current' = <<>>
    /\ pending' = <<>>
    /\ succ' = NoSearch
    /\ verdict' = NoMatch
    /\ UNCHANGED start

\* Mutant: an empty path is pushed for a traversal.
Traverse_EmptyPath(v, search, match) ==
    /\ ~running
    /\ running' = TRUE
    /\ start' = v
    /\ succ' = search
    /\ verdict' = match
    /\ working' = Append(working, <<>>)
    /\ UNCHANGED <<seen, current, pending>>

\* traverse, traverse_custom: the start value is pushed like any other.
Traverse(v, search, match) ==
    /\ ~running
    /\ running' = TRUE
    /\ start' = v
    /\ succ' = search
    /\ verdict' = match
    /\ working' = addToWorkS(working, <<v>>)
    /\ UNCHANGED <<seen, current, pending>>

\* The callback answers kSkip: nothing is pushed.
MatchSkip ==
    /\ HasWork
    /\ verdict[value(top)] = "kSkip"
    /\ working' = popped
    /\ seen' = seen \cup {value(top)}
    /\ UNCHANGED <<succ, verdict, running, start, current, pending>>

\* The callback answers kCancel: the traversal returns at once.
MatchCancel ==
    /\ HasWork
    /\ verdict[value(top)] = "kCancel"
    /\ Leave

\* Mutant: the search goes on from the successors but the first.
MatchContinue_SkipsFirst ==
    /\ HasWork
    /\ verdict[value(top)] = "kContinue"
    /\ working' = popped
    /\ seen' = seen \cup {value(top)}
    /\ current' = top
    /\ pending' = IF succ[value(top)] = <<>> THEN <<>> ELSE Tail(succ[value(top)])
    /\ UNCHANGED <<succ, verdict, running, start>>

\* The callback answers kContinue: the search function's values come next.
MatchContinue ==
    /\ HasWork
    /\ verdict[value(top)] = "kContinue"
    /\ working' = popped
    /\ seen' = seen \cup {value(top)}
    /\ current' = top
    /\ pending' = succ[value(top)]
    /\ UNCHANGED <<succ, verdict, running, start>>

\* One iteration of the loop of addToWork.
AddToWork ==
    /\ running
    /\ pending # <<>>
    /\ working' = addToWorkS(working, Append(current, Head(pending)))
    /\ pending' = Tail(pending)
    /\ current' = IF Tail(pending) = <<>> THEN <<>> ELSE current
    /\ UNCHANGED <<succ, verdict, running, start, seen>>

\* The working set is empty.
Exhausted ==
    /\ running
    /\ pending = <<>>
    /\ working = <<>>
    /\ Leave

Step == MatchSkip \/ MatchCancel \/ MatchContinue \/ AddToWork \/ Exhausted

\* The guard of Traverse, lifted: no argument is looked at while one runs.
Call ==
    /\ ~running
    /\ \E v \in Value, search \in Graphs, match \in Matchers : Traverse(v, search, match)

Next == Call \/ Step

Spec == Init /\ [][Next]_vars

\* do_traverse is a loop of a sequential program: while it runs, it is run on.
FairSpec == Spec /\ WF_vars(Step)

(****************************************************************************)
(* What is true of a traversal.                                             *)
(****************************************************************************)

TypeOK ==
    /\ succ \in Graphs \/ succ = NoSearch
    /\ verdict \in Matchers \/ verdict = NoMatch
    /\ running \in BOOLEAN
    /\ start \in Value
    /\ working \in Seq(Seq(Value) \ {<<>>})
    /\ seen \subseteq Value
    /\ current \in Seq(Value)
    /\ pending \in Seq(Value)

successors(v) == {succ[v][i] : i \in DOMAIN succ[v]}

\* p leads from the start along successors of values the matcher let the
\* search continue from, through values already seen, and visits none twice.
IsSearchPath(p) ==
    /\ start_value(p) = start
    /\ \A i \in 1..(Len(p) - 1) :
          /\ p[i] \in seen
          /\ verdict[p[i]] = "kContinue"
          /\ p[i + 1] \in successors(p[i])
    /\ \A i, j \in DOMAIN p : p[i] = p[j] => i = j

\* Every path handed to a matcher is a simple path of the def-use graph from
\* the start: type extraction replays these paths instruction by instruction
\* and a repeated or disconnected value would reset the type twice.
PathsAreSimple ==
    /\ \A k \in DOMAIN working : IsSearchPath(working[k])
    /\ pending # <<>> => IsSearchPath(current)

\* The value of a path below the top that has been seen meanwhile has only
\* successors that were seen or that lie above it: so when it is popped again
\* nothing is searched a second time.
StaleEntriesAreExhausted ==
    \A k \in DOMAIN working :
        LET v == value(working[k]) IN
        v \in seen /\ verdict[v] = "kContinue" =>
            \A s \in successors(v) :
                \/ s \in seen
                \/ \E j \in (k + 1)..Len(working) : value(working[j]) = s
                \/ pending # <<>> /\ s \in {pending[i] : i \in DOMAIN pending}

\* The search has come to v along one use of one value.
ReachedOneWay(v) ==
    LET expanded == {w \in seen : verdict[w] = "kContinue"} IN
    /\ v # start
    /\ \A w1, w2 \in expanded : \A i \in DOMAIN succ[w1], j \in DOMAIN succ[w2] :
          succ[w1][i] = v /\ succ[w2][j] = v => w1 = w2 /\ i = j

\* The callback is called again only for a value that several uses lead to:
\* one that counts its calls counts every other value once, although a path
\* is marked as seen when it is taken and not when it is pushed.
OnlyMergesAreRepeated ==
    \A k \in DOMAIN working :
        value(working[k]) \in seen => ~ReachedOneWay(value(working[k]))

\* The paths are matched depth first: those that wait are siblings along the
\* branch being walked, so of two the upper one was forked off deeper.
WaitingPathsFollowOneBranch ==
    \A j, k \in DOMAIN working : j < k =>
        \A i \in 1..(Len(working[j]) - 1) :
            i < Len(working[k]) /\ working[k][i] = working[j][i]

\* A start whose traversal is not cancelled is matched together with all the
\* values that can be reached from it, and with nothing else.
Abstract == INSTANCE Reachability WITH reached <- seen

ExhaustedMeansComplete ==
    running /\ pending = <<>> /\ working = <<>> => seen = Abstract!Reachable

\* Every traversal ends, on any graph: phi nodes make the graph cyclic.
TraversalEnds == running ~> ~running

\* Every traversal is one that the abstract specification allows.
ImplementsReachability == Abstract!Spec

==============================================================================
