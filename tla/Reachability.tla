---------------------------- MODULE Reachability ----------------------------
(****************************************************************************)
(* What one dataflow traversal promises, whatever order it walks in: from a *)
(* start value it reaches, one at a time, values that are a successor of a  *)
(* value it has reached and not stopped at; it ends either because a value  *)
(* it reaches cancels it, or when nothing reachable is left.  A traverser   *)
(* can be used again, from another start, and nothing of an earlier         *)
(* traversal is left then.  DefUseChain is shown to implement this module.  *)
(****************************************************************************)
EXTENDS Naturals, Sequences

CONSTANTS
    Value,      \* the IR values
    Graphs,     \* the successor functions: one per IR function and direction
    Matchers    \* the match callbacks, as a verdict for every value

MatchResult == {"kContinue", "kCancel", "kSkip"}

VARIABLES
    succ,       \* succ[v] : the values this traversal's search function returns
    verdict,    \* verdict[v] : what this traversal's match callback answers
    running,    \* is a traversal under way?
    start,      \* the value the (last) traversal started at
    reached     \* the values this traversal has reached

vars == <<succ, verdict, running, start, reached>>

successors(v) == {succ[v][i] : i \in DOMAIN succ[v]}

\* C holds the start and the successors of each of its members that the
\* matcher lets the search continue from.
Closed(C) ==
    /\ start \in C
    /\ \A v \in C : verdict[v] = "kContinue" => successors(v) \subseteq C

\* The values a traversal that is not cancelled must reach: in every closed set.
Reachable == {v \in Value : \A C \in SUBSET Value : Closed(C) => v \in C}

Frontier ==
    ({start} \cup UNION {successors(v) : v \in {w \in reached : verdict[w] = "kContinue"}})
        \ reached

NoSearch == [v \in Value |-> <<>>]

NoMatch == [v \in Value |-> "kSkip"]

TypeOK ==
    /\ succ \in Graphs \/ succ = NoSearch
    /\ verdict \in Matchers \/ verdict = NoMatch
    /\ running \in BOOLEAN
    /\ start \in Value
    /\ reached \subseteq Value

Init ==
    /\ succ = NoSearch
    /\ verdict = NoMatch
    /\ running = FALSE
    /\ start \in Value
    /\ reached = {}

Begin(v, search, match) ==
    /\ ~running
    /\ running' = TRUE
    /\ start' = v
    /\ succ' = search
    /\ verdict' = match
    /\ UNCHANGED reached

\* The search and the match function live as long as the call they are
\* arguments of, and what was reached as well.
End ==
    /\ running' = FALSE
    /\ reached' = {}
    /\ succ' = NoSearch
    /\ verdict' = NoMatch
    /\ UNCHANGED start

Reach(v) ==
    /\ running
    /\ v \in Frontier
    /\ verdict[v] # "kCancel"
    /\ reached' = reached \cup {v}
    /\ UNCHANGED <<succ, verdict, running, start>>

Cancel(v) ==
    /\ running
    /\ v \in Frontier
    /\ verdict[v] = "kCancel"
    /\ End

Complete ==
    /\ running
    /\ Frontier = {}
    /\ End

Next ==
    \/ ~running /\ \E v \in Value, search \in Graphs, match \in Matchers : Begin(v, search, match)
    \/ \E v \in Value : Reach(v) \/ Cancel(v)
    \/ Complete

Spec == Init /\ [][Next]_vars

==============================================================================
