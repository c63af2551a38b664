------------------------------ MODULE DIVisitor ------------------------------
(****************************************************************************)
(* DINodeVisitor (lib/type/DIVisitor.h): the depth first walk over a debug  *)
(* info graph that its subclasses hook their visit functions into.          *)
(*                                                                          *)
(* The graph may be cyclic (a struct with a pointer to itself), so the      *)
(* composites that are being traversed are in visited_dinodes_ and are cut  *)
(* when met again.  The C++ recursion is the sequence todo: what the calls  *)
(* on the stack still have to traverse, and the composites they still have  *)
(* to leave, in order.  A visit function that returns false leaves out the  *)
(* part of the graph below its node.                                        *)
(****************************************************************************)
EXTENDS Naturals, Sequences, FiniteSets

CONSTANTS
    Node,       \* debug info nodes
    NoNode,
    MaxNesting  \* bound: composites open at a time on the C++ call stack

ASSUME NoNodeAssumption == NoNode \notin Node

VARIABLES
    graph,              \* the debug info: tag, base type, elements, root
    todo,               \* the rest of the traversal
    visited_dinodes_    \* the composites being traversed

traverse(n) == [call |-> "traverse", node |-> n]

leave(n) == [call |-> "leave", node |-> n]

Calls == [call : {"traverse", "leave"}, node : Node]

node == Head(todo).node

tag == graph.tag[node]

At(call) == todo # <<>> /\ Head(todo).call = call

\* Where the composites are that are still to be left.
toLeave == {i \in DOMAIN todo : todo[i].call = "leave"}

\* traverseType does nothing for a missing base type.
traverse_base(n) == IF graph.base[n] = NoNode THEN <<>> ELSE <<traverse(graph.base[n])>>

traverse_elements(n) == [i \in DOMAIN graph.elements[n] |-> traverse(graph.elements[n][i])]

Continue(calls) == todo' = calls \o Tail(todo)

\* traverseBasicType and the like, and a visit function that returns false.
Skip == Continue(<<>>) /\ UNCHANGED visited_dinodes_

traverseDerived == Continue(traverse_base(node)) /\ UNCHANGED visited_dinodes_

\* An array: its subranges, then its element type.  Not cut when met again.
traverseArray ==
    /\ Continue(traverse_elements(node) \o traverse_base(node))
    /\ UNCHANGED visited_dinodes_

recurring == node \in visited_dinodes_

\* Mutant: the composite is not remembered while it is traversed.
traverseComposite_Unvisited ==
    /\ ~recurring
    /\ Cardinality(toLeave) < MaxNesting
    /\ Continue(traverse_base(node) \o traverse_elements(node) \o <<leave(node)>>)
    /\ UNCHANGED visited_dinodes_

\* Any other composite: the base type of an enum, then members or enumerators.
traverseComposite ==
    /\ ~recurring
    /\ Cardinality(toLeave) < MaxNesting
    /\ visited_dinodes_' = visited_dinodes_ \cup {node}
    /\ Continue(traverse_base(node) \o traverse_elements(node) \o <<leave(node)>>)

\* Mutant: the composite stays visited when it is left.
leaveComposite_KeepsVisited == Continue(<<>>) /\ UNCHANGED visited_dinodes_

leaveComposite ==
    /\ visited_dinodes_' = visited_dinodes_ \ {node}
    /\ Continue(<<>>)

Start(root) == todo' = <<traverse(root)>> /\ visited_dinodes_' = {}

==============================================================================
