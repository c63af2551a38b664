------------------------------ MODULE ValuePath ------------------------------
(****************************************************************************)
(* The path of IR values a dataflow traversal has walked from the value it  *)
(* started at (struct ValuePath, lib/type/ValuePath.h).  A path is the      *)
(* sequence path_to_value; the accessors below are its member functions.    *)
(* The traversals never build an empty path, so the std::optional results   *)
(* of value() and start_value() are the values themselves here.             *)
(****************************************************************************)
EXTENDS Naturals, Sequences

value(p) == p[Len(p)]

\* Defined only on paths of at least two values, as in the code.
previous_value(p) == p[Len(p) - 1]

start_value(p) == p[1]

only_start(p) == Len(p) = 1

contains(p, v) == \E i \in DOMAIN p : p[i] = v

==============================================================================
