---------------------------- MODULE MCDefUseChain ----------------------------
(****************************************************************************)
(* Instances of DefUseChain for TLC: every graph over three values with at  *)
(* most two successors each (a repeated successor included: users() lists a *)
(* user once per use), and every matcher; and, for termination, four graphs *)
(* with the shapes that matter (cycle, diamond, repeated use, self loop).   *)
(****************************************************************************)
EXTENDS DefUseChain, TLC

CONSTANTS a, b, c

MCValue == {a, b, c}

SeqUpTo2 == {<<>>} \cup {<<x>> : x \in MCValue} \cup {<<x, y>> : x, y \in MCValue}

AllGraphs == [MCValue -> SeqUpTo2]

Permuted == Permutations(MCValue)

AllMatchers == [MCValue -> MatchResult]

Shape(x, y, z) == (a :> x @@ b :> y @@ c :> z)

ShapedGraphs == {
    Shape(<<b, c>>, <<a>>, <<b>>),
    Shape(<<b, b>>, <<c>>, <<>>),
    Shape(<<b, c>>, <<c, b>>, <<a, a>>),
    Shape(<<a>>, <<c, a>>, <<b, b>>)}

==============================================================================
