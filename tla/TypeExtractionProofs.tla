------------------------- MODULE TypeExtractionProofs -------------------------
(****************************************************************************)
(* Proofs about find_type and the getelementptr of its paths: every value   *)
(* is mapped to a type (ExtractionTypes), to one, in its order              *)
(* (PathsInStep), and GEP reads no element past the last (ElementsFound).   *)
(*                                                                          *)
(* The walks down derived types are recursive functions.  They exist for    *)
(* every debug info graph, cyclic ones included (FollowingExists), and end  *)
(* where derived types do (EveryTypeEnds).  The invariant is TypeInv: the   *)
(* types at hand are nodes, what is awaited is the result for a value of    *)
(* the path, and GEP is inside a composite whenever it counts members.  An  *)
(* index in bounds follows by counting: fields and empty base classes are   *)
(* different elements of a composite.                                       *)
(****************************************************************************)
EXTENDS TypeExtraction, FiniteSetTheorems, SequenceTheorems, WellFoundedInduction, TLAPS

(****************************************************************************)
(* Recursive functions that follow a step until they are to stop.  Such a   *)
(* function exists whether every way ends or not: where a way from x ends   *)
(* lies in all sets that hold x and are closed under the step.              *)
(****************************************************************************)

StepsWithin(D, Stop, step) == \A x \in D : x \notin Stop => step[x] \in D

Falls(D, Stop, step, rank) == \A x \in D : x \notin Stop => rank[step[x]] < rank[x]

Follows(f, D, Stop, step, out) == \A x \in D : f[x] = IF x \in Stop THEN out[x] ELSE f[step[x]]

EndsAt(f, D, Stop, out) == \A x \in D : \E y \in D : y \in Stop /\ f[x] = out[y]

LEMMA FollowingExists ==
    ASSUME NEW D, NEW Stop, NEW step, NEW out, StepsWithin(D, Stop, step)
    PROVE  \E V : \E f \in [D -> V] : Follows(f, D, Stop, step, out)
<1> USE DEF StepsWithin, Follows
<1> DEFINE Closed(C, x) == x \in C /\ \A z \in C : z \notin Stop => step[z] \in C
           Ends(x) == {y \in D : y \in Stop /\ \A C \in SUBSET D : Closed(C, x) => y \in C}
           f == [x \in D |-> out[CHOOSE y : y \in Ends(x)]]
<1>1. ASSUME NEW x \in D, x \in Stop
      PROVE  Ends(x) = {x}
  <2>1. Closed({x}, x) /\ {x} \in SUBSET D
    BY <1>1
  <2> QED BY <1>1, <2>1
<1>2. ASSUME NEW x \in D, x \notin Stop
      PROVE  Ends(x) = Ends(step[x])
  <2>1. ASSUME NEW C \in SUBSET D, Closed(C, x)
        PROVE  Closed(C, step[x])
    BY <1>2, <2>1
  <2>2. ASSUME NEW C \in SUBSET D, Closed(C, step[x])
        PROVE  Closed(C \cup {x}, x) /\ C \cup {x} \in SUBSET D
    BY <1>2, <2>2
  <2>3. ASSUME NEW y \in Ends(step[x])
        PROVE  y \in Ends(x)
    BY <2>1, <2>3
  <2>4. ASSUME NEW y \in Ends(x), NEW C \in SUBSET D, Closed(C, step[x])
        PROVE  y \in C
    <3>1. y \in C \cup {x} /\ y # x
      BY <2>2, <2>4, <1>2
    <3> QED BY <3>1
  <2>5. ASSUME NEW y \in Ends(x)
        PROVE  y \in Ends(step[x])
    BY <2>4, <2>5
  <2> QED BY <2>3, <2>5
<1>3. ASSUME NEW x \in D
      PROVE  f[x] = IF x \in Stop THEN out[x] ELSE f[step[x]]
  <2>1. CASE x \in Stop
    <3>1. (CHOOSE y : y \in Ends(x)) = x
      <4>1. (CHOOSE y : y \in Ends(x)) \in Ends(x)
        BY <1>1, <2>1
      <4> QED BY <1>1, <2>1, <4>1
    <3> QED BY <2>1, <3>1
  <2>2. CASE x \notin Stop
    <3>1. step[x] \in D /\ Ends(x) = Ends(step[x])
      BY <1>2, <2>2
    <3>2. f[x] = out[CHOOSE y : y \in Ends(x)]
      BY Zenon
    <3>3. f[step[x]] = out[CHOOSE y : y \in Ends(step[x])]
      BY <3>1, Zenon
    <3> HIDE DEF Ends, f
    <3> QED BY <2>2, <3>1, <3>2, <3>3
  <2> QED BY <2>1, <2>2
<1>4. f \in [D -> {f[x] : x \in D}]
  OBVIOUS
<1> HIDE DEF f
<1> QED BY <1>3, <1>4

LEMMA SmallestOf ==
    ASSUME NEW S \in SUBSET Nat, S # {}
    PROVE  \E x \in S : \A y \in S : x <= y
<1>1. PICK x \in S : \A y \in S : ~(<<y, x>> \in OpToRel(<, Nat))
  <2>1. IsWellFoundedOn(OpToRel(<, Nat), Nat)
    BY NatLessThanWellFounded
  <2> QED BY <2>1, WFMin
<1>2. \A y \in S : ~(y < x)
  BY <1>1 DEF OpToRel
<1> QED BY <1>2

\* When every way falls in rank, the function has the values at its ends.
LEMMA FollowingEnds ==
    ASSUME NEW D, NEW Stop, NEW step, NEW out, NEW rank \in [D -> Nat], NEW f,
           StepsWithin(D, Stop, step), Falls(D, Stop, step, rank), Follows(f, D, Stop, step, out)
    PROVE  EndsAt(f, D, Stop, out)
<1> USE DEF StepsWithin, Falls, Follows, EndsAt
<1> DEFINE Good(x) == \E y \in D : y \in Stop /\ f[x] = out[y]
           Bad == {rank[x] : x \in {x \in D : ~Good(x)}}
<1>1. SUFFICES ASSUME \E x \in D : ~Good(x) PROVE FALSE
  OBVIOUS
<1>2. Bad \subseteq Nat /\ Bad # {}
  BY <1>1
<1>3. PICK least \in Bad : \A r \in Bad : least <= r
  <2> HIDE DEF Bad
  <2> QED BY <1>1, <1>2, SmallestOf
<1>4. \A r \in Bad : ~(r < least)
  <2> HIDE DEF Bad
  <2> QED BY <1>2, <1>3
<1>5. PICK x \in D : ~Good(x) /\ least = rank[x]
  BY <1>3
<1>6. CASE x \in Stop
  <2>1. f[x] = out[x]
    BY <1>6
  <2> QED BY <1>5, <1>6, <2>1
<1>7. CASE x \notin Stop
  <2>1. step[x] \in D /\ rank[step[x]] < rank[x] /\ f[x] = f[step[x]]
    BY <1>7
  <2>2. ~Good(step[x])
    BY <1>5, <2>1
  <2>3. rank[step[x]] \in Bad
    BY <2>1, <2>2
  <2> QED BY <1>4, <1>5, <2>1, <2>3
<1> QED BY <1>6, <1>7

(****************************************************************************)
(* What the helpers return.                                                 *)
(****************************************************************************)

\* The programs whose derived types end.
EveryTypeEnds == \A g \in Graphs : \E rank \in [Node -> Nat] : DerivedEnds(g, rank)

Type == Node \cup {NoNode}

LEMMA GraphTypes ==
    ASSUME graph \in Graphs
    PROVE  /\ \A n \in Node : /\ graph.tag[n] \in Bytes!Tag /\ tagOf(n) = graph.tag[n]
                              /\ graph.base[n] \in Type
                              /\ elementsOf(n) \in Seq(Node)
                              /\ graph.offset[n] \in Nat /\ graph.size[n] \in Nat
                              /\ tagOf(n) \in {"member", "static_member", "inheritance", "reference", "array"}
                                    => graph.base[n] \in Node
           /\ tagOf(NoNode) = "none"
           /\ \A n \in Type : tagOf(n) # "none" => n \in Node
<1>1. NoNode \notin Node
  BY NodeAssumption
<1>2. \A n \in Node : tagOf(n) = graph.tag[n]
  BY <1>1 DEF tagOf
<1>3. /\ graph.tag \in [Node -> Bytes!Tag]
      /\ graph.base \in [Node -> Type]
      /\ graph.elements \in [Node -> Seq(Node)]
      /\ graph.offset \in [Node -> Nat] /\ graph.size \in [Node -> Nat]
      /\ \A n \in Node : graph.tag[n] \in {"member", "static_member", "inheritance", "reference", "array"} =>
                           graph.base[n] # NoNode
  BY GraphsAssumption DEF Type
<1>4. ASSUME NEW n \in Node
      PROVE  /\ graph.tag[n] \in Bytes!Tag /\ graph.base[n] \in Type
             /\ elementsOf(n) \in Seq(Node)
             /\ graph.offset[n] \in Nat /\ graph.size[n] \in Nat
  BY <1>3 DEF elementsOf
<1> QED BY <1>2, <1>3, <1>4 DEF tagOf, Type

\* The type below is one of the debug info, or none, and none that is left out.
LEMMA NonDerived ==
    ASSUME EveryTypeEnds, graph \in Graphs, NEW stops, NEW n \in Type
    PROVE  /\ find_non_derived_type_unless(stops, n) \in Type
           /\ tagOf(find_non_derived_type_unless(stops, n)) \notin Derived \ stops
<1> DEFINE Stop == {m \in Type : tagOf(m) \notin Derived \ stops}
           step == [m \in Type |-> graph.base[m]]
           out == [m \in Type |-> m]
           below == CHOOSE f : f = [m \in Type |-> IF tagOf(m) \in Derived \ stops THEN f[graph.base[m]] ELSE m]
<1>1. find_non_derived_type_unless(stops, n) = below[n]
  BY DEF find_non_derived_type_unless, Type
<1>2. PICK r \in [Node -> Nat] : DerivedEnds(graph, r)
  BY DEF EveryTypeEnds
<1> DEFINE rank == [m \in Type |-> IF m = NoNode THEN 0 ELSE r[m] + 1]
<1>3. rank \in [Type -> Nat]
  BY DEF Type
<1>4. ASSUME NEW m \in Type, m \notin Stop
      PROVE  step[m] \in Type /\ rank[step[m]] < rank[m]
  <2>1. m \in Node /\ tagOf(m) \in Derived /\ tagOf(m) = graph.tag[m] /\ graph.base[m] \in Type
    BY <1>4, GraphTypes DEF Derived
  <2>2. step[m] = graph.base[m] /\ step[m] \in Type
    BY <2>1
  <2>3. CASE graph.base[m] = NoNode
    <3>1. rank[step[m]] = 0 /\ rank[m] = r[m] + 1 /\ r[m] \in Nat
      BY <1>2, <2>1, <2>2, <2>3, NodeAssumption DEF Type
    <3> QED BY <2>2, <3>1
  <2>4. CASE graph.base[m] # NoNode
    <3>1. graph.base[m] \in Node /\ r[graph.base[m]] < r[m]
      BY <1>2, <2>1, <2>4 DEF DerivedEnds, Type
    <3>2. rank[step[m]] = r[graph.base[m]] + 1 /\ rank[m] = r[m] + 1
      BY <2>1, <2>2, <3>1, NodeAssumption DEF Type
    <3>3. r[m] \in Nat /\ r[graph.base[m]] \in Nat
      BY <1>2, <2>1, <3>1
    <3> QED BY <2>2, <3>1, <3>2, <3>3
  <2> QED BY <2>3, <2>4
<1>5. StepsWithin(Type, Stop, step) /\ Falls(Type, Stop, step, rank)
  BY <1>4 DEF StepsWithin, Falls
<1>6. below = [m \in Type |-> IF tagOf(m) \in Derived \ stops THEN below[graph.base[m]] ELSE m]
  <2>1. PICK V : \E f \in [Type -> V] : Follows(f, Type, Stop, step, out)
    <3> HIDE DEF Stop, step, out
    <3> QED BY <1>5, FollowingExists
  <2> PICK f \in [Type -> V] : Follows(f, Type, Stop, step, out)
    BY <2>1
  <2>2. \A m \in Type : f[m] = IF tagOf(m) \in Derived \ stops THEN f[graph.base[m]] ELSE m
    BY DEF Follows
  <2>3. f = [m \in Type |-> IF tagOf(m) \in Derived \ stops THEN f[graph.base[m]] ELSE m]
    BY <2>2
  <2> QED BY <2>3
<1>7. Follows(below, Type, Stop, step, out)
  <2> HIDE DEF below
  <2> QED BY <1>6 DEF Follows
<1>8. EndsAt(below, Type, Stop, out)
  <2> HIDE DEF Stop, step, out, rank, below
  <2> QED BY <1>3, <1>5, <1>7, FollowingEnds
<1>9. PICK y \in Type : y \in Stop /\ below[n] = out[y]
  BY <1>8 DEF EndsAt
<1> QED BY <1>1, <1>9

\* A composite, or none; pointers are counted, typedefs and members are not.
LEMMA Desugared ==
    ASSUME EveryTypeEnds, graph \in Graphs, NEW n \in Type
    PROVE  desugar(n) \in Type
<1> DEFINE D == Type \X (0 .. 2)
           next(at) == <<graph.base[at[1]], IF is_pointer(at[1]) THEN at[2] + 1 ELSE at[2]>>
           Stop == {at \in D : tagOf(at[1]) \notin Derived \/ at[2] = 2}
           step == [at \in D |-> next(at)]
           out == [at \in D |-> at[1]]
           below == CHOOSE f : f = [at \in D |-> IF tagOf(at[1]) \notin Derived \/ at[2] = 2 THEN at[1]
                                                 ELSE f[next(at)]]
<1>1. desugar(n) = IF isComposite(below[<<n, 0>>]) THEN below[<<n, 0>>] ELSE NoNode
  BY DEF desugar, Type
<1>2. PICK r \in [Node -> Nat] : DerivedEnds(graph, r)
  BY DEF EveryTypeEnds
<1> DEFINE rank == [at \in D |-> IF at[1] = NoNode THEN 0 ELSE r[at[1]] + 1]
<1>3. rank \in [D -> Nat]
  BY DEF Type
<1>4. ASSUME NEW at \in D, at \notin Stop
      PROVE  step[at] \in D /\ rank[step[at]] < rank[at]
  <2> DEFINE m == at[1]
             base == graph.base[m]
  <2>1. m \in Node /\ base \in Type /\ at[2] \in {0, 1}
    BY <1>4, GraphTypes DEF Derived
  <2>2. step[at] \in D /\ step[at][1] = base
    BY <2>1
  <2>3. rank[step[at]] = (IF base = NoNode THEN 0 ELSE r[base] + 1) /\ rank[at] = r[m] + 1 /\ r[m] \in Nat
    BY <2>1, <2>2, NodeAssumption
  <2>4. CASE base = NoNode
    BY <2>2, <2>3, <2>4
  <2>5. CASE base # NoNode
    <3>1. base \in Node /\ r[base] \in Nat
      BY <1>2, <2>1, <2>5 DEF Type
    <3>2. tagOf(m) \in Derived /\ tagOf(m) = graph.tag[m]
      BY <1>4, <2>1, GraphTypes
    <3>3. \A k \in Node : graph.tag[k] \in Derived /\ graph.base[k] # NoNode => r[graph.base[k]] < r[k]
      BY <1>2 DEF DerivedEnds
    <3>4. r[base] < r[m]
      <4> HIDE DEF m
      <4> QED BY <2>1, <2>5, <3>2, <3>3
    <3>5. rank[step[at]] = r[base] + 1 /\ rank[at] = r[m] + 1
      BY <2>3, <2>5
    <3> HIDE DEF rank, step, D, base, m
    <3> QED BY <2>2, <2>3, <3>1, <3>4, <3>5
  <2> QED BY <2>4, <2>5
<1>5. StepsWithin(D, Stop, step) /\ Falls(D, Stop, step, rank)
  <2> HIDE DEF D, Stop, step, rank
  <2> QED BY <1>4 DEF StepsWithin, Falls
<1>6. below = [at \in D |-> IF tagOf(at[1]) \notin Derived \/ at[2] = 2 THEN at[1] ELSE below[next(at)]]
  <2>1. PICK V : \E f \in [D -> V] : Follows(f, D, Stop, step, out)
    <3> HIDE DEF D, Stop, step, out
    <3> QED BY <1>5, FollowingExists
  <2> PICK f \in [D -> V] : Follows(f, D, Stop, step, out)
    BY <2>1
  <2>2. \A at \in D : f[at] = IF tagOf(at[1]) \notin Derived \/ at[2] = 2 THEN at[1] ELSE f[next(at)]
    <3> HIDE DEF D, next
    <3> QED BY DEF Follows
  <2>3. f = [at \in D |-> IF tagOf(at[1]) \notin Derived \/ at[2] = 2 THEN at[1] ELSE f[next(at)]]
    <3> HIDE DEF D, next
    <3> QED BY <2>2
  <2> HIDE DEF D, next
  <2> QED BY <2>3
<1>7. Follows(below, D, Stop, step, out)
  <2> HIDE DEF below, D, next
  <2> QED BY <1>6 DEF Follows
<1>8. EndsAt(below, D, Stop, out)
  <2> HIDE DEF D, Stop, step, out, rank, below
  <2> QED BY <1>3, <1>5, <1>7, FollowingEnds
<1>9. <<n, 0>> \in D
  OBVIOUS
<1>10. PICK y \in D : below[<<n, 0>>] = out[y]
  <2> HIDE DEF D, Stop, out, below
  <2> QED BY <1>8, <1>9 DEF EndsAt
<1>11. below[<<n, 0>>] \in Type
  <2> HIDE DEF below
  <2> QED BY <1>10
<1> HIDE DEF below
<1> QED BY <1>1, <1>11 DEF Type

LEMMA ElementTypes ==
    ASSUME graph \in Graphs, NEW n \in Node
    PROVE  /\ DOMAIN elementsOf(n) = 1 .. Len(elementsOf(n)) /\ Len(elementsOf(n)) \in Nat
           /\ \A i \in DOMAIN elementsOf(n) : elementsOf(n)[i] \in Node
           /\ elementSet(n) \subseteq Node
<1>1. elementsOf(n) \in Seq(Node)
  BY GraphTypes
<1>2. /\ DOMAIN elementsOf(n) = 1 .. Len(elementsOf(n)) /\ Len(elementsOf(n)) \in Nat
      /\ \A i \in 1 .. Len(elementsOf(n)) : elementsOf(n)[i] \in Node
  BY <1>1, LenProperties, ElementOfSeq
<1> QED BY <1>2 DEF elementSet

\* The sets of nodes met grow, and there are only so many nodes.
LEMMA NodesBelow ==
    ASSUME graph \in Graphs, NEW n \in Node
    PROVE  nodesBelow(n) \subseteq Node
<1> DEFINE D == SUBSET Node
           next(m) == ({m, graph.base[m]} \ {NoNode}) \cup elementSet(m)
           met(S) == UNION {next(m) : m \in S}
           Stop == {S \in D : met(S) = S}
           step == [S \in D |-> met(S)]
           out == [S \in D |-> S]
           rank == [S \in D |-> Cardinality(Node) - Cardinality(S)]
           below == CHOOSE f : f = [S \in D |-> IF met(S) = S THEN S ELSE f[met(S)]]
<1>1. nodesBelow(n) = below[{n}]
  BY DEF nodesBelow
<1>2. IsFiniteSet(Node) /\ Cardinality(Node) \in Nat
  BY NodeAssumption, FS_CardinalityType
<1>3. ASSUME NEW S \in D
      PROVE  Cardinality(S) \in Nat /\ Cardinality(S) <= Cardinality(Node)
  BY <1>2, FS_Subset, FS_CardinalityType
<1>4. rank \in [D -> Nat]
  <2>1. ASSUME NEW S \in D
        PROVE  Cardinality(Node) - Cardinality(S) \in Nat
    BY <1>2, <1>3
  <2> QED BY <2>1
<1>5. ASSUME NEW S \in D
      PROVE  S \subseteq met(S) /\ met(S) \in D
  <2>1. ASSUME NEW m \in S
        PROVE  m \in next(m) /\ next(m) \subseteq Node
    <3>1. m \in Node /\ m # NoNode /\ graph.base[m] \in Type /\ elementSet(m) \subseteq Node
      BY <2>1, NodeAssumption, GraphTypes, ElementTypes
    <3> QED BY <3>1 DEF Type
  <2> HIDE DEF next
  <2> QED BY <2>1
<1>6. ASSUME NEW S \in D, S \notin Stop
      PROVE  step[S] \in D /\ rank[step[S]] < rank[S]
  <2> HIDE DEF met
  <2>1. S \subseteq met(S) /\ met(S) \in D /\ met(S) # S
    BY <1>5, <1>6
  <2>2. Cardinality(S) <= Cardinality(met(S)) /\ Cardinality(S) # Cardinality(met(S))
    <3>1. IsFiniteSet(met(S)) /\ S \in SUBSET met(S)
      BY <2>1, <1>2, FS_Subset
    <3>2. /\ Cardinality(S) <= Cardinality(met(S))
          /\ Cardinality(met(S)) = Cardinality(S) => met(S) = S
      BY <3>1, FS_Subset
    <3> QED BY <2>1, <3>2
  <2>3. /\ Cardinality(S) \in Nat /\ Cardinality(S) <= Cardinality(Node)
        /\ Cardinality(met(S)) \in Nat /\ Cardinality(met(S)) <= Cardinality(Node)
    BY <1>3, <2>1
  <2>4. /\ step[S] = met(S) /\ rank[S] = Cardinality(Node) - Cardinality(S)
        /\ rank[met(S)] = Cardinality(Node) - Cardinality(met(S))
    BY <2>1
  <2> HIDE DEF D, rank, step
  <2> QED BY <1>2, <2>1, <2>2, <2>3, <2>4
<1>7. StepsWithin(D, Stop, step) /\ Falls(D, Stop, step, rank)
  <2> HIDE DEF D, Stop, step, rank
  <2> QED BY <1>6 DEF StepsWithin, Falls
<1>8. below = [S \in D |-> IF met(S) = S THEN S ELSE below[met(S)]]
  <2>1. PICK V : \E f \in [D -> V] : Follows(f, D, Stop, step, out)
    <3> HIDE DEF D, Stop, step, out
    <3> QED BY <1>7, FollowingExists
  <2> PICK f \in [D -> V] : Follows(f, D, Stop, step, out)
    BY <2>1
  <2>2. \A S \in D : f[S] = IF met(S) = S THEN S ELSE f[met(S)]
    <3> HIDE DEF D, met
    <3> QED BY DEF Follows
  <2>3. f = [S \in D |-> IF met(S) = S THEN S ELSE f[met(S)]]
    <3> HIDE DEF D, met
    <3> QED BY <2>2
  <2> HIDE DEF D, met
  <2> QED BY <2>3
<1>9. Follows(below, D, Stop, step, out)
  <2> HIDE DEF below, D, met
  <2> QED BY <1>8 DEF Follows
<1>10. EndsAt(below, D, Stop, out)
  <2> HIDE DEF D, Stop, step, out, rank, below
  <2> QED BY <1>4, <1>7, <1>9, FollowingEnds
<1>11. PICK y \in D : below[{n}] = out[y]
  <2>1. {n} \in D
    OBVIOUS
  <2> HIDE DEF D, Stop, out, below
  <2> QED BY <1>10, <2>1 DEF EndsAt
<1>12. out[y] = y
  OBVIOUS
<1> HIDE DEF below, out
<1> QED BY <1>1, <1>11, <1>12

\* A tag says of which composite a member is accessed.
LEMMA AccessTypes ==
    ASSUME EveryTypeEnds, graph \in Graphs, NEW root_type \in Type, NEW accessed,
           tbaa_access(root_type, accessed) # NoAccess
    PROVE  tbaa_access(root_type, accessed).composite \in Node
<1> DEFINE composite == find_non_derived_type_unless({}, root_type)
           base_name == struct_name(accessed.base)
           below == {n \in nodesBelow(composite) : isComposite(n) /\ struct_name(n) = base_name}
           sub == CHOOSE n \in below : TRUE
           result == tbaa_access(root_type, accessed)
<1>1. isComposite(composite) /\ (result.composite = composite \/ (below # {} /\ result.composite = sub))
  BY DEF tbaa_access
<1>2. composite \in Node
  <2>1. composite \in Type
    BY NonDerived
  <2> QED BY <1>1, <2>1, GraphTypes DEF isComposite
<1>3. below # {} => sub \in Node
  <2>1. below \subseteq Node
    BY <1>2, NodesBelow
  <2> QED BY <2>1
<1> QED BY <1>1, <1>2, <1>3

\* The k-th of some positions exists: counting those up to a position is one to
\* one, and there are as many counts.
LEMMA CountsAreMet ==
    ASSUME NEW S, NEW n \in Nat, S \subseteq 1 .. n
    PROVE  /\ Cardinality(S) \in Nat
           /\ \A k \in 1 .. Cardinality(S) : \E i \in S : Cardinality({j \in S : j <= i}) = k
<1> DEFINE upTo(i) == {j \in S : j <= i}
           c == Cardinality(S)
           count == [i \in S |-> Cardinality(upTo(i))]
<1>1. IsFiniteSet(S) /\ c \in Nat
  <2>1. IsFiniteSet(1 .. n)
    BY FS_Interval
  <2>2. IsFiniteSet(S)
    BY <2>1, FS_Subset
  <2> QED BY <2>2, FS_CardinalityType
<1>2. ASSUME NEW i \in S
      PROVE  /\ IsFiniteSet(upTo(i)) /\ Cardinality(upTo(i)) \in 1 .. c
  <2>1. IsFiniteSet(upTo(i)) /\ Cardinality(upTo(i)) <= c
    BY <1>1, FS_Subset
  <2>2. Cardinality(upTo(i)) \in Nat
    BY <2>1, FS_CardinalityType
  <2>3. i \in upTo(i)
    OBVIOUS
  <2>4. Cardinality(upTo(i)) # 0
    <3> HIDE DEF upTo
    <3> QED BY <2>1, <2>3, FS_EmptySet
  <2> HIDE DEF upTo, c
  <2> QED BY <1>1, <2>1, <2>2, <2>4
<1>3. ASSUME NEW i \in S, NEW k \in S, i < k
      PROVE  Cardinality(upTo(i)) # Cardinality(upTo(k))
  <2>1. upTo(i) \in SUBSET upTo(k)
    <3>1. i \in Nat /\ k \in Nat /\ \A j \in S : j \in Nat
      OBVIOUS
    <3>2. \A j \in S : j <= i => j <= k
      BY <1>3, <3>1
    <3> QED BY <3>2
  <2>2. k \in upTo(k) /\ k \notin upTo(i)
    BY <1>3
  <2>3. IsFiniteSet(upTo(k))
    BY <1>2
  <2> HIDE DEF upTo
  <2> QED BY <2>1, <2>2, <2>3, FS_Subset
<1>4. count \in [S -> 1 .. c]
  <2> HIDE DEF upTo, c
  <2> QED BY <1>2
<1>5. \A i, k \in S : count[i] = count[k] => i = k
  <2> SUFFICES ASSUME NEW i \in S, NEW k \in S, count[i] = count[k] PROVE i = k
    OBVIOUS
  <2>1. ~(i < k) /\ ~(k < i)
    <3> HIDE DEF upTo
    <3> QED BY <1>3
  <2> QED BY <2>1
<1>6. count \in Injection(S, 1 .. c)
  <2> HIDE DEF count, c
  <2> QED BY <1>4, <1>5 DEF Injection, IsInjective
<1>7. IsFiniteSet(1 .. c) /\ Cardinality(1 .. c) = c
  <2> HIDE DEF c
  <2> QED BY <1>1, FS_Interval
<1>8. count \in Surjection(S, 1 .. c)
  <2> HIDE DEF count
  <2>1. Cardinality(S) = Cardinality(1 .. c) <=> count \in Surjection(S, 1 .. c)
    BY <1>6, <1>7, FS_Injection
  <2> QED BY <1>7, <2>1
<1>9. \A k \in 1 .. c : \E i \in S : count[i] = k
  <2> HIDE DEF count, c
  <2> QED BY <1>8 DEF Surjection
<1> QED BY <1>1, <1>9

\* The indices that are left are numbers.
LEMMA CreatedIndices ==
    ASSUME inst.indices \in Seq(Nat \cup {dynamic}), inst.indices # <<>>
    PROVE  create_indices \in Seq(Nat)
<1> DEFINE all == inst.indices
           rest == IF skip_first THEN Tail(all) ELSE all
           constant == {i \in DOMAIN rest : rest[i] # dynamic}
           n == Cardinality(constant)
           upTo(i) == Cardinality({j \in constant : j <= i})
           nth(k) == CHOOSE i \in constant : upTo(i) = k
<1>1. create_indices = [k \in 1 .. n |-> rest[nth(k)]]
  BY DEF create_indices
<1>2. rest \in Seq(Nat \cup {dynamic})
  <2> HIDE DEF all
  <2>1. all \in Seq(Nat \cup {dynamic}) /\ all # <<>>
    BY DEF all
  <2>2. Tail(all) \in Seq(Nat \cup {dynamic})
    BY <2>1, HeadTailProperties
  <2> QED BY <2>1, <2>2
<1>3. DOMAIN rest = 1 .. Len(rest) /\ Len(rest) \in Nat /\ \A i \in 1 .. Len(rest) : rest[i] \in Nat \cup {dynamic}
  <2> HIDE DEF rest
  <2> QED BY <1>2, LenProperties, ElementOfSeq
<1>4. constant \subseteq 1 .. Len(rest) /\ \A i \in constant : rest[i] \in Nat
  <2> HIDE DEF rest
  <2> QED BY <1>3
<1>5. n \in Nat /\ \A k \in 1 .. n : \E i \in constant : upTo(i) = k
  <2> HIDE DEF rest, constant
  <2> QED BY <1>3, <1>4, CountsAreMet
<1>6. ASSUME NEW k \in 1 .. n
      PROVE  rest[nth(k)] \in Nat
  <2> HIDE DEF rest, constant, upTo
  <2>1. nth(k) \in constant
    BY <1>5
  <2> HIDE DEF nth
  <2> QED BY <1>4, <2>1
<1> HIDE DEF rest, n, nth
<1> QED BY <1>1, <1>5, <1>6

\* The first element, or the one behind an empty base class.
LEMMA FirstElement ==
    ASSUME graph \in Graphs, NEW n \in Node, Len(elementsOf(n)) > 0
    PROVE  /\ first_element(n) \in Node
           /\ \/ first_element(n) = elementsOf(n)[1]
              \/ Len(elementsOf(n)) > 1 /\ first_element(n) = elementsOf(n)[2]
BY ElementTypes DEF first_element, select_non_zero_element

\* The element that is indexed, or none past the last one.
LEMMA ElementFound ==
    ASSUME graph \in Graphs, composite_type \in Node, gep_index \in Nat,
           gep_index < Len(elementsOf(composite_type))
    PROVE  element \in Type
<1> DEFINE n == Len(elementsOf(composite_type))
           at == gep_index + ebo_inheritance_offset
           others == {i \in at + 1 .. n : tagOf(elementAt(i)) # "static_member"}
<1>1. /\ n \in Nat
      /\ \A i \in Nat : elementAt(i) \in Type /\ (i >= n => elementAt(i) = NoNode)
  BY ElementTypes DEF elementAt, Type
<1>2. ebo_inheritance_offset \in Nat
  <2> DEFINE bases == {i \in DOMAIN elementsOf(composite_type) :
                         is_ebo_inherited_composite(elementsOf(composite_type)[i])}
  <2>1. bases \subseteq 1 .. n
    BY ElementTypes
  <2>2. Cardinality(bases) \in Nat
    <3> HIDE DEF bases, n
    <3> QED BY <1>1, <2>1, CountsAreMet
  <2> QED BY <2>2 DEF ebo_inheritance_offset
<1>3. at \in Nat
  <2> HIDE DEF n
  <2> QED BY <1>2
<1>4. indexed_element \in Type
  BY <1>1, <1>3, FirstElement DEF indexed_element, Type
<1>5. CASE tagOf(indexed_element) = "static_member"
  <2>1. at < n
    <3>1. CASE gep_index = 0
      BY <3>1, <1>1 DEF ebo_inheritance_offset
    <3>2. CASE gep_index # 0
      <4>1. indexed_element = elementAt(at)
        BY <3>2 DEF indexed_element
      <4>2. elementAt(at) # NoNode
        BY <4>1, <1>5, GraphTypes
      <4> HIDE DEF at, n
      <4> QED BY <1>1, <1>3, <4>2
    <3> QED BY <3>1, <3>2
  <2>2. n \in others
    <3>1. elementAt(n) = NoNode /\ tagOf(NoNode) # "static_member"
      <4> HIDE DEF n
      <4> QED BY <1>1, GraphTypes
    <3> HIDE DEF at, n
    <3> QED BY <1>1, <1>3, <2>1, <3>1
  <2>3. others \subseteq Nat
    <3> HIDE DEF at, n
    <3> QED BY <1>1, <1>3
  <2>4. PICK i \in others : \A j \in others : i <= j
    <3> HIDE DEF others
    <3> QED BY <2>2, <2>3, SmallestOf
  <2>5. (CHOOSE k \in others : \A j \in others : k <= j) \in others
    <3> HIDE DEF others
    <3> QED BY <2>4
  <2>6. element = elementAt(CHOOSE k \in others : \A j \in others : k <= j)
    BY <1>5 DEF element
  <2> HIDE DEF others
  <2> QED BY <1>1, <2>3, <2>5, <2>6
<1>6. CASE tagOf(indexed_element) # "static_member"
  BY <1>4, <1>6 DEF element
<1> QED BY <1>5, <1>6

(****************************************************************************)
(* The elements that GEP reads.                                             *)
(****************************************************************************)

\* The search past the static members ends at an element when there is another
\* kind of element behind.
LEMMA SkippedTo ==
    ASSUME graph \in Graphs, composite_type \in Node, tagOf(indexed_element) = "static_member",
           gep_index + ebo_inheritance_offset \in Nat,
           NEW i \in DOMAIN elementsOf(composite_type), i > gep_index + ebo_inheritance_offset + 1,
           tagOf(elementsOf(composite_type)[i]) # "static_member"
    PROVE  element # NoNode
<1> DEFINE n == Len(elementsOf(composite_type))
           at == gep_index + ebo_inheritance_offset
           others == {j \in at + 1 .. n : tagOf(elementAt(j)) # "static_member"}
           first == CHOOSE k \in others : \A j \in others : k <= j
<1>1. n \in Nat /\ i \in 1 .. n /\ \A j \in 1 .. n : elementsOf(composite_type)[j] \in Node
  BY ElementTypes
<1>2. \A j \in Nat : j < n => elementAt(j) = elementsOf(composite_type)[j + 1]
  BY DEF elementAt
<1>3. i - 1 \in others
  <2>1. i - 1 \in at + 1 .. n /\ i - 1 \in Nat /\ i - 1 < n /\ (i - 1) + 1 = i
    <3> HIDE DEF n
    <3> QED BY <1>1
  <2>2. elementAt(i - 1) = elementsOf(composite_type)[i]
    BY <1>2, <2>1
  <2> QED BY <2>1, <2>2
<1>4. others \subseteq Nat
  <2> HIDE DEF n
  <2> QED BY <1>1
<1>5. first \in others /\ \A j \in others : first <= j
  <2> HIDE DEF others
  <2>1. \E k \in others : \A j \in others : k <= j
    BY <1>3, <1>4, SmallestOf
  <2> QED BY <2>1
<1>6. element = elementAt(first)
  BY DEF element
<1>7. first \in Nat /\ first <= i - 1 /\ first < n /\ first + 1 \in 1 .. n
  <2> HIDE DEF first, others, n
  <2> QED BY <1>1, <1>3, <1>4, <1>5
<1>8. element = elementsOf(composite_type)[first + 1]
  <2> HIDE DEF first, n
  <2> QED BY <1>2, <1>6, <1>7
<1> HIDE DEF first, n
<1> QED BY <1>1, <1>7, <1>8, NodeAssumption

\* Fields and empty base classes are different elements, so that an index of a
\* field, shifted by the number of these bases, has a field or base at or behind it.
LEMMA ElementThere ==
    ASSUME graph \in Graphs, composite_type \in Node, gep_index \in Nat, iterates,
           gep_index < Cardinality(fieldsOf(composite_type)), FirstFieldKept
    PROVE  element # NoNode
<1> DEFINE E == elementsOf(composite_type)
           n == Len(E)
           F == fieldsOf(composite_type)
           B == {i \in DOMAIN E : is_ebo_inherited_composite(E[i])}
<1>1. DOMAIN E = 1 .. n /\ n \in Nat /\ \A i \in 1 .. n : E[i] \in Node
  BY ElementTypes
<1>2. F \subseteq 1 .. n /\ B \subseteq 1 .. n /\ F \cap B = {}
  BY <1>1 DEF fieldsOf
<1>3. \A i \in F \cup B : tagOf(E[i]) # "static_member"
  BY DEF fieldsOf, is_ebo_inherited_composite
<1>4. /\ IsFiniteSet(F) /\ Cardinality(F) \in Nat /\ IsFiniteSet(B) /\ Cardinality(B) \in Nat
      /\ IsFiniteSet(F \cup B) /\ Cardinality(F \cup B) = Cardinality(F) + Cardinality(B)
      /\ Cardinality(F \cup B) <= n
  <2> HIDE DEF F, B, n
  <2>1. IsFiniteSet(1 .. n) /\ Cardinality(1 .. n) = n
    BY <1>1, FS_Interval
  <2>2. IsFiniteSet(F) /\ IsFiniteSet(B)
    BY <1>2, <2>1, FS_Subset
  <2>3. Cardinality(F) \in Nat /\ Cardinality(B) \in Nat
    BY <2>2, FS_CardinalityType
  <2>4. /\ IsFiniteSet(F \cup B)
        /\ Cardinality(F \cup B) = Cardinality(F) + Cardinality(B) - Cardinality(F \cap B)
    BY <2>2, FS_Union
  <2>5. Cardinality(F \cap B) = 0
    BY <1>2, FS_EmptySet
  <2>6. F \cup B \in SUBSET (1 .. n)
    BY <1>2
  <2>7. Cardinality(F \cup B) <= n
    BY <2>1, <2>6, FS_Subset
  <2> QED BY <2>2, <2>3, <2>4, <2>5, <2>7
<1>5. CASE gep_index = 0
  <2>1. ebo_inheritance_offset = 0 /\ indexed_element = first_element(composite_type)
    BY <1>5 DEF ebo_inheritance_offset, indexed_element
  <2>2. n > 0
    BY <1>5, <1>1 DEF iterates
  <2>3. first_element(composite_type) \in Node
    BY <2>2, FirstElement
  <2>4. CASE tagOf(indexed_element) # "static_member"
    BY <2>1, <2>3, <2>4, NodeAssumption DEF element
  <2>5. CASE tagOf(indexed_element) = "static_member"
    <3>1. 1 \notin F
      BY <1>3, <1>5, <2>1, <2>5 DEF FirstFieldKept
    <3>2. PICK i \in F : TRUE
      <4>1. Cardinality(F) # 0
        BY <1>4, <1>5
      <4> HIDE DEF F
      <4> QED BY <4>1, FS_EmptySet
    <3>3. i \in DOMAIN E /\ i > 1 /\ tagOf(E[i]) # "static_member"
      <4> HIDE DEF F, n, E
      <4> QED BY <1>1, <1>2, <1>3, <3>1, <3>2
    <3> QED BY <1>5, <2>1, <2>5, <3>3, SkippedTo
  <2> QED BY <2>4, <2>5
<1>6. CASE gep_index # 0
  <2> DEFINE at == gep_index + ebo_inheritance_offset
  <2>1. at = gep_index + Cardinality(B) /\ indexed_element = elementAt(at)
    BY <1>6 DEF ebo_inheritance_offset, indexed_element
  <2>2. at \in Nat /\ at < Cardinality(F \cup B) /\ at < n
    <3>1. gep_index < Cardinality(F)
      OBVIOUS
    <3> HIDE DEF F, B, n, at
    <3> QED BY <1>1, <1>4, <2>1, <3>1
  <2>3. elementAt(at) = E[at + 1] /\ E[at + 1] \in Node
    <3>1. elementAt(at) = E[at + 1]
      BY <2>2 DEF elementAt
    <3> HIDE DEF E, n, at
    <3> QED BY <1>1, <2>2, <3>1
  <2>4. CASE tagOf(indexed_element) # "static_member"
    <3> HIDE DEF E, at
    <3> QED BY <2>1, <2>3, <2>4, NodeAssumption DEF element
  <2>5. CASE tagOf(indexed_element) = "static_member"
    <3>1. PICK i \in F \cup B : i > at
      <4> HIDE DEF F, B, n, at
      <4> SUFFICES ASSUME \A i \in F \cup B : ~(i > at) PROVE FALSE
        OBVIOUS
      <4>1. F \cup B \in SUBSET (1 .. at)
        BY <1>1, <1>2, <2>2
      <4>2. IsFiniteSet(1 .. at) /\ Cardinality(1 .. at) = at
        BY <2>2, FS_Interval
      <4>3. Cardinality(F \cup B) <= at
        BY <4>1, <4>2, FS_Subset
      <4> QED BY <1>4, <2>2, <4>3
    <3>2. i # at + 1
      <4> HIDE DEF F, B, E, at
      <4> QED BY <1>3, <2>1, <2>3, <2>5, <3>1
    <3>3. i \in DOMAIN E /\ i > at + 1 /\ tagOf(E[i]) # "static_member"
      <4> HIDE DEF F, B, E, n, at
      <4> QED BY <1>1, <1>2, <1>3, <2>2, <3>1, <3>2
    <3> QED BY <2>2, <2>5, <3>3, SkippedTo
  <2> QED BY <2>4, <2>5
<1> QED BY <1>5, <1>6

(****************************************************************************)
(* The searches by offset.                                                  *)
(****************************************************************************)

Members == {m \in Node : graph.tag[m] = "member"}

SearchOK ==
    /\ todo \in Seq(Bytes!Calls)
    /\ visited_dinodes_ \subseteq Node
    /\ outermost_candidate_ \in Members \cup {NoNode}

LEMMA SearchStarts ==
    ASSUME NEW composite \in Node, NEW offset, Bytes!resolve_byte_offset(composite, offset)
    PROVE  SearchOK' /\ graph' = graph
<1>1. <<Bytes!traverse(composite)>> \in Seq(Bytes!Calls)
  BY DEF Bytes!traverse, Bytes!Calls
<1> QED BY <1>1 DEF Bytes!resolve_byte_offset, Bytes!Start, SearchOK

\* A visit replaces the call at hand by others.
LEMMA SearchContinues ==
    ASSUME graph \in Graphs, SearchOK, todo # <<>>, NEW calls \in Seq(Bytes!Calls), Bytes!Continue(calls)
    PROVE  todo' \in Seq(Bytes!Calls)
<1>1. Tail(todo) \in Seq(Bytes!Calls)
  BY HeadTailProperties DEF SearchOK
<1> QED BY <1>1, ConcatProperties DEF Bytes!Continue

LEMMA SearchCalls ==
    ASSUME graph \in Graphs, SearchOK, todo # <<>>
    PROVE  /\ Bytes!node \in Node
           /\ <<>> \in Seq(Bytes!Calls) /\ <<Bytes!leave(Bytes!node)>> \in Seq(Bytes!Calls)
           /\ Bytes!traverse_base(Bytes!node) \in Seq(Bytes!Calls)
           /\ Bytes!traverse_elements(Bytes!node) \in Seq(Bytes!Calls)
<1>1. Bytes!node \in Node
  <2>1. Head(todo) \in Bytes!Calls
    BY HeadTailProperties DEF SearchOK
  <2> QED BY <2>1 DEF Bytes!node, Bytes!Calls
<1>2. \A n \in Node : Bytes!traverse(n) \in Bytes!Calls /\ Bytes!leave(n) \in Bytes!Calls
  BY DEF Bytes!traverse, Bytes!leave, Bytes!Calls
<1>3. Bytes!traverse_base(Bytes!node) \in Seq(Bytes!Calls)
  <2>1. graph.base[Bytes!node] \in Node \cup {NoNode}
    BY <1>1, GraphTypes DEF Type
  <2> QED BY <1>2, <2>1 DEF Bytes!traverse_base
<1>4. Bytes!traverse_elements(Bytes!node) \in Seq(Bytes!Calls)
  <2> DEFINE n == Len(graph.elements[Bytes!node])
  <2>1. /\ DOMAIN graph.elements[Bytes!node] = 1 .. n /\ n \in Nat
        /\ \A i \in 1 .. n : graph.elements[Bytes!node][i] \in Node
    BY <1>1, ElementTypes DEF elementsOf
  <2>2. Bytes!traverse_elements(Bytes!node) = [i \in 1 .. n |-> Bytes!traverse(graph.elements[Bytes!node][i])]
    BY <2>1 DEF Bytes!traverse_elements
  <2>3. \A i \in 1 .. n : Bytes!traverse(graph.elements[Bytes!node][i]) \in Bytes!Calls
    BY <1>2, <2>1
  <2> QED BY <2>1, <2>2, <2>3
<1> QED BY <1>1, <1>2, <1>3, <1>4

LEMMA SearchStep ==
    ASSUME graph \in Graphs, SearchOK, Bytes!Traverse
    PROVE  SearchOK' /\ graph' = graph
<1> USE DEF Bytes!At, Bytes!destructure
<1>1. todo # <<>> /\ graph' = graph
  BY DEF Bytes!Traverse, Bytes!visitLastMember, Bytes!visitMember, Bytes!visitOther,
         Bytes!visitComposite, Bytes!visitNothing, Bytes!leaveCompositeType
<1>2. outermost_candidate_' \in Members \cup {NoNode}
  <2>1. Bytes!node \in Node
    BY <1>1, SearchCalls
  <2> QED BY <2>1 DEF SearchOK, Members, Bytes!tag, Bytes!Traverse, Bytes!visitLastMember,
         Bytes!visitMember, Bytes!visitOther, Bytes!visitComposite, Bytes!visitNothing,
         Bytes!leaveCompositeType
<1>3. ASSUME Bytes!Skip
      PROVE  todo' \in Seq(Bytes!Calls) /\ visited_dinodes_' \subseteq Node
  BY <1>1, <1>3, SearchCalls, SearchContinues DEF Bytes!Skip, SearchOK
<1>4. ASSUME Bytes!traverseDerived
      PROVE  todo' \in Seq(Bytes!Calls) /\ visited_dinodes_' \subseteq Node
  BY <1>1, <1>4, SearchCalls, SearchContinues DEF Bytes!traverseDerived, SearchOK
<1>5. ASSUME Bytes!traverseArray
      PROVE  todo' \in Seq(Bytes!Calls) /\ visited_dinodes_' \subseteq Node
  <2>1. Bytes!traverse_elements(Bytes!node) \o Bytes!traverse_base(Bytes!node) \in Seq(Bytes!Calls)
    BY <1>1, SearchCalls, ConcatProperties
  <2> QED BY <1>1, <1>5, <2>1, SearchContinues DEF Bytes!traverseArray, SearchOK
<1>6. ASSUME Bytes!traverseComposite
      PROVE  todo' \in Seq(Bytes!Calls) /\ visited_dinodes_' \subseteq Node
  <2> DEFINE base == Bytes!traverse_base(Bytes!node)
             rest == Bytes!traverse_elements(Bytes!node)
             last == <<Bytes!leave(Bytes!node)>>
  <2>1. (base \o rest) \o last \in Seq(Bytes!Calls)
    <3>1. base \in Seq(Bytes!Calls) /\ rest \in Seq(Bytes!Calls) /\ last \in Seq(Bytes!Calls)
      BY <1>1, SearchCalls
    <3> HIDE DEF base, rest, last
    <3>2. base \o rest \in Seq(Bytes!Calls)
      BY <3>1, ConcatProperties
    <3> QED BY <3>1, <3>2, ConcatProperties
  <2>2. Bytes!Continue((base \o rest) \o last)
    BY <1>6 DEF Bytes!traverseComposite
  <2>3. todo' \in Seq(Bytes!Calls)
    <3> HIDE DEF base, rest, last
    <3> QED BY <1>1, <2>1, <2>2, SearchContinues
  <2>4. Bytes!node \in Node
    BY <1>1, SearchCalls
  <2> QED BY <1>6, <2>3, <2>4 DEF Bytes!traverseComposite, SearchOK
<1>7. ASSUME Bytes!leaveComposite
      PROVE  todo' \in Seq(Bytes!Calls) /\ visited_dinodes_' \subseteq Node
  BY <1>1, <1>7, SearchCalls, SearchContinues DEF Bytes!leaveComposite, SearchOK
<1>8. todo' \in Seq(Bytes!Calls) /\ visited_dinodes_' \subseteq Node
  BY <1>3, <1>4, <1>5, <1>6, <1>7
     DEF Bytes!Traverse, Bytes!visitLastMember, Bytes!visitMember, Bytes!visitOther,
         Bytes!visitComposite, Bytes!visitNothing, Bytes!leaveCompositeType
<1> QED BY <1>1, <1>2, <1>8 DEF SearchOK, Members, Bytes!Calls

(****************************************************************************)
(* The invariant of the replay.                                             *)
(****************************************************************************)

\* A value is replayed with a type, what is awaited is the result for one of
\* the values, and after a load through a pointer.
ReplayOK ==
    /\ pc # "idle" => type \in Node
    /\ pc \in {"gep", "load_first_member", "load_tbaa", "store_first_member"} => position > 0
    /\ pc \in {"load_first_member", "load_tbaa"} =>
          current_value.op = "load" /\ ~program.fortran /\ ~load_keeps_type

\* GEP runs only while the replay waits for it, and counts in composites.
GepOK ==
    /\ phase # "none" => pc = "gep" /\ root \in Node /\ inst \in PathValue /\ inst.indices # <<>>
    /\ phase \in {"bytes", "skip", "iterate"} => composite_type \in Node

TypeInv ==
    /\ graph \in Graphs /\ program \in CallPaths(graph)
    /\ TypeOK /\ SearchOK /\ ReplayOK /\ GepOK

LEMMA PathTypes ==
    ASSUME TypeInv
    PROVE  /\ program \in CallPath
           /\ Len(program.path) \in Nat /\ position \in Nat
           /\ position > 0 =>
                 /\ current_value \in PathValue
                 /\ is_gep(current_value) => current_value.indices # <<>>
<1>1. program \in CallPath /\ program.path \in Seq(PathValue)
  BY CallPathsAssumption DEF TypeInv, CallPath
<1>2. Len(program.path) \in Nat /\ DOMAIN program.path = 1 .. Len(program.path)
  BY <1>1
<1>3. position \in 0 .. Len(program.path)
  BY DEF TypeInv, TypeOK
<1>4. ASSUME position > 0
      PROVE  position \in DOMAIN program.path
  <2> DEFINE n == Len(program.path)
  <2> HIDE DEF n
  <2> QED BY <1>2, <1>3, <1>4
<1>5. ASSUME position > 0
      PROVE  current_value \in PathValue
  BY <1>1, <1>4, <1>5 DEF current_value
<1>6. ASSUME position > 0, is_gep(current_value)
      PROVE  current_value.indices # <<>>
  BY <1>4, <1>6, CallPathsAssumption DEF TypeInv, current_value, is_gep
<1> QED BY <1>1, <1>2, <1>3, <1>5, <1>6

LEMMA TypeInit == Init => TypeInv
<1> SUFFICES ASSUME Init PROVE TypeInv
  OBVIOUS
<1> USE DEF Init
<1>1. graph \in Graphs /\ program \in CallPaths(graph)
  OBVIOUS
<1>2. 0 \in 0 .. Len(program.path)
  <2>1. Len(program.path) \in Nat
    BY <1>1, CallPathsAssumption DEF CallPath
  <2> DEFINE n == Len(program.path)
  <2> HIDE DEF n
  <2> QED BY <2>1
<1>3. TypeOK
  <2>1. GepTypeOK
    BY DEF GepInit, GepTypeOK
  <2>2. logged_dipath \in Seq(Node \cup {NoNode})
    OBVIOUS
  <2> QED BY <1>2, <2>1, <2>2 DEF TypeOK
<1>4. SearchOK
  BY DEF Bytes!Idle, SearchOK
<1>5. ReplayOK
  BY DEF ReplayOK
<1>6. GepOK
  BY DEF GepInit, GepOK
<1> QED BY <1>1, <1>3, <1>4, <1>5, <1>6 DEF TypeInv

(****************************************************************************)
(* The log.                                                                 *)
(****************************************************************************)

LEMMA LogEnds ==
    ASSUME NEW log \in Seq(Node \cup {NoNode}), log # <<>>
    PROVE  Last(log) \in Node \cup {NoNode}
<1> DEFINE n == Len(log)
<1>1. n \in Nat /\ n # 0
  BY EmptySeq, LenProperties
<1>2. n \in 1 .. n
  <2> HIDE DEF n
  <2> QED BY <1>1
<1> QED BY <1>1, <1>2, ElementOfSeq DEF Last

LEMMA LogGrows ==
    ASSUME NEW log \in Seq(Node \cup {NoNode}), NEW mapped \in Node \cup {NoNode}
    PROVE  LET longer == Append(log, mapped)
           IN  /\ longer \in Seq(Node \cup {NoNode}) /\ longer # <<>>
               /\ Len(longer) = Len(log) + 1 /\ Last(longer) = mapped
<1> DEFINE longer == Append(log, mapped)
           n == Len(log)
<1>1. /\ longer \in Seq(Node \cup {NoNode}) /\ n \in Nat
      /\ Len(longer) = n + 1 /\ longer[n + 1] = mapped
  BY AppendProperties, LenProperties
<1>2. longer # <<>>
  <2> HIDE DEF n, longer
  <2> QED BY <1>1
<1> QED BY <1>1, <1>2 DEF Last

(****************************************************************************)
(* The steps of the replay.                                                 *)
(****************************************************************************)

LEMMA LogKeeps ==
    ASSUME TypeInv, position > 0, NEW mapped \in Node \cup {NoNode}, NEW new_type \in Node,
           Log(mapped, new_type), UNCHANGED <<bytesVars, gepVars>>, phase = "none"
    PROVE  TypeInv'
<1>1. UNCHANGED <<graph, program, answer>> /\ type' = new_type /\ position' = position - 1 /\ pc' = "replay"
  BY DEF Log, Continue
<1>2. position' \in 0 .. Len(program.path)
  <2>1. position \in 0 .. Len(program.path) /\ Len(program.path) \in Nat
    BY PathTypes DEF TypeInv, TypeOK
  <2> DEFINE n == Len(program.path)
  <2> HIDE DEF n
  <2> QED BY <1>1, <2>1
<1>3. logged_dipath' \in Seq(Node \cup {NoNode})
  BY AppendProperties DEF Log, TypeInv, TypeOK
<1>4. GepTypeOK'
  BY DEF gepVars, GepTypeOK, TypeInv, TypeOK
<1>5. TypeOK'
  BY <1>1, <1>2, <1>3, <1>4, NodeAssumption DEF TypeInv, TypeOK
<1>6. SearchOK'
  BY <1>1 DEF bytesVars, SearchOK, Members, TypeInv, Bytes!Calls
<1>7. ReplayOK'
  BY <1>1 DEF ReplayOK
<1>8. GepOK'
  BY <1>1 DEF gepVars, GepOK, TypeInv
<1> QED BY <1>1, <1>5, <1>6, <1>7, <1>8 DEF TypeInv

LEMMA ResetKeeps ==
    ASSUME TypeInv, position > 0, NEW new_type \in Node, Reset(new_type),
           UNCHANGED <<bytesVars, gepVars>>, phase = "none"
    PROVE  TypeInv'
BY LogKeeps DEF Reset

\* A search begins, for a member that the replay waits for.
LEMMA AwaitKeeps ==
    ASSUME TypeInv, NEW what \in {"load_first_member", "load_tbaa", "store_first_member", "store_tbaa"},
           NEW composite \in Node, NEW offset, Await(what, composite, offset), pc # "idle",
           pc # "gep", what # "store_tbaa" => position > 0,
           what \in {"load_first_member", "load_tbaa"} =>
              current_value.op = "load" /\ ~program.fortran /\ ~load_keeps_type
    PROVE  TypeInv'
<1>1. UNCHANGED <<program, position, type, logged_dipath, answer, gepVars>> /\ pc' = what
  BY DEF Await, Continue
<1>2. SearchOK' /\ graph' = graph
  BY SearchStarts DEF Await
<1>3. GepTypeOK'
  BY <1>1 DEF gepVars, GepTypeOK, TypeInv, TypeOK
<1>4. TypeOK'
  BY <1>1, <1>3 DEF TypeInv, TypeOK
<1>5. phase = "none"
  BY DEF TypeInv, GepOK
<1>6. ReplayOK'
  BY <1>1, <1>2 DEF TypeInv, ReplayOK, current_value, load_keeps_type, loads_variable, pointer_operand
<1>7. GepOK'
  BY <1>1, <1>2, <1>5 DEF gepVars, GepOK
<1> QED BY <1>1, <1>2, <1>4, <1>6, <1>7 DEF TypeInv

LEMMA ReturnKeeps ==
    ASSUME TypeInv, NEW log \in Seq(Node \cup {NoNode}), Return(log), pc # "gep"
    PROVE  TypeInv'
<1>1. /\ UNCHANGED <<graph, program, position, type>> /\ pc' = "idle"
      /\ answer' = final_type(log) /\ logged_dipath' = log
  BY DEF Return, Continue
<1>2. UNCHANGED <<gepVars, bytesVars>> /\ phase = "none"
  BY DEF Return, TypeInv, GepOK
<1>3. GepTypeOK'
  BY <1>2 DEF gepVars, GepTypeOK, TypeInv, TypeOK
<1>4. final_type(log) \in Node \cup {NoNode}
  BY LogEnds DEF final_type
<1>5. TypeOK'
  BY <1>1, <1>3, <1>4 DEF TypeInv, TypeOK
<1>6. SearchOK'
  BY <1>1, <1>2 DEF bytesVars, SearchOK, Members, TypeInv, Bytes!Calls
<1>7. ReplayOK' /\ GepOK'
  BY <1>1, <1>2 DEF gepVars, ReplayOK, GepOK
<1> QED BY <1>1, <1>5, <1>6, <1>7 DEF TypeInv

(****************************************************************************)
(* The steps of GEP.                                                        *)
(****************************************************************************)

\* What a step of GEP leaves alone, and that it goes on from where it may be.
GepStep ==
    /\ TypeInv /\ pc = "gep" /\ phase # "none"
    /\ UNCHANGED extractionVars /\ UNCHANGED <<graph, program>>

LEMMA GepStepKeeps ==
    ASSUME GepStep, GepTypeOK', SearchOK', GepOK'
    PROVE  TypeInv'
<1>1. UNCHANGED <<graph, program, position, type, logged_dipath, pc, answer>>
  BY DEF GepStep, extractionVars
<1>2. TypeOK'
  BY <1>1 DEF GepStep, TypeInv, TypeOK
<1>3. ReplayOK'
  BY <1>1 DEF GepStep, TypeInv, ReplayOK
<1> QED BY <1>1, <1>2, <1>3 DEF GepStep, TypeInv

LEMMA SameSearch ==
    ASSUME GepStep, UNCHANGED bytesVars
    PROVE  SearchOK'
<1>1. graph' = graph
  BY DEF GepStep
<1> QED BY <1>1 DEF GepStep, bytesVars, SearchOK, Members, TypeInv, Bytes!Calls

\* GEP returns types of the graph.
LEMMA FoundKeeps ==
    ASSUME GepStep, NEW new_type \in Type, NEW member \in Type, Found(new_type, member)
    PROVE  TypeInv'
<1>1. /\ phase' = "none" /\ found' = [type |-> new_type, member |-> member]
      /\ UNCHANGED <<root, inst, composite_type, indices_, bytesVars>>
  BY DEF Found
<1>2. GepTypeOK'
  <2>1. GepTypeOK /\ {new_type, member} \subseteq Node \cup {NoNode}
    BY DEF GepStep, TypeInv, TypeOK, Type
  <2>2. indices_' \in Seq(Nat)
    BY <1>1, <2>1 DEF GepTypeOK
  <2>3. {root', composite_type', found'.type, found'.member} \subseteq Node \cup {NoNode}
    BY <1>1, <2>1 DEF GepTypeOK
  <2> QED BY <1>1, <2>2, <2>3 DEF GepTypeOK
<1>3. GepOK'
  BY <1>1 DEF GepOK
<1> QED BY <1>1, <1>2, <1>3, SameSearch, GepStepKeeps

LEMMA CompositeRoot ==
    ASSUME EveryTypeEnds, GepStep
    PROVE  /\ graph \in Graphs /\ root \in Node /\ graph.base[root] \in Type
           /\ composite_root \in Type /\ (composite_root # NoNode => isComposite(composite_root))
<1>1. graph \in Graphs /\ root \in Node /\ root \in Type
  BY DEF GepStep, TypeInv, GepOK, Type
<1>2. find_non_derived_type_unless({}, root) \in Type
  BY <1>1, NonDerived
<1>3. graph.base[root] \in Type
  BY <1>1, GraphTypes
<1> QED BY <1>1, <1>2, <1>3 DEF composite_root, Type

LEMMA RootFound ==
    ASSUME EveryTypeEnds, GepStep,
           gep_inlined_operator \/ gep_root \/ gep_array_like \/ gep_no_constant_index
    PROVE  TypeInv'
<1>1. /\ graph \in Graphs /\ root \in Type /\ NoNode \in Type /\ graph.base[root] \in Type
      /\ composite_root \in Type /\ inst.inlined \in Type
  BY CompositeRoot DEF GepStep, TypeInv, GepOK, PathValue, Type
<1>2. CASE gep_inlined_operator
  <2>1. find_non_derived_type_unless({"pointer"}, inst.inlined) \in Type
    BY <1>1, NonDerived
  <2> QED BY <1>1, <1>2, <2>1, FoundKeeps DEF gep_inlined_operator
<1>3. CASE gep_root
  BY <1>1, <1>3, FoundKeeps DEF gep_root
<1>4. CASE gep_array_like
  BY <1>1, <1>4, FoundKeeps DEF gep_array_like
<1>5. CASE gep_no_constant_index
  <2> DEFINE type_found == IF tagOf(composite_root) = "array" THEN graph.base[composite_root] ELSE composite_root
  <2>1. composite_root \in Node
    BY <1>1, <1>5 DEF gep_no_constant_index, resolvesIndices, Type
  <2>2. type_found \in Type
    BY <1>1, <2>1, GraphTypes
  <2>3. Found(type_found, NoNode)
    BY <1>5 DEF gep_no_constant_index
  <2> HIDE DEF type_found
  <2> QED BY <1>1, <2>2, <2>3, FoundKeeps
<1> QED BY <1>2, <1>3, <1>4, <1>5

LEMMA BytesKeep ==
    ASSUME EveryTypeEnds, GepStep, gep_bytes \/ gep_bytes_resolve \/ gep_bytes_found
    PROVE  TypeInv'
<1>1. GepTypeOK /\ GepOK /\ SearchOK /\ graph \in Graphs /\ pc' = "gep"
  BY DEF GepStep, TypeInv, TypeOK, extractionVars
<1>2. CASE gep_bytes
  <2>1. composite_root \in Node
    BY <1>2, CompositeRoot DEF gep_bytes, resolvesIndices, Type
  <2>2. SearchOK'
    BY <1>2, <2>1, SearchStarts DEF gep_bytes
  <2>3. phase' = "bytes" /\ composite_type' = composite_root /\ UNCHANGED <<root, inst, indices_, found>>
    BY <1>2 DEF gep_bytes
  <2>4. GepTypeOK' /\ GepOK'
    BY <1>1, <2>1, <2>3 DEF GepTypeOK, GepOK, GepStep
  <2> QED BY <2>2, <2>4, GepStepKeeps
<1>3. CASE gep_bytes_resolve
  <2>1. SearchOK'
    BY <1>1, <1>3, SearchStep DEF gep_bytes_resolve
  <2>2. UNCHANGED gepVars
    BY <1>3 DEF gep_bytes_resolve
  <2>3. GepTypeOK' /\ GepOK'
    BY <1>1, <2>2 DEF gepVars, GepTypeOK, GepOK
  <2> QED BY <2>1, <2>3, GepStepKeeps
<1>4. CASE gep_bytes_found
  <2>1. composite_type \in Type /\ NoNode \in Type
    BY <1>1 DEF GepTypeOK, Type
  <2>2. CASE outermost_candidate_ = NoNode
    BY <1>4, <2>1, <2>2, FoundKeeps DEF gep_bytes_found
  <2>3. CASE outermost_candidate_ # NoNode
    <3>1. outermost_candidate_ \in Node
      BY <1>1, <2>3 DEF SearchOK, Members
    <3>2. graph.base[outermost_candidate_] \in Type /\ outermost_candidate_ \in Type
      BY <1>1, <3>1, GraphTypes DEF Type
    <3> QED BY <1>4, <2>3, <3>2, FoundKeeps DEF gep_bytes_found
  <2> QED BY <2>2, <2>3
<1> QED BY <1>2, <1>3, <1>4

LEMMA IndicesKeep ==
    ASSUME EveryTypeEnds, GepStep, gep_indices
    PROVE  TypeInv'
<1>1. GepTypeOK /\ GepOK /\ pc' = "gep"
  BY DEF GepStep, TypeInv, TypeOK, extractionVars
<1>2. composite_root \in Node
  BY CompositeRoot DEF gep_indices, resolvesIndices, Type
<1>3. create_indices \in Seq(Nat)
  <2>1. inst.indices \in Seq(Nat \cup {dynamic}) /\ inst.indices # <<>>
    BY <1>1 DEF GepStep, GepOK, PathValue
  <2> QED BY <2>1, CreatedIndices
<1>4. /\ phase' \in {"skip", "iterate"} /\ composite_type' = composite_root /\ indices_' = create_indices
      /\ UNCHANGED <<root, inst, found>> /\ UNCHANGED bytesVars
  BY DEF gep_indices
<1>5. GepTypeOK' /\ GepOK'
  BY <1>1, <1>2, <1>3, <1>4 DEF GepTypeOK, GepOK, GepStep
<1> QED BY <1>4, <1>5, SameSearch, GepStepKeeps

\* The only member of a struct is there: its elements are not empty.
LEMMA NextComposite ==
    ASSUME EveryTypeEnds, graph \in Graphs, composite_type \in Node
    PROVE  next_composite \in Node
<1> DEFINE n == Len(elementsOf(composite_type))
           below == find_non_derived_type_unless_ptr(first_element(composite_type))
<1>1. n \in Nat /\ DOMAIN elementsOf(composite_type) = 1 .. n
  BY ElementTypes
<1>2. CASE n > 0
  <2>1. first_element(composite_type) \in Type
    BY <1>2, FirstElement DEF Type
  <2>2. below \in Type
    BY <2>1, NonDerived DEF find_non_derived_type_unless_ptr
  <2>3. isComposite(below) => below # NoNode
    BY DEF isComposite, tagOf
  <2> HIDE DEF below
  <2>4. next_composite \in {below, composite_type} /\ (next_composite # composite_type => isComposite(below))
    BY DEF next_composite, below
  <2> QED BY <2>2, <2>3, <2>4 DEF Type
<1>3. CASE ~(n > 0)
  <2>1. non_static_members(composite_type) = {}
    <3>1. DOMAIN elementsOf(composite_type) = {}
      <4> HIDE DEF n
      <4> QED BY <1>1, <1>3
    <3> QED BY <3>1 DEF non_static_members, elementSet
  <2>2. Cardinality(non_static_members(composite_type)) # 1
    BY <2>1, FS_EmptySet
  <2> QED BY <2>2 DEF next_composite
<1> QED BY <1>2, <1>3

LEMMA SkipKeeps ==
    ASSUME EveryTypeEnds, GepStep, skip_first_gep_access
    PROVE  TypeInv'
<1>1. GepTypeOK /\ GepOK /\ pc' = "gep" /\ graph \in Graphs
  BY DEF GepStep, TypeInv, TypeOK, extractionVars
<1>2. composite_type \in Node
  BY <1>1 DEF GepOK, skip_first_gep_access
<1>3. next_composite \in Node
  BY <1>1, <1>2, NextComposite
<1>4. /\ phase' \in {"skip", "iterate"} /\ composite_type' = next_composite
      /\ UNCHANGED <<root, inst, indices_, found>> /\ UNCHANGED bytesVars
  BY DEF skip_first_gep_access
<1>5. GepTypeOK' /\ GepOK'
  BY <1>1, <1>3, <1>4 DEF GepTypeOK, GepOK, GepStep
<1> QED BY <1>4, <1>5, SameSearch, GepStepKeeps

\* The member that is iterated to and the type below it.
LEMMA MemberType ==
    ASSUME EveryTypeEnds, GepStep, iterates, tagOf(element) \in Derived
    PROVE  element \in Node /\ member_type \in Type
<1>1. graph \in Graphs /\ composite_type \in Node /\ indices_ \in Seq(Nat)
  BY DEF GepStep, TypeInv, TypeOK, GepTypeOK, GepOK, iterates
<1>2. gep_index \in Nat /\ gep_index < Len(elementsOf(composite_type))
  BY <1>1, HeadTailProperties DEF gep_index, iterates
<1>3. element \in Type
  BY <1>1, <1>2, ElementFound
<1>4. element \in Node
  BY <1>3 DEF Type, tagOf, Derived
<1>5. graph.base[element] \in Type
  BY <1>1, <1>4, GraphTypes
<1> QED BY <1>1, <1>4, <1>5, NonDerived DEF member_type, find_non_derived_type_unless_ptr

LEMMA IterateKeeps ==
    ASSUME EveryTypeEnds, GepStep, iterate_struct \/ iterate_member \/ iterate_other \/ iterate_end
    PROVE  TypeInv'
<1>1. GepTypeOK /\ GepOK /\ pc' = "gep" /\ graph \in Graphs
  BY DEF GepStep, TypeInv, TypeOK, extractionVars
<1>2. ASSUME iterates
      PROVE  Tail(indices_) \in Seq(Nat)
  BY <1>1, <1>2, HeadTailProperties DEF GepTypeOK, iterates
<1>3. CASE iterate_struct
  <2>1. member_type \in Node
    BY <1>3, MemberType DEF iterate_struct, isStructOrClass, tagOf, Type
  <2>2. /\ composite_type' = member_type /\ indices_' = Tail(indices_) /\ iterates
        /\ UNCHANGED <<phase, root, inst, found>> /\ UNCHANGED bytesVars
    BY <1>3 DEF iterate_struct
  <2>3. GepTypeOK' /\ GepOK'
    BY <1>1, <1>2, <2>1, <2>2 DEF GepTypeOK, GepOK, GepStep
  <2> QED BY <2>2, <2>3, SameSearch, GepStepKeeps
<1>4. CASE iterate_member
  <2> DEFINE type_found == IF tagOf(member_type) = "array" /\ hasNext THEN graph.base[member_type] ELSE member_type
  <2>1. element \in Type /\ member_type \in Type
    BY <1>4, MemberType DEF iterate_member, Type
  <2>2. type_found \in Type
    <3>1. tagOf(member_type) = "array" => member_type \in Node
      BY <2>1 DEF Type, tagOf
    <3> QED BY <1>1, <2>1, <3>1, GraphTypes
  <2>3. Found(type_found, element)
    BY <1>4 DEF iterate_member
  <2> HIDE DEF type_found
  <2> QED BY <2>1, <2>2, <2>3, FoundKeeps
<1>5. CASE iterate_other
  <2>1. /\ indices_' = Tail(indices_) /\ iterates
        /\ UNCHANGED <<phase, root, inst, composite_type, found>> /\ UNCHANGED bytesVars
    BY <1>5 DEF iterate_other
  <2>2. GepTypeOK' /\ GepOK'
    BY <1>1, <1>2, <2>1 DEF GepTypeOK, GepOK, GepStep
  <2> QED BY <2>1, <2>2, SameSearch, GepStepKeeps
<1>6. CASE iterate_end
  BY <1>6, FoundKeeps DEF iterate_end, Type
<1> QED BY <1>3, <1>4, <1>5, <1>6

LEMMA GepKeeps ==
    ASSUME EveryTypeEnds, TypeInv, gep_step
    PROVE  TypeInv'
<1>1. GepStep /\ GepNext
  BY DEF gep_step, GepStep, Continue
<1> QED BY <1>1, RootFound, BytesKeep, IndicesKeep, SkipKeeps, IterateKeeps DEF GepNext

(****************************************************************************)
(* The other steps.                                                         *)
(****************************************************************************)

\* What derived types, arrays and members are made of.
LEMMA BaseTypes ==
    ASSUME EveryTypeEnds, TypeInv, pc # "idle"
    PROVE  /\ graph \in Graphs /\ type \in Node /\ desugar(type) \in Type /\ graph.base[type] \in Type
           /\ is_array(type) \/ is_member(type) => graph.base[type] \in Node
           /\ is_array_member(type) => graph.base[graph.base[type]] \in Node
           /\ assigned \in Node
<1>1. graph \in Graphs /\ type \in Node
  BY DEF TypeInv, ReplayOK
<1>2. desugar(type) \in Type /\ graph.base[type] \in Type
  BY <1>1, Desugared, GraphTypes DEF Type
<1>3. is_array(type) \/ is_member(type) => graph.base[type] \in Node
  BY <1>1, GraphTypes DEF is_array, is_member
<1>4. is_array_member(type) => graph.base[graph.base[type]] \in Node
  <2> SUFFICES ASSUME is_array_member(type) PROVE graph.base[graph.base[type]] \in Node
    OBVIOUS
  <2>1. graph.base[type] \in Node /\ tagOf(graph.base[type]) = "array"
    BY <1>3 DEF is_array_member, is_array
  <2> QED BY <1>1, <2>1, GraphTypes
<1>5. assigned \in Node
  <2>1. CASE is_array_member(type)
    <3>1. graph.base[type] \in Node /\ graph.base[graph.base[type]] \in Node
      BY <1>3, <1>4, <2>1 DEF is_array_member
    <3>2. ~(tagOf(type) = "member" /\ ~is_array_member(type)) /\ ~is_pointer(type)
      BY <2>1 DEF is_array_member, is_member, is_pointer
    <3> QED BY <2>1, <3>1, <3>2 DEF assigned
  <2>2. CASE ~is_array_member(type) /\ tagOf(type) = "member"
    BY <1>3, <2>2 DEF assigned, is_member, is_pointer
  <2>3. CASE ~is_array_member(type) /\ tagOf(type) # "member" /\ is_pointer(type) /\ is_pointer(graph.base[type])
    <3>1. graph.base[type] \in Node
      BY <1>2, <2>3 DEF is_pointer, tagOf, Type
    <3> QED BY <2>3, <3>1 DEF assigned
  <2>4. CASE ~is_array_member(type) /\ tagOf(type) # "member" /\ ~(is_pointer(type) /\ is_pointer(graph.base[type]))
    BY <1>1, <2>4 DEF assigned
  <2> QED BY <2>1, <2>2, <2>3, <2>4
<1> QED BY <1>1, <1>2, <1>3, <1>4, <1>5

LEMMA NoGepOutside ==
    ASSUME TypeInv, pc # "gep"
    PROVE  phase = "none"
BY DEF TypeInv, GepOK

LEMMA CallKeeps ==
    ASSUME TypeInv, find_type
    PROVE  TypeInv'
<1>1. /\ UNCHANGED <<graph, program, gepVars, bytesVars>> /\ phase = "none"
      /\ type' = program.root /\ position' = Len(program.path) /\ logged_dipath' = <<>>
      /\ \/ program.root = NoNode /\ answer' = NoNode /\ pc' = "idle"
         \/ program.root # NoNode /\ answer' = answer /\ pc' = "replay"
  BY NoGepOutside DEF find_type, Continue
<1>2. program.root \in Type /\ Len(program.path) \in Nat
  BY PathTypes DEF CallPath, Type
<1>3. TypeOK'
  <2>1. GepTypeOK'
    BY <1>1 DEF gepVars, GepTypeOK, TypeInv, TypeOK
  <2>2. Len(program.path) \in 0 .. Len(program.path)
    <3> DEFINE n == Len(program.path)
    <3> HIDE DEF n
    <3> QED BY <1>2
  <2>3. position' \in 0 .. Len(program'.path)
    BY <1>1, <2>2
  <2>4. {type', answer'} \subseteq Node \cup {NoNode}
    BY <1>1, <1>2 DEF TypeInv, TypeOK, Type
  <2>5. logged_dipath' \in Seq(Node \cup {NoNode})
    BY <1>1
  <2> QED BY <1>1, <2>1, <2>3, <2>4, <2>5 DEF TypeOK
<1>4. SearchOK'
  BY <1>1 DEF bytesVars, SearchOK, Members, TypeInv, Bytes!Calls
<1>5. ReplayOK' /\ GepOK'
  BY <1>1, <1>2 DEF gepVars, ReplayOK, GepOK, Type
<1> QED BY <1>1, <1>3, <1>4, <1>5 DEF TypeInv

LEMMA ResetGepKeeps ==
    ASSUME TypeInv, reset_gep
    PROVE  TypeInv'
<1>1. /\ phase' = "extract" /\ root' = type /\ inst' = current_value /\ pc' = "gep"
      /\ UNCHANGED <<composite_type, indices_, found, bytesVars>>
      /\ UNCHANGED <<graph, program, position, type, logged_dipath, answer>>
  BY DEF reset_gep, extract_gep_dereferenced_type, Continue
<1>2. /\ type \in Node /\ position > 0 /\ is_gep(current_value)
  BY DEF reset_gep, TypeInv, ReplayOK
<1>3. GepTypeOK'
  BY <1>1, <1>2 DEF GepTypeOK, TypeInv, TypeOK
<1>4. TypeOK'
  BY <1>1, <1>2, <1>3, NodeAssumption DEF TypeInv, TypeOK
<1>5. SearchOK'
  BY <1>1 DEF bytesVars, SearchOK, Members, TypeInv, Bytes!Calls
<1>6. ReplayOK'
  BY <1>1, <1>2 DEF ReplayOK
<1>7. GepOK'
  BY <1>1, <1>2, PathTypes DEF GepOK
<1> QED BY <1>1, <1>4, <1>5, <1>6, <1>7 DEF TypeInv

LEMMA GepResultKeeps ==
    ASSUME TypeInv, gep_result
    PROVE  TypeInv'
<1>1. type \in Node /\ position > 0 /\ phase = "none" /\ {found.type, found.member} \subseteq Node \cup {NoNode}
  BY DEF gep_result, TypeInv, ReplayOK, TypeOK, GepTypeOK
<1>2. UNCHANGED <<bytesVars, gepVars>>
  BY DEF gep_result
<1>3. CASE found.member # NoNode /\ Reset(found.member)
  BY <1>1, <1>2, <1>3, ResetKeeps
<1>4. CASE found.type # NoNode /\ Reset(found.type)
  BY <1>1, <1>2, <1>4, ResetKeeps
<1>5. CASE Log(IF program.fortran THEN NoNode ELSE type, type)
  BY <1>1, <1>2, <1>5, LogKeeps
<1> QED BY <1>3, <1>4, <1>5 DEF gep_result

\* What is loaded, when there is something behind the pointer.
LEMMA LoadBaseKeeps ==
    ASSUME EveryTypeEnds, TypeInv, pc \in {"replay", "load_first_member"}, position > 0,
           current_value.op = "load", ~program.fortran, ~load_keeps_type, NoVoidLoaded, load_base
    PROVE  TypeInv'
<1>1. base_loaded \in Node
  BY BaseTypes DEF base_loaded, NoVoidLoaded, Type
<1>2. CASE load_access = NoAccess
  BY <1>1, <1>2, NoGepOutside, ResetKeeps DEF load_base
<1>3. CASE load_access # NoAccess
  <2>1. load_access = tbaa_access(base_loaded, current_value.tbaa)
    BY <1>3 DEF load_access
  <2>2. load_access.composite \in Node
    BY <1>1, <1>3, <2>1, AccessTypes, BaseTypes DEF Type
  <2>3. Await("load_tbaa", load_access.composite, load_access.offset)
    BY <1>3 DEF load_base
  <2> QED BY <2>2, <2>3, AwaitKeeps
<1> QED BY <1>2, <1>3

LEMMA LoadKeeps ==
    ASSUME EveryTypeEnds, TypeInv, NoVoidLoaded,
           reset_load_same \/ reset_load_element \/ reset_load_first_member \/ reset_load_base
    PROVE  TypeInv'
<1>1. /\ pc = "replay" /\ position > 0 /\ current_value.op = "load" /\ ~program.fortran
      /\ phase = "none"
  BY NoGepOutside
     DEF reset_load_same, reset_load_element, reset_load_first_member, reset_load_base,
         ordinary_load, Loads, Replays
<1>2. CASE reset_load_same
  BY <1>1, <1>2, BaseTypes, ResetKeeps DEF reset_load_same
<1>3. CASE reset_load_element
  BY <1>1, <1>3, BaseTypes, ResetKeeps DEF reset_load_element
<1>4. CASE reset_load_first_member
  <2>1. desugar(type) \in Node /\ ~load_keeps_type /\ Await("load_first_member", desugar(type), 0)
    BY <1>1, <1>4, BaseTypes DEF reset_load_first_member, ordinary_load, try_resolve_to_first_member, Type
  <2> QED BY <1>1, <2>1, AwaitKeeps
<1>5. CASE reset_load_base
  <2>1. ~load_keeps_type /\ load_base
    BY <1>5 DEF reset_load_base, ordinary_load
  <2> QED BY <1>1, <2>1, LoadBaseKeeps
<1> QED BY <1>2, <1>3, <1>4, <1>5

LEMMA StoreKeeps ==
    ASSUME EveryTypeEnds, TypeInv, reset_skip \/ reset_store_element \/ reset_store_first_member \/ reset_store
    PROVE  TypeInv'
<1>1. pc = "replay" /\ position > 0 /\ phase = "none"
  BY NoGepOutside DEF reset_skip, reset_store_element, reset_store_first_member, reset_store, Stores, Replays
<1>2. CASE reset_skip
  BY <1>1, <1>2, BaseTypes, ResetKeeps DEF reset_skip
<1>3. CASE reset_store_element
  BY <1>1, <1>3, BaseTypes, ResetKeeps DEF reset_store_element
<1>4. CASE reset_store_first_member
  <2>1. desugar(type) \in Node /\ Await("store_first_member", desugar(type), 0)
    BY <1>1, <1>4, BaseTypes DEF reset_store_first_member, stores_to_first_member, Type
  <2> QED BY <1>1, <2>1, AwaitKeeps
<1>5. CASE reset_store
  BY <1>1, <1>5, BaseTypes, ResetKeeps DEF reset_store
<1> QED BY <1>2, <1>3, <1>4, <1>5

LEMMA ResolveKeeps ==
    ASSUME TypeInv, resolve_step
    PROVE  TypeInv'
<1>1. SearchOK' /\ graph' = graph
  BY SearchStep DEF resolve_step, TypeInv
<1>2. UNCHANGED <<program, position, type, logged_dipath, pc, answer>> /\ UNCHANGED gepVars
  BY DEF resolve_step, Continue, extractionVars
<1>3. GepTypeOK' /\ GepOK'
  BY <1>2 DEF gepVars, GepTypeOK, GepOK, TypeInv, TypeOK
<1>4. TypeOK'
  BY <1>2, <1>3 DEF TypeInv, TypeOK
<1>5. ReplayOK'
  BY <1>1, <1>2 DEF TypeInv, ReplayOK, current_value, load_keeps_type, loads_variable, pointer_operand
<1> QED BY <1>1, <1>2, <1>3, <1>4, <1>5 DEF TypeInv

LEMMA TypeOfMember ==
    ASSUME TypeInv, outermost_candidate_ # NoNode
    PROVE  type_of_member \in Node
<1>1. outermost_candidate_ \in Node /\ tagOf(outermost_candidate_) = "member"
  BY GraphTypes DEF TypeInv, SearchOK, Members
<1> QED BY <1>1, GraphTypes DEF TypeInv, type_of_member

LEMMA ResolvedKeeps ==
    ASSUME EveryTypeEnds, TypeInv, NoVoidLoaded, resolved_member \/ resolved_vptr \/ no_member_resolved
    PROVE  TypeInv'
<1>1. /\ pc \in {"load_first_member", "load_tbaa", "store_first_member"} /\ position > 0 /\ phase = "none"
      /\ type \in Node
      /\ pc \in {"load_first_member", "load_tbaa"} =>
            current_value.op = "load" /\ ~program.fortran /\ ~load_keeps_type
  BY DEF resolved_member, resolved_vptr, no_member_resolved, Awaits, TypeInv, ReplayOK, GepOK
<1>2. CASE resolved_member
  BY <1>1, <1>2, TypeOfMember, ResetKeeps DEF resolved_member
<1>3. CASE resolved_vptr
  BY <1>1, <1>3, ResetKeeps DEF resolved_vptr
<1>4. CASE Awaits("load_first_member") /\ load_base
  BY <1>1, <1>4, LoadBaseKeeps DEF Awaits
<1>5. CASE Awaits("load_tbaa") /\ Reset(base_loaded) /\ UNCHANGED <<gepVars, bytesVars>>
  <2>1. base_loaded \in Node
    BY <1>1, <1>5, BaseTypes DEF Awaits, base_loaded, NoVoidLoaded, Type
  <2> QED BY <1>1, <1>5, <2>1, ResetKeeps
<1>6. CASE Awaits("store_first_member") /\ Reset(assigned) /\ UNCHANGED <<gepVars, bytesVars>>
  BY <1>1, <1>6, BaseTypes, ResetKeeps
<1> QED BY <1>2, <1>3, <1>4, <1>5, <1>6 DEF no_member_resolved

LEMMA DoneKeeps ==
    ASSUME EveryTypeEnds, TypeInv,
           find_type_done \/ find_type_tbaa \/ fortran_first_member \/ find_type_refined
    PROVE  TypeInv'
<1>1. pc \in {"replay", "store_tbaa"} /\ type \in Node /\ logged_dipath \in Seq(Node \cup {NoNode})
  BY DEF find_type_done, find_type_tbaa, fortran_first_member, find_type_refined, Replayed, Awaits,
         TypeInv, ReplayOK, TypeOK
<1>2. CASE find_type_done
  <2> DEFINE log == IF refines THEN Append(logged_dipath, type) ELSE logged_dipath
  <2>1. log \in Seq(Node \cup {NoNode})
    BY <1>1, LogGrows
  <2>2. Return(log)
    BY <1>2 DEF find_type_done
  <2> HIDE DEF log
  <2> QED BY <1>1, <2>1, <2>2, ReturnKeeps
<1>3. CASE find_type_tbaa
  <2>1. final_access # NoAccess /\ Await("store_tbaa", final_access.composite, final_access.offset)
    BY <1>3 DEF find_type_tbaa
  <2>2. final_access = tbaa_access(type, program.path[1].tbaa)
    BY <2>1 DEF final_access
  <2>3. final_access.composite \in Node
    BY <1>1, <2>1, <2>2, AccessTypes DEF Type, TypeInv
  <2> QED BY <1>1, <2>1, <2>3, AwaitKeeps
<1>4. CASE fortran_first_member
  BY <1>1, <1>4, AwaitKeeps DEF fortran_first_member
<1>5. CASE find_type_refined
  <2>1. CASE outermost_candidate_ = NoNode
    <3>1. Return(logged_dipath)
      BY <1>5, <2>1 DEF find_type_refined
    <3> QED BY <1>1, <3>1, ReturnKeeps
  <2>2. CASE outermost_candidate_ # NoNode
    <3>1. type_of_member \in Node
      BY <2>2, TypeOfMember
    <3>2. Append(logged_dipath, type_of_member) \in Seq(Node \cup {NoNode})
      BY <1>1, <3>1, LogGrows
    <3>3. Return(Append(logged_dipath, type_of_member))
      BY <1>5, <2>2 DEF find_type_refined
    <3> QED BY <1>1, <3>2, <3>3, ReturnKeeps
  <2> QED BY <2>1, <2>2
<1> QED BY <1>2, <1>3, <1>4, <1>5

LEMMA TypeStep ==
    ASSUME EveryTypeEnds, TypeInv, NoVoidLoaded, [Next]_vars
    PROVE  TypeInv'
<1>1. CASE Next
  BY <1>1, CallKeeps, StoreKeeps, ResetGepKeeps, GepKeeps, GepResultKeeps, LoadKeeps, ResolveKeeps,
     ResolvedKeeps, DoneKeeps DEF Next, Replay
<1>2. CASE UNCHANGED vars
  BY <1>2 DEF vars, extractionVars, gepVars, bytesVars, TypeInv, TypeOK, GepTypeOK, SearchOK, Members,
     Bytes!Calls, ReplayOK, GepOK, current_value, load_keeps_type, loads_variable, pointer_operand
<1> QED BY <1>1, <1>2

LEMMA TypesHold ==
    ASSUME EveryTypeEnds
    PROVE  Spec /\ []NoVoidLoaded => []TypeInv
<1>1. Init => TypeInv
  BY TypeInit
<1>2. TypeInv /\ NoVoidLoaded /\ [Next]_vars => TypeInv'
  BY TypeStep
<1> QED BY <1>1, <1>2, PTL DEF Spec

\* Whatever the debug info and the path: when derived types end and nothing is
\* loaded through a void*, find_type maps every value of the path to a type, and
\* GEP, TBAA and the searches by offset never hand on a null one.
THEOREM ExtractionTypes ==
    ASSUME EveryTypeEnds
    PROVE  Spec /\ []NoVoidLoaded => []TypeOK
<1>1. TypeInv => TypeOK
  BY DEF TypeInv
<1> QED BY <1>1, TypesHold, PTL

(****************************************************************************)
(* Every value is mapped once.                                              *)
(****************************************************************************)

LEMMA LogInStep ==
    ASSUME TypeInv, PathInStep, pc # "idle", NEW mapped, NEW new_type, Log(mapped, new_type), TypeInv',
           mapped = new_type \/ (program.fortran /\ mapped = NoNode)
    PROVE  PathInStep'
<1>1. /\ type' = new_type /\ position' = position - 1 /\ pc' = "replay" /\ program' = program
      /\ logged_dipath' = Append(logged_dipath, mapped)
  BY DEF Log, Continue
<1>2. mapped \in Node \cup {NoNode}
  BY <1>1 DEF TypeInv, ReplayOK
<1>3. logged_dipath \in Seq(Node \cup {NoNode})
  BY DEF TypeInv, TypeOK
<1>4. Len(logged_dipath') + position' = Len(program'.path)
  <2> DEFINE n == Len(logged_dipath)
             total == Len(program.path)
  <2>1. n \in Nat /\ position \in Nat /\ total \in Nat /\ n + position = total
    BY <1>3, PathTypes, LenProperties DEF TypeInv, TypeOK, PathInStep
  <2>2. Len(logged_dipath') = n + 1
    BY <1>1, <1>2, <1>3, LogGrows
  <2>3. Len(program'.path) = total
    BY <1>1
  <2> HIDE DEF n, total
  <2> QED BY <1>1, <2>1, <2>2, <2>3
<1>5. Last(logged_dipath') = mapped
  BY <1>1, <1>2, <1>3, LogGrows
<1> QED BY <1>1, <1>4, <1>5 DEF PathInStep

LEMMA ResetInStep ==
    ASSUME TypeInv, PathInStep, pc # "idle", NEW new_type, Reset(new_type), TypeInv'
    PROVE  PathInStep'
BY LogInStep DEF Reset

\* Steps that wait for GEP or a search do not log.
LEMMA WaitingInStep ==
    ASSUME PathInStep, pc # "idle", pc' # "idle", UNCHANGED <<program, position, type, logged_dipath>>
    PROVE  PathInStep'
BY DEF PathInStep

\* The log that is answered from is what it was, or one entry longer.
LEMMA ReturnInStep ==
    ASSUME TypeInv, PathInStep, find_type_done \/ find_type_refined
    PROVE  PathInStep'
<1>1. pc # "idle" /\ type \in Node /\ logged_dipath \in Seq(Node \cup {NoNode})
  BY DEF find_type_done, find_type_refined, Replayed, Awaits, TypeInv, ReplayOK, TypeOK
<1>2. PICK log : Return(log) /\ (log = logged_dipath \/ \E last \in Node : log = Append(logged_dipath, last))
  <2>1. CASE find_type_done
    BY <1>1, <2>1 DEF find_type_done
  <2>2. CASE find_type_refined
    BY <2>2, TypeOfMember DEF find_type_refined
  <2> QED BY <2>1, <2>2
<1>3. Len(log) \in {Len(logged_dipath), Len(logged_dipath) + 1}
  BY <1>1, <1>2, LogGrows
<1>4. /\ program' = program /\ position' = position /\ logged_dipath' = log
      /\ pc' = "idle" /\ answer' = final_type(log)
  BY <1>2 DEF Return, Continue
<1>5. Len(log) + position \in {Len(program.path), Len(program.path) + 1}
  <2> DEFINE n == Len(logged_dipath)
             total == Len(program.path)
             longer == Len(log)
  <2>1. n \in Nat /\ position \in Nat /\ total \in Nat /\ n + position = total
    BY <1>1, PathTypes, LenProperties DEF TypeInv, TypeOK, PathInStep
  <2>2. longer \in {n, n + 1}
    BY <1>3
  <2> HIDE DEF n, total, longer
  <2>3. longer + position \in {total, total + 1}
    BY <2>1, <2>2
  <2> QED BY <2>3 DEF longer, total
<1> QED BY <1>4, <1>5 DEF PathInStep, final_type

LEMMA PathStep ==
    ASSUME TypeInv, TypeInv', PathInStep, [Next]_vars
    PROVE  PathInStep'
<1>1. CASE find_type
  <2>1. logged_dipath' = <<>> /\ position' = Len(program.path) /\ program' = program
    BY <1>1 DEF find_type, Continue
  <2>2. Len(logged_dipath') + position' = Len(program'.path)
    <3> DEFINE n == Len(program.path)
    <3>1. n \in Nat /\ Len(logged_dipath') = 0 /\ Len(program'.path) = n
      BY <2>1, PathTypes
    <3> HIDE DEF n
    <3> QED BY <2>1, <3>1
  <2>3. pc' = "idle" => answer' = final_type(logged_dipath')
    BY <1>1, <2>1 DEF find_type, final_type
  <2> QED BY <2>1, <2>2, <2>3 DEF PathInStep
<1>2. ASSUME pc # "idle", NEW new_type, Reset(new_type)
      PROVE  PathInStep'
  BY <1>2, ResetInStep
<1>3. ASSUME pc # "idle", NEW what \in {"load_first_member", "load_tbaa", "store_first_member", "store_tbaa"},
             NEW composite, NEW offset, Await(what, composite, offset)
      PROVE  PathInStep'
  BY <1>3, WaitingInStep DEF Await, Continue
<1>4. CASE reset_gep \/ gep_step \/ resolve_step
  <2>1. pc # "idle" /\ pc' # "idle" /\ UNCHANGED <<program, position, type, logged_dipath>>
    BY <1>4 DEF reset_gep, gep_step, resolve_step, Continue, extractionVars
  <2> QED BY <2>1, WaitingInStep
<1>5. CASE reset_skip \/ gep_result
  BY <1>2, <1>5, LogInStep DEF reset_skip, gep_result
<1>6. ASSUME pc # "idle", load_base
      PROVE  PathInStep'
  BY <1>2, <1>3, <1>6 DEF load_base
<1>7. CASE reset_load_same \/ reset_load_element \/ reset_load_first_member \/ reset_load_base
  <2>1. pc # "idle"
    BY <1>7 DEF reset_load_same, reset_load_element, reset_load_first_member, reset_load_base,
                ordinary_load, Loads, Replays
  <2> QED BY <1>2, <1>3, <1>6, <1>7, <2>1
          DEF reset_load_same, reset_load_element, reset_load_first_member, reset_load_base
<1>8. CASE reset_store_element \/ reset_store_first_member \/ reset_store
  <2>1. pc # "idle"
    BY <1>8 DEF reset_store_element, reset_store_first_member, reset_store, Stores, Replays
  <2> QED BY <1>2, <1>3, <1>8, <2>1 DEF reset_store_element, reset_store_first_member, reset_store
<1>9. CASE resolved_member \/ resolved_vptr \/ no_member_resolved
  <2>1. pc # "idle"
    BY <1>9 DEF resolved_member, resolved_vptr, no_member_resolved, Awaits
  <2> QED BY <1>2, <1>6, <1>9, <2>1 DEF resolved_member, resolved_vptr, no_member_resolved
<1>10. CASE find_type_tbaa \/ fortran_first_member
  <2>1. pc # "idle"
    BY <1>10 DEF find_type_tbaa, fortran_first_member, Replayed
  <2> QED BY <1>3, <1>10, <2>1 DEF find_type_tbaa, fortran_first_member
<1>11. CASE find_type_done \/ find_type_refined
  BY <1>11, ReturnInStep
<1>12. CASE UNCHANGED vars
  BY <1>12 DEF vars, extractionVars, PathInStep
<1> QED BY <1>1, <1>4, <1>5, <1>7, <1>8, <1>9, <1>10, <1>11, <1>12 DEF Next, Replay

\* find_type maps the values of a path to types one by one and in order, none
\* twice and none left out, and answers with the type that was logged last.
THEOREM PathsInStep ==
    ASSUME EveryTypeEnds
    PROVE  Spec /\ []NoVoidLoaded => []PathInStep
<1>1. Init => PathInStep
  BY DEF Init, PathInStep, final_type
<1>2. TypeInv /\ TypeInv' /\ PathInStep /\ [Next]_vars => PathInStep'
  BY PathStep
<1> QED BY <1>1, <1>2, TypesHold, PTL DEF Spec

(****************************************************************************)
(* What GEP reads.                                                          *)
(****************************************************************************)

LEMMA FieldsAreElements ==
    ASSUME graph \in Graphs, NEW n \in Node
    PROVE  Cardinality(fieldsOf(n)) \in Nat /\ Cardinality(fieldsOf(n)) <= Len(elementsOf(n))
<1> DEFINE length == Len(elementsOf(n))
<1>1. length \in Nat /\ DOMAIN elementsOf(n) = 1 .. length
  BY ElementTypes
<1>2. fieldsOf(n) \in SUBSET (1 .. length)
  BY <1>1 DEF fieldsOf
<1>3. IsFiniteSet(1 .. length) /\ Cardinality(1 .. length) = length
  <2> HIDE DEF length
  <2> QED BY <1>1, FS_Interval
<1> HIDE DEF length
<1>4. IsFiniteSet(fieldsOf(n)) /\ Cardinality(fieldsOf(n)) <= length
  BY <1>2, <1>3, FS_Subset
<1>5. Cardinality(fieldsOf(n)) \in Nat
  BY <1>4, FS_CardinalityType
<1> QED BY <1>4, <1>5 DEF length

\* When the index is one of a field of the composite and no first field is
\* skipped, the assertion in iterate_gep_index holds, and neither the shift by
\* the empty base classes nor the search past the static members reads past the
\* last element.
THEOREM ElementsFound ==
    ASSUME EveryTypeEnds
    PROVE  Spec /\ []NoVoidLoaded /\ []IndexInFields /\ []FirstFieldKept =>
              []IndexInElements /\ []ElementsInBounds
<1>1. TypeInv /\ IndexInFields /\ FirstFieldKept => ElementsInBounds
  <2> SUFFICES ASSUME TypeInv, IndexInFields, FirstFieldKept, iterates PROVE element # NoNode
    BY DEF ElementsInBounds
  <2>1. graph \in Graphs /\ composite_type \in Node /\ indices_ \in Seq(Nat) /\ indices_ # <<>>
    BY DEF TypeInv, GepOK, TypeOK, GepTypeOK, iterates
  <2>2. gep_index \in Nat
    BY <2>1, HeadTailProperties DEF gep_index
  <2>3. gep_index < Cardinality(fieldsOf(composite_type))
    BY <2>1 DEF IndexInFields, iterates
  <2> QED BY <2>1, <2>2, <2>3, ElementThere
<1>2. TypeInv /\ IndexInFields => IndexInElements
  <2> SUFFICES ASSUME TypeInv, IndexInFields, phase = "iterate", indices_ # <<>>
               PROVE  gep_index < Len(elementsOf(composite_type))
    BY DEF IndexInElements
  <2>1. graph \in Graphs /\ composite_type \in Node /\ indices_ \in Seq(Nat)
    BY DEF TypeInv, GepOK, TypeOK, GepTypeOK
  <2>2. gep_index \in Nat /\ gep_index < Cardinality(fieldsOf(composite_type))
    BY <2>1, HeadTailProperties DEF gep_index, IndexInFields
  <2> DEFINE fields == Cardinality(fieldsOf(composite_type))
             length == Len(elementsOf(composite_type))
  <2>3. fields \in Nat /\ length \in Nat /\ fields <= length
    BY <2>1, FieldsAreElements, ElementTypes
  <2> HIDE DEF fields, length
  <2> QED BY <2>2, <2>3 DEF fields, length
<1> QED BY <1>1, <1>2, TypesHold, PTL

==============================================================================
