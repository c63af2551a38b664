--------------------------- MODULE TypeQueryProofs ---------------------------
(****************************************************************************)
(* Proofs about TypeQuery, for every set of programs and configurations:    *)
(* the types of the variables, and, where pointers flow one way, that the   *)
(* mutual recursion of type_for and find_type_root asks no question while   *)
(* it is being answered and goes no deeper than the pointers flow.          *)
(****************************************************************************)
EXTENDS TypeQuery, FiniteSetTheorems, SequenceTheorems, WellFoundedInduction, TLAPS

(****************************************************************************)
(* Operators on data.                                                       *)
(****************************************************************************)

\* The smallest element, which looking for the first of several assumes.
LEMMA SmallestOf ==
    ASSUME NEW S \in SUBSET Nat, S # {}
    PROVE  \E x \in S : \A y \in S : x <= y
<1>1. PICK x \in S : \A y \in S : ~(<<y, x>> \in OpToRel(<, Nat))
  BY NatLessThanWellFounded, WFMin
<1>2. \A y \in S : ~(y < x)
  BY <1>1 DEF OpToRel
<1> QED BY <1>2

LEMMA CountIsNatural ==
    ASSUME NEW s \in Seq(STRING), NEW S, S \subseteq DOMAIN s
    PROVE  Cardinality(S) \in Nat
<1>1. DOMAIN s = 1 .. Len(s) /\ Len(s) \in Nat
  OBVIOUS
<1>2. IsFiniteSet(1 .. Len(s))
  BY <1>1, FS_Interval
<1> QED BY <1>1, <1>2, FS_Subset, FS_CardinalityType

LEMMA PointerLevelType ==
    ASSUME NEW tags \in Seq(STRING)
    PROVE  pointer_level(tags) \in Nat
<1> QED BY CountIsNatural DEF pointer_level

LEMMA DataType ==
    ASSUME program \in Programs, NEW type \in Value \cup {NoType}, NEW offset \in Int
    PROVE  DimetaData(type, offset) \in [found : BOOLEAN, entry_type : Value \cup {NoType}, pointer_level : Int]
<1>1. type # NoType => pointer_level(program.tags[type]) \in Nat
  BY PointerLevelType, ProgramsAssumption DEF NoType
<1> QED BY <1>1 DEF DimetaData

(****************************************************************************)
(* The types of the variables.                                              *)
(****************************************************************************)

TypeInv ==
    /\ program \in Programs
    /\ queried \in [value : Value \cup {NoValue}, config : Configs \cup {auto}]
    /\ data \in [found : BOOLEAN, entry_type : Value \cup {NoType}, pointer_level : Int]
    /\ stack \in Seq(TypeForFrame \cup RootFrame)
    /\ answer \in Value \cup {NoType}
    /\ returning \in BOOLEAN

LEMMA TypeInvImpliesTypeOK == TypeInv => TypeOK
<1> SUFFICES ASSUME TypeInv PROVE TypeOK
  OBVIOUS
<1>2. program.kind \in [Value -> Kind]
  BY ProgramsAssumption DEF TypeInv
<1>3. queried.value \in Value \cup {NoValue} /\ queried.config \in Configs \cup {auto}
  BY DEF TypeInv
<1> QED BY <1>2, <1>3 DEF TypeInv, TypeOK

\* The frame that runs, by the function that it is of.
LEMMA RunningFrame ==
    ASSUME TypeInv, stack # <<>>
    PROVE  /\ Len(stack) \in Nat \ {0} /\ DOMAIN stack = 1 .. Len(stack)
           /\ frame = stack[Len(stack)]
           /\ callers \in Seq(TypeForFrame \cup RootFrame)
           /\ Len(callers) = Len(stack) - 1
           /\ \A i \in 1 .. Len(callers) : callers[i] = stack[i]
           /\ frame.fn = "type_for" => frame \in TypeForFrame
           /\ frame.fn = "find_type_root" => frame \in RootFrame
<1>1. stack \in Seq(TypeForFrame \cup RootFrame)
  BY DEF TypeInv
<1>2. Len(stack) \in Nat \ {0} /\ DOMAIN stack = 1 .. Len(stack)
  BY <1>1
<1>3. frame \in TypeForFrame \cup RootFrame
  BY <1>1, <1>2 DEF frame
<1>4. callers \in Seq(TypeForFrame \cup RootFrame) /\ Len(callers) = Len(stack) - 1
      /\ \A i \in 1 .. Len(callers) : callers[i] = stack[i]
  BY <1>1, <1>2 DEF callers
<1> QED BY <1>2, <1>3, <1>4 DEF TypeForFrame, RootFrame, frame

\* Pushing, replacing and replacing and pushing a frame.
LEMMA Pushed ==
    ASSUME NEW S, NEW s \in Seq(S), NEW g \in S, NEW f \in S
    PROVE  /\ s \o <<g>> \in Seq(S) /\ s \o <<g, f>> \in Seq(S)
           /\ Len(s \o <<g>>) = Len(s) + 1 /\ Len(s \o <<g, f>>) = Len(s) + 2
           /\ \A i \in 1 .. Len(s) : (s \o <<g>>)[i] = s[i] /\ (s \o <<g, f>>)[i] = s[i]
           /\ (s \o <<g>>)[Len(s) + 1] = g
           /\ (s \o <<g, f>>)[Len(s) + 1] = g /\ (s \o <<g, f>>)[Len(s) + 2] = f
  OBVIOUS

LEMMA LevelType ==
    ASSUME NEW c, NEW config \in Configs \cup {auto}
    PROVE  resolve_callbase_config(c, config).pointer_level_offset \in Int
<1>1. config \in [dataflow : {"auto", "return", "argument"}, index : Nat \ {0}, level : Int]
  BY ConfigsAssumption DEF auto
<1> QED BY <1>1 DEF resolve_callbase_config, resolve_auto_callbase_config, Source, NoSource

LEMMA SourceType ==
    ASSUME TypeInv, NEW c \in Value, NEW config \in Configs \cup {auto}
    PROVE  LET source == resolve_callbase_config(c, config)
           IN  hasSource(c, source) =>
                 /\ source.from \in {"return", "argument", "descriptor", "allocsite"}
                 /\ source.argument_index \in Nat
                 /\ pathsFrom(c, source) \in Seq(Path)
                 /\ TypeFor(c, source) \in TypeForFrame
<1> DEFINE source == resolve_callbase_config(c, config)
<1>1. config \in [dataflow : {"auto", "return", "argument"}, index : Nat \ {0}, level : Int]
  BY ConfigsAssumption DEF auto
<1>2. /\ program.kind[c] \in Kind /\ program.args[c] \in Seq(Value)
      /\ program.paths \in [Value -> Seq(Path)]
      /\ program.kind[c] = "cudalike" => program.args[c] # <<>>
      /\ program.kind[c] = "mpilike" => Len(program.args[c]) >= 3
  BY ProgramsAssumption DEF TypeInv
<1>4. ASSUME hasSource(c, source)
      PROVE  /\ source.from \in {"return", "argument", "descriptor", "allocsite"}
             /\ source.argument_index \in Nat
             /\ source.from \in {"argument", "descriptor"} =>
                  source.argument_index \in 1 .. Len(program.args[c])
  BY <1>1, <1>2, <1>4
     DEF hasSource, resolve_callbase_config, resolve_auto_callbase_config, Source, NoSource, Kind, Allocator
<1> HIDE DEF source
<1>5. ASSUME hasSource(c, source) PROVE pathsFrom(c, source) \in Seq(Path)
  <2>1. source.from \in {"argument", "descriptor"} => program.args[c][source.argument_index] \in Value
    BY <1>2, <1>4, <1>5
  <2> QED BY <1>2, <1>4, <1>5, <2>1 DEF pathsFrom
<1>6. ASSUME hasSource(c, source) PROVE TypeFor(c, source) \in TypeForFrame
  BY <1>4, <1>5, <1>6 DEF TypeFor, TypeForFrame
<1> QED BY <1>4, <1>5, <1>6 DEF source

LEMMA CallTyped ==
    ASSUME TypeInv, NEW f \in TypeForFrame \cup RootFrame, Call(f)
    PROVE  TypeInv'
BY DEF Call, TypeInv

LEMMA CallFromTyped ==
    ASSUME TypeInv, stack # <<>>, NEW g \in TypeForFrame \cup RootFrame,
           NEW f \in TypeForFrame \cup RootFrame, CallFrom(g, f)
    PROVE  TypeInv'
<1>1. stack' \in Seq(TypeForFrame \cup RootFrame)
  BY RunningFrame, Pushed DEF CallFrom
<1> QED BY <1>1 DEF CallFrom, TypeInv

LEMMA ReturnTyped ==
    ASSUME TypeInv, stack # <<>>, NEW type \in Value \cup {NoType}, Return(type)
    PROVE  TypeInv'
BY RunningFrame DEF Return, TypeInv

LEMMA ResumeTyped ==
    ASSUME TypeInv, stack # <<>>, NEW g \in TypeForFrame \cup RootFrame, Resume(g)
    PROVE  TypeInv'
<1>1. stack' \in Seq(TypeForFrame \cup RootFrame)
  BY RunningFrame, Pushed DEF Resume
<1> QED BY <1>1 DEF Resume, TypeInv

LEMMA SearchTyped ==
    ASSUME TypeInv, stack # <<>>, frame \in RootFrame, NEW v \in Value, search(v),
           UNCHANGED <<program, queried, data, answer, returning>>
    PROVE  TypeInv'
<1>1. program.paths[v] \in Seq(Path)
  BY ProgramsAssumption DEF TypeInv
<1>2. [frame EXCEPT !.searching = TRUE, !.todo = program.paths[v]] \in RootFrame
  BY <1>1 DEF RootFrame
<1>3. stack' \in Seq(TypeForFrame \cup RootFrame)
  BY <1>2, RunningFrame, Pushed DEF search
<1> QED BY <1>3 DEF TypeInv

\* The root of a path, and what is copied to it.
LEMMA RootType ==
    ASSUME TypeInv, stack # <<>>, frame \in RootFrame
    PROVE  /\ root \in Value
           /\ program.kind[root] \in Kind
           /\ program.kind[root] = "memcpy" => copied \in Value
<1>1. frame.path \in Path
  BY DEF RootFrame
<1>2. Len(frame.path) \in DOMAIN frame.path
  BY <1>1 DEF Path
<1>3. root \in Value
  BY <1>1, <1>2 DEF root, value, Path
<1> QED BY <1>3, ProgramsAssumption DEF TypeInv, copied

LEMMA TypeOfValue ==
    ASSUME TypeInv, NEW v \in Value
    PROVE  /\ typeOf(v) \in Value \cup {NoType}
           /\ isTyped(v) => type_of_alloca(v) \in Value \cup {NoType}
<1>1. program.stored[v] \in Value \cup {NoValue}
  BY ProgramsAssumption DEF TypeInv
<1> QED BY <1>1 DEF typeOf, isTyped, type_of_alloca, NoType

LEMMA TypeOfCall ==
    ASSUME TypeInv, NEW call \in Value, NEW p \in Path
    PROVE  type_of_call(call, p) \in Value \cup {NoType}
<1>1. /\ program.args[call] \in Seq(Value)
      /\ program.signature[call] \in Seq(Value \cup {NoValue})
      /\ program.signature[call] # <<>> => Len(program.args[call]) < Len(program.signature[call])
  BY ProgramsAssumption DEF TypeInv
<1>2. get_return_type_of(call) \in Value \cup {NoType}
  BY <1>1, TypeOfValue DEF get_return_type_of, NoType
<1>3. ASSUME NEW arg PROVE type_of_call_argument(call, arg) \in Value \cup {NoType}
  <2> DEFINE at == {i \in DOMAIN program.args[call] : program.args[call][i] = arg}
             first == CHOOSE i \in at : \A j \in at : i <= j
  <2>1. CASE at = {} \/ program.signature[call] = <<>>
    BY <2>1 DEF type_of_call_argument
  <2>2. CASE ~(at = {} \/ program.signature[call] = <<>>)
    <3>1. at \in SUBSET Nat
      BY <1>1
    <3>2. \E i \in at : \A j \in at : i <= j
      BY <2>2, <3>1, SmallestOf
    <3>3. first \in at
      BY <3>2
    <3>4. 1 + first \in 1 .. Len(program.signature[call])
      BY <1>1, <2>2, <3>3
    <3>5. program.signature[call][1 + first] \in Value \cup {NoValue}
      BY <1>1, <3>4
    <3> QED BY <2>2, <3>5 DEF type_of_call_argument, NoType
  <2> QED BY <2>1, <2>2
<1> QED BY <1>2, <1>3 DEF type_of_call

LEMMA NothingTyped ==
    /\ NoData \in [found : BOOLEAN, entry_type : Value \cup {NoType}, pointer_level : Int]
    /\ NoQuery \in [value : Value \cup {NoValue}, config : Configs \cup {auto}]
    /\ <<>> \in Seq(TypeForFrame \cup RootFrame)
<1>1. NoType \in Value \cup {NoType}
  OBVIOUS
<1>2. NoData \in [found : BOOLEAN, entry_type : Value \cup {NoType}, pointer_level : Int]
  BY <1>1 DEF NoData
<1>3. auto \in Configs \cup {auto}
  OBVIOUS
<1>4. NoQuery \in [value : Value \cup {NoValue}, config : Configs \cup {auto}]
  BY <1>3 DEF NoQuery
<1> QED BY <1>2, <1>4

LEMMA TypeInit == Init => TypeInv
BY NothingTyped DEF Init, TypeInv

LEMMA QueryTyped == TypeInv /\ Query => TypeInv'
<1> SUFFICES ASSUME TypeInv, NEW v \in Value,
                    (\E config \in Configs : type_for(v, config)) \/ type_for_variable(v)
             PROVE  TypeInv'
  BY DEF Query
<1>1. ASSUME NEW config \in Configs, type_for(v, config) PROVE TypeInv'
  <2>1. stack' \in Seq(TypeForFrame \cup RootFrame)
    <3> DEFINE source == resolve_callbase_config(v, config)
    <3>1. CASE hasSource(v, source)
      <4>1. TypeFor(v, source) \in TypeForFrame
        BY <3>1, SourceType
      <4> HIDE DEF source
      <4>2. stack' = <<TypeFor(v, source)>>
        BY <1>1, <3>1 DEF type_for, source
      <4> QED BY <4>1, <4>2
    <3>2. CASE ~hasSource(v, source)
      BY <1>1, <3>2, NothingTyped DEF type_for
    <3> QED BY <3>1, <3>2
  <2> QED BY <1>1, <2>1, NothingTyped DEF type_for, Asks, TypeInv
<1>2. CASE type_for_variable(v)
  BY <1>2, DataType DEF type_for_variable, Asks, TypeInv, NoData, NoType
<1> QED BY <1>1, <1>2

LEMMA NextPath ==
    ASSUME NEW ps \in Seq(Path), ps # <<>>
    PROVE  Head(ps) \in Path /\ Tail(ps) \in Seq(Path) /\ Head(ps) = ps[1]
           /\ Len(Tail(ps)) = Len(ps) - 1 /\ \A i \in 1 .. Len(Tail(ps)) : Tail(ps)[i] = ps[i + 1]
OBVIOUS

LEMMA TypeForTyped ==
    ASSUME TypeInv,
           \/ type_for_local \/ type_for_newlike \/ type_for_next \/ type_for_return \/ collect_type
    PROVE  TypeInv'
<1> DEFINE f == frame
<1>1. stack # <<>> /\ f \in TypeForFrame
  BY RunningFrame DEF Running, type_for_local, type_for_newlike, type_for_next, type_for_return, collect_type
<1>2. /\ f.of \in Value /\ f.todo \in Seq(Path) /\ f.types \in Seq(Value)
      /\ program.site[f.of] \in Value \cup {NoValue}
      /\ program.element[f.of] \in Value \cup {NoValue}
  BY <1>1, ProgramsAssumption DEF TypeForFrame, TypeInv
<1>3. CASE type_for_local
  <2>1. (IF program.element[f.of] # NoValue THEN program.element[f.of] ELSE f.of) \in Value \cup {NoType}
    BY <1>2 DEF NoType
  <2> QED BY <1>1, <1>3, <2>1, ReturnTyped DEF type_for_local
<1>4. CASE type_for_newlike
  <2>1. typeOf(program.site[f.of]) \in Value \cup {NoType}
    BY <1>2 DEF typeOf, NoType
  <2> QED BY <1>1, <1>4, <2>1, ReturnTyped DEF type_for_newlike
<1>5. CASE type_for_next
  <2> DEFINE g == [f EXCEPT !.todo = Tail(@)]
             r == Root(handedOn(f.of, f.from), Head(f.todo))
  <2>1. f.todo # <<>> /\ CallFrom(g, r)
    BY <1>5 DEF type_for_next
  <2>2. g \in TypeForFrame
    BY <1>1, <1>2, <2>1, NextPath DEF TypeForFrame
  <2>3. r \in RootFrame
    BY <1>2, <2>1, NextPath DEF RootFrame, Root, handedOn
  <2> QED BY <1>1, <2>1, <2>2, <2>3, CallFromTyped
<1>6. CASE type_for_return
  <2>1. (IF f.types = <<>> THEN NoType ELSE Head(f.types)) \in Value \cup {NoType}
    BY <1>2
  <2> QED BY <1>1, <1>6, <2>1, ReturnTyped DEF type_for_return
<1>7. CASE collect_type
  <2>1. answer # NoType => Append(f.types, answer) \in Seq(Value)
    BY <1>2 DEF TypeInv
  <2>2. answer # NoType => [f EXCEPT !.types = Append(@, answer)] \in TypeForFrame
    BY <1>1, <2>1 DEF TypeForFrame
  <2> QED BY <1>1, <1>7, <2>2, ResumeTyped DEF collect_type
<1> QED BY <1>3, <1>4, <1>5, <1>6, <1>7

LEMMA RootTyped ==
    ASSUME TypeInv,
           \/ root_leaf \/ root_call \/ root_named_alloca \/ root_search_alloca
           \/ root_memcpy \/ root_search_copied \/ root_next \/ root_exhausted
           \/ root_is_the_call \/ root_allocation \/ root_take_answer
    PROVE  TypeInv'
<1>1. stack # <<>> /\ frame \in RootFrame
  BY RunningFrame
     DEF Running, root_leaf, root_call, root_named_alloca, root_search_alloca, root_memcpy,
         root_search_copied, root_next, root_exhausted, root_is_the_call, root_allocation, root_take_answer
<1>2. root \in Value /\ (program.kind[root] = "memcpy" => copied \in Value)
  BY <1>1, RootType
<1>3. frame.path \in Path /\ frame.todo \in Seq(Path)
  BY <1>1 DEF RootFrame
<1>4. NoType \in Value \cup {NoType}
  OBVIOUS
<1>5. CASE root_leaf
  BY <1>1, <1>2, <1>4, <1>5, TypeOfValue, ReturnTyped DEF root_leaf
<1>6. CASE root_call
  BY <1>1, <1>2, <1>3, <1>6, TypeOfCall, ReturnTyped DEF root_call
<1>7. CASE root_named_alloca
  BY <1>1, <1>2, <1>7, TypeOfValue, ReturnTyped DEF root_named_alloca
<1>8. CASE root_search_alloca
  BY <1>1, <1>2, <1>8, SearchTyped DEF root_search_alloca
<1>9. CASE root_memcpy
  <2>1. copied \in Value
    BY <1>2, <1>9 DEF root_memcpy
  <2>2. (CASE program.kind[copied] = "alloca" /\ isTyped(copied) -> type_of_alloca(copied)
           [] program.kind[copied] = "global" -> typeOf(copied)
           [] OTHER -> NoType) \in Value \cup {NoType}
    BY <1>4, <2>1, TypeOfValue
  <2> QED BY <1>1, <1>9, <2>2, ReturnTyped DEF root_memcpy
<1>10. CASE root_search_copied
  <2>1. copied \in Value
    BY <1>2, <1>10 DEF root_search_copied
  <2> QED BY <1>1, <1>10, <2>1, SearchTyped DEF root_search_copied
<1>11. CASE root_next
  <2> DEFINE g == [frame EXCEPT !.todo = Tail(@)]
             r == Root(NoValue, Head(frame.todo))
  <2>1. frame.todo # <<>> /\ CallFrom(g, r)
    BY <1>11 DEF root_next
  <2>2. g \in RootFrame
    BY <1>1, <1>3, <2>1, NextPath DEF RootFrame
  <2>3. r \in RootFrame
    BY <1>3, <2>1, NextPath DEF RootFrame, Root
  <2> QED BY <1>1, <2>1, <2>2, <2>3, CallFromTyped
<1>12. CASE root_exhausted
  BY <1>1, <1>4, <1>12, ReturnTyped DEF root_exhausted
<1>13. CASE root_is_the_call
  BY <1>1, <1>4, <1>13, ReturnTyped DEF root_is_the_call
<1>14. CASE root_allocation
  <2> DEFINE source == resolve_auto_callbase_config(root)
  <2>1. source = resolve_callbase_config(root, auto)
    BY DEF resolve_callbase_config, auto
  <2>2. hasSource(root, source) => TypeFor(root, source) \in TypeForFrame
    BY <1>2, <2>1, SourceType
  <2> QED BY <1>1, <1>4, <1>14, <2>2, CallTyped, ReturnTyped DEF root_allocation
<1>15. CASE root_take_answer
  <2>1. answer \in Value \cup {NoType}
    BY DEF TypeInv
  <2> QED BY <1>1, <1>15, <2>1, ReturnTyped, ResumeTyped DEF root_take_answer
<1> QED BY <1>5, <1>6, <1>7, <1>8, <1>9, <1>10, <1>11, <1>12, <1>13, <1>14, <1>15

LEMMA TypeStep == TypeInv /\ [Next]_vars => TypeInv'
<1> SUFFICES ASSUME TypeInv, [Next]_vars PROVE TypeInv'
  OBVIOUS
<1>1. CASE Query
  BY <1>1, QueryTyped
<1>2. CASE TakeResult
  BY <1>2, NothingTyped DEF TakeResult, TypeInv
<1>3. CASE type_for_data
  <2> DEFINE level == resolve_callbase_config(queried.value, queried.config).pointer_level_offset
  <2>1. queried.config \in Configs \cup {auto} /\ answer \in Value \cup {NoType}
    BY DEF TypeInv
  <2>2. level \in Int
    BY <2>1, LevelType
  <2> HIDE DEF level
  <2>3. data' \in {NoData, DimetaData(answer, level)}
    BY <1>3 DEF type_for_data, level
  <2>4. DimetaData(answer, level) \in
          [found : BOOLEAN, entry_type : Value \cup {NoType}, pointer_level : Int]
    BY <2>1, <2>2, DataType DEF TypeInv
  <2> QED BY <1>3, <2>3, <2>4, NothingTyped DEF type_for_data, TypeInv
<1>4. CASE type_for_local \/ type_for_newlike \/ type_for_next \/ type_for_return \/ collect_type
  BY <1>4, TypeForTyped
<1>5. CASE \/ root_leaf \/ root_call \/ root_named_alloca \/ root_search_alloca
           \/ root_memcpy \/ root_search_copied \/ root_next \/ root_exhausted
           \/ root_is_the_call \/ root_allocation \/ root_take_answer
  BY <1>5, RootTyped
<1>6. CASE UNCHANGED vars
  BY <1>6 DEF vars, TypeInv
<1> QED BY <1>1, <1>2, <1>3, <1>4, <1>5, <1>6 DEF Next, Progress

\* The variables have their types, for all programs.
THEOREM TypeCorrect == Spec => []TypeOK
<1>1. Spec => []TypeInv
  BY TypeInit, TypeStep, PTL DEF Spec
<1> QED BY <1>1, TypeInvImpliesTypeOK, PTL

(****************************************************************************)
(* The recursion follows the pointers.  What a frame has still to look at   *)
(* has less rank than what it is of (Prepared), so a frame it calls has     *)
(* less weight; a frame keeps its weight as long as it is on the stack.     *)
(****************************************************************************)

Prepared(rank, f) ==
    /\ f.fn = "type_for" => Below(rank, handedOn(f.of, f.from), f.todo, f.of)
    /\ f.fn = "find_type_root" /\ f.searching =>
         goesOn(f.call, f.path) /\ Below(rank, NoValue, f.todo, value(f.path))

\* The first frame is the type_for that was asked for.
AskedFirst == stack # <<>> => stack[1].fn = "type_for" /\ stack[1].of = queried.value

DescentInv(rank) ==
    /\ FlowsDown(rank)
    /\ Descends(rank)
    /\ \A i \in DOMAIN stack : Prepared(rank, stack[i])
    /\ AskedFirst

\* A program does not change while it is asked about.
LEMMA SameGoesOn ==
    ASSUME program' = program, NEW CONSTANT call, NEW CONSTANT p
    PROVE  goesOn(call, p)' <=> goesOn(call, p)
BY DEF goesOn, hasToSearch, isTyped

LEMMA SameWeight ==
    ASSUME program' = program, NEW CONSTANT rank, NEW CONSTANT f
    PROVE  weight(rank, f)' = weight(rank, f)
BY SameGoesOn DEF weight

LEMMA SameSource ==
    ASSUME program' = program, NEW CONSTANT c, NEW CONSTANT config, NEW CONSTANT source
    PROVE  /\ resolve_callbase_config(c, config)' = resolve_callbase_config(c, config)
           /\ hasSource(c, source)' <=> hasSource(c, source)
           /\ pathsFrom(c, source)' = pathsFrom(c, source)
           /\ isCall(c)' <=> isCall(c)
           /\ hasToSearch(c)' <=> hasToSearch(c)
<1>1. resolve_callbase_config(c, config)' = resolve_callbase_config(c, config)
  BY DEF resolve_callbase_config, resolve_auto_callbase_config
<1>2. pathsFrom(c, source)' = pathsFrom(c, source)
  BY DEF pathsFrom
<1> QED BY <1>1, <1>2 DEF hasSource, isCall, hasToSearch, isTyped

LEMMA SameBelow ==
    ASSUME program' = program, NEW CONSTANT rank, NEW CONSTANT call, NEW CONSTANT ps, NEW CONSTANT v
    PROVE  Below(rank, call, ps, v)' <=> Below(rank, call, ps, v)
BY SameGoesOn DEF Below

LEMMA SameFlow ==
    ASSUME program' = program, NEW CONSTANT rank, FlowsDown(rank)
    PROVE  FlowsDown(rank)'
BY SameGoesOn, SameSource, SameBelow DEF FlowsDown

LEMMA SamePrepared ==
    ASSUME program' = program, NEW CONSTANT rank, NEW CONSTANT f
    PROVE  Prepared(rank, f)' <=> Prepared(rank, f)
BY SameGoesOn, SameBelow DEF Prepared

LEMMA WeightType ==
    ASSUME TypeInv, NEW rank \in [Value -> Nat], NEW f \in TypeForFrame \cup RootFrame
    PROVE  /\ weight(rank, f) \in Nat
           /\ f.fn = "type_for" => weight(rank, f) = 2 * rank[f.of] + 1
           /\ f.fn = "find_type_root" /\ goesOn(f.call, f.path) =>
                weight(rank, f) = 2 * rank[value(f.path)] + 2
           /\ f.fn = "find_type_root" /\ ~goesOn(f.call, f.path) => weight(rank, f) = 0
           /\ f.fn = "type_for" => rank[f.of] \in Nat
           /\ f.fn = "find_type_root" => rank[value(f.path)] \in Nat
<1>1. CASE f \in TypeForFrame
  BY <1>1 DEF TypeForFrame, weight
<1>2. CASE f \in RootFrame
  <2>1. f.fn = "find_type_root" /\ f.path \in Path
    BY <1>2 DEF RootFrame
  <2>2. value(f.path) \in Value
    BY <2>1 DEF value, Path
  <2>3. rank[value(f.path)] \in Nat
    BY <2>2
  <2>4. CASE goesOn(f.call, f.path)
    BY <2>1, <2>3, <2>4 DEF weight
  <2>5. CASE ~goesOn(f.call, f.path)
    BY <2>1, <2>3, <2>5 DEF weight
  <2> QED BY <2>1, <2>3, <2>4, <2>5
<1> QED BY <1>1, <1>2

\* The frame g takes the place of the one that runs.
Replaces(rank, g) ==
    /\ g \in TypeForFrame \cup RootFrame
    /\ g.fn = frame.fn
    /\ g.fn = "type_for" => g.of = frame.of
    /\ weight(rank, g) = weight(rank, frame)
    /\ Prepared(rank, g)

\* The running frame, as g or gone, may have called f.
LEMMA StackStep ==
    ASSUME TypeInv, stack # <<>>, NEW rank \in [Value -> Nat], DescentInv(rank),
           UNCHANGED <<program, queried>>,
           NEW g, Replaces(rank, g),
           NEW f \in TypeForFrame \cup RootFrame,
           \/ stack' = callers
           \/ stack' = callers \o <<g>>
           \/ /\ stack' = callers \o <<g, f>>
              /\ weight(rank, f) < weight(rank, frame) /\ Prepared(rank, f)
    PROVE  DescentInv(rank)'
<1> DEFINE n == Len(stack)
           m == Len(stack')
           S == TypeForFrame \cup RootFrame
<1>1. /\ n \in Nat \ {0} /\ DOMAIN stack = 1 .. n /\ frame = stack[n]
      /\ callers \in Seq(S) /\ Len(callers) = n - 1
      /\ \A i \in 1 .. n - 1 : callers[i] = stack[i]
      /\ \A i \in 1 .. n : stack[i] \in S
  BY RunningFrame DEF TypeInv
<1>2. /\ m \in n - 1 .. n + 1 /\ DOMAIN stack' = 1 .. m
      /\ \A i \in 1 .. n - 1 : stack'[i] = stack[i]
      /\ m >= n => stack'[n] = g
      /\ m = n + 1 => /\ stack'[n + 1] = f
                      /\ weight(rank, f) < weight(rank, frame) /\ Prepared(rank, f)
  BY <1>1, Pushed DEF Replaces
<1> HIDE DEF n, m
<1>3. \A i \in 1 .. n : weight(rank, stack[i]) \in Nat
  BY <1>1, WeightType
<1>4. weight(rank, f) \in Nat /\ weight(rank, g) = weight(rank, stack[n])
  BY <1>1, WeightType DEF Replaces
<1>5. \A i, j \in 1 .. n : i < j => weight(rank, stack[j]) + (j - i) <= weight(rank, stack[i])
  BY <1>1 DEF DescentInv, Descends
<1>6. \A i \in 1 .. n : i \in 1 .. m => weight(rank, stack'[i]) = weight(rank, stack[i])
  BY <1>1, <1>2, <1>4
<1>7. ASSUME NEW i \in 1 .. m, NEW j \in 1 .. m, i < j
      PROVE  weight(rank, stack'[j]) + (j - i) <= weight(rank, stack'[i])
  <2>1. CASE j = n + 1
    <3>1. i \in 1 .. n
      BY <1>1, <1>2, <1>7, <2>1
    <3>2. i < n => weight(rank, stack[n]) + (n - i) <= weight(rank, stack[i])
      BY <1>1, <1>5, <3>1
    <3>3. weight(rank, stack'[j]) < weight(rank, stack[n]) /\ weight(rank, stack'[j]) \in Nat
      BY <1>1, <1>2, <1>4, <2>1
    <3>4. weight(rank, stack'[i]) = weight(rank, stack[i])
      BY <1>6, <3>1
    <3> QED BY <1>1, <1>3, <2>1, <3>1, <3>2, <3>3, <3>4
  <2>2. CASE j # n + 1
    BY <1>1, <1>2, <1>5, <1>6, <1>7, <2>2
  <2> QED BY <2>1, <2>2
<1>8. Descends(rank)'
  BY <1>2, <1>7, SameWeight DEF Descends
<1>9. ASSUME NEW i \in 1 .. m PROVE Prepared(rank, stack'[i])
  <2>1. i \in 1 .. n - 1 \/ i = n \/ i = n + 1
    BY <1>1, <1>2
  <2>2. CASE i \in 1 .. n - 1
    <3>1. i \in DOMAIN stack
      BY <1>1, <2>2
    <3>2. Prepared(rank, stack[i])
      BY <3>1 DEF DescentInv
    <3>3. stack'[i] = stack[i]
      BY <1>2, <2>2
    <3> QED BY <3>2, <3>3
  <2>3. CASE i = n
    BY <1>2, <2>3 DEF Replaces
  <2>4. CASE i = n + 1
    BY <1>1, <1>2, <2>4
  <2> QED BY <2>1, <2>2, <2>3, <2>4
<1>10. (\A i \in DOMAIN stack : Prepared(rank, stack[i]))'
  BY <1>2, <1>9, SamePrepared
<1>11. AskedFirst'
  BY <1>1, <1>2 DEF DescentInv, AskedFirst, Replaces
<1> QED BY <1>8, <1>10, <1>11, SameFlow DEF DescentInv

\* The running frame replaces itself.
LEMMA ReplacesItself ==
    ASSUME TypeInv, stack # <<>>, NEW rank \in [Value -> Nat], DescentInv(rank)
    PROVE  Replaces(rank, frame) /\ Prepared(rank, frame)
<1>1. Len(stack) \in DOMAIN stack /\ frame = stack[Len(stack)]
  BY RunningFrame
<1>2. frame \in TypeForFrame \cup RootFrame
  BY <1>1 DEF TypeInv
<1>3. Prepared(rank, frame)
  BY <1>1 DEF DescentInv
<1> QED BY <1>2, <1>3 DEF Replaces

LEMMA ReturnDescends ==
    ASSUME TypeInv, stack # <<>>, NEW rank \in [Value -> Nat], DescentInv(rank),
           NEW type, Return(type)
    PROVE  DescentInv(rank)'
BY ReplacesItself, StackStep DEF Return, Replaces

LEMMA ResumeDescends ==
    ASSUME TypeInv, stack # <<>>, NEW rank \in [Value -> Nat], DescentInv(rank),
           NEW g, Replaces(rank, g), Resume(g)
    PROVE  DescentInv(rank)'
BY StackStep DEF Resume, Replaces

LEMMA CallFromDescends ==
    ASSUME TypeInv, stack # <<>>, NEW rank \in [Value -> Nat], DescentInv(rank),
           NEW g, Replaces(rank, g), NEW f \in TypeForFrame \cup RootFrame, CallFrom(g, f),
           weight(rank, f) < weight(rank, frame), Prepared(rank, f)
    PROVE  DescentInv(rank)'
BY StackStep DEF CallFrom

LEMMA CallDescends ==
    ASSUME TypeInv, stack # <<>>, NEW rank \in [Value -> Nat], DescentInv(rank),
           NEW f \in TypeForFrame \cup RootFrame, Call(f),
           weight(rank, f) < weight(rank, frame), Prepared(rank, f)
    PROVE  DescentInv(rank)'
<1>1. stack' = callers \o <<frame, f>>
  <2>1. stack \in Seq(TypeForFrame \cup RootFrame)
    BY DEF TypeInv
  <2> QED BY <2>1 DEF Call, callers, frame
<1> QED BY <1>1, ReplacesItself, StackStep DEF Call

\* The next path of a frame, when what goes on of its paths has less rank.
LEMMA NextBelow ==
    ASSUME NEW rank, NEW call, NEW v, NEW ps \in Seq(Path), ps # <<>>, Below(rank, call, ps, v)
    PROVE  /\ Below(rank, call, Tail(ps), v)
           /\ goesOn(call, Head(ps)) => rank[value(Head(ps))] < rank[v]
<1>1. /\ DOMAIN ps = 1 .. Len(ps) /\ Len(ps) \in Nat \ {0} /\ Head(ps) = ps[1]
      /\ DOMAIN Tail(ps) = 1 .. Len(ps) - 1
      /\ \A i \in 1 .. Len(ps) - 1 : Tail(ps)[i] = ps[i + 1]
  OBVIOUS
<1>2. ASSUME NEW i \in DOMAIN Tail(ps), goesOn(call, Tail(ps)[i])
      PROVE  rank[value(Tail(ps)[i])] < rank[v]
  <2>1. i + 1 \in DOMAIN ps /\ Tail(ps)[i] = ps[i + 1]
    BY <1>1
  <2> QED BY <1>2, <2>1 DEF Below
<1>3. goesOn(call, Head(ps)) => rank[value(Head(ps))] < rank[v]
  BY <1>1 DEF Below
<1> QED BY <1>2, <1>3 DEF Below

LEMMA TypeForDescends ==
    ASSUME TypeInv, NEW rank \in [Value -> Nat], DescentInv(rank),
           \/ type_for_local \/ type_for_newlike \/ type_for_next \/ type_for_return \/ collect_type
    PROVE  DescentInv(rank)'
<1> DEFINE f == frame
<1>1. stack # <<>> /\ f \in TypeForFrame
  BY RunningFrame DEF Running, type_for_local, type_for_newlike, type_for_next, type_for_return, collect_type
<1>2. /\ f.fn = "type_for" /\ f.of \in Value /\ f.todo \in Seq(Path) /\ f.types \in Seq(Value)
      /\ weight(rank, f) = 2 * rank[f.of] + 1 /\ rank[f.of] \in Nat
  BY <1>1, WeightType DEF TypeForFrame
<1>3. Below(rank, handedOn(f.of, f.from), f.todo, f.of)
  BY <1>1, <1>2, ReplacesItself DEF Prepared
<1>4. CASE type_for_local \/ type_for_newlike \/ type_for_return
  BY <1>1, <1>4, ReturnDescends DEF type_for_local, type_for_newlike, type_for_return
<1>5. CASE type_for_next
  <2> DEFINE g == [f EXCEPT !.todo = Tail(@)]
             r == Root(handedOn(f.of, f.from), Head(f.todo))
  <2>1. f.todo # <<>> /\ CallFrom(g, r)
    BY <1>5 DEF type_for_next
  <2>2. g \in TypeForFrame /\ r \in RootFrame
    <3>1. g \in TypeForFrame
      BY <1>1, <1>2, <2>1, NextPath DEF TypeForFrame
    <3>2. r \in RootFrame
      BY <1>2, <2>1, NextPath DEF RootFrame, Root, handedOn
    <3> QED BY <3>1, <3>2
  <2>3. g.fn = "type_for" /\ g.of = f.of /\ g.from = f.from /\ g.todo = Tail(f.todo)
    BY <1>1 DEF TypeForFrame
  <2>4. weight(rank, g) = weight(rank, f)
    <3> HIDE DEF g
    <3> QED BY <1>2, <2>2, <2>3, WeightType
  <2>5. Replaces(rank, g)
    BY <1>2, <1>3, <2>1, <2>2, <2>3, <2>4, NextBelow DEF Replaces, Prepared
  <2>6. r.fn = "find_type_root" /\ r.call = handedOn(f.of, f.from) /\ r.path = Head(f.todo) /\ ~r.searching
    BY DEF Root
  <2>7. weight(rank, r) < weight(rank, f)
    <3>1. goesOn(r.call, r.path) => rank[value(r.path)] < rank[f.of]
      BY <1>2, <1>3, <2>1, <2>6, NextBelow
    <3> HIDE DEF r
    <3>2. weight(rank, r) = IF goesOn(r.call, r.path) THEN 2 * rank[value(r.path)] + 2 ELSE 0
      BY <2>2, <2>6, WeightType
    <3>3. rank[value(r.path)] \in Nat
      BY <2>2, <2>6, WeightType
    <3> QED BY <1>2, <3>1, <3>2, <3>3
  <2>8. Prepared(rank, r)
    BY <2>6 DEF Prepared
  <2> QED BY <1>1, <2>1, <2>2, <2>5, <2>7, <2>8, CallFromDescends
<1>6. CASE collect_type
  <2> DEFINE g == [f EXCEPT !.types = Append(@, answer)]
  <2>1. /\ g.fn = "type_for" /\ g.of = f.of /\ g.from = f.from /\ g.todo = f.todo
    BY <1>1 DEF TypeForFrame
  <2>2. answer # NoType => g \in TypeForFrame
    <3>1. answer # NoType => Append(f.types, answer) \in Seq(Value)
      BY <1>2 DEF TypeInv
    <3> QED BY <1>1, <3>1 DEF TypeForFrame
  <2>3. answer # NoType => Replaces(rank, g)
    BY <1>2, <1>3, <2>1, <2>2, WeightType DEF Replaces, Prepared
  <2> QED BY <1>1, <1>6, <2>3, ReplacesItself, ResumeDescends DEF collect_type
<1> QED BY <1>4, <1>5, <1>6

LEMMA RootDescends ==
    ASSUME TypeInv, NEW rank \in [Value -> Nat], DescentInv(rank),
           \/ root_leaf \/ root_call \/ root_named_alloca \/ root_search_alloca
           \/ root_memcpy \/ root_search_copied \/ root_next \/ root_exhausted
           \/ root_is_the_call \/ root_allocation \/ root_take_answer
    PROVE  DescentInv(rank)'
<1>1. stack # <<>> /\ frame \in RootFrame
  BY RunningFrame
     DEF Running, root_leaf, root_call, root_named_alloca, root_search_alloca, root_memcpy,
         root_search_copied, root_next, root_exhausted, root_is_the_call, root_allocation, root_take_answer
<1>2. /\ frame.fn = "find_type_root" /\ frame.path \in Path /\ frame.todo \in Seq(Path)
      /\ root = value(frame.path) /\ root \in Value /\ rank[root] \in Nat
      /\ program.kind[root] = "memcpy" => copied \in Value
      /\ goesOn(frame.call, frame.path) => weight(rank, frame) = 2 * rank[root] + 2
  BY <1>1, RootType, WeightType DEF RootFrame, root
<1>3. CASE \/ root_leaf \/ root_call \/ root_named_alloca \/ root_memcpy \/ root_exhausted \/ root_is_the_call
  BY <1>1, <1>3, ReturnDescends
     DEF root_leaf, root_call, root_named_alloca, root_memcpy, root_exhausted, root_is_the_call
<1>4. ASSUME NEW v \in Value, search(v), UNCHANGED <<program, queried>>,
             goesOn(frame.call, frame.path), Below(rank, NoValue, program.paths[v], root)
      PROVE  DescentInv(rank)'
  <2> DEFINE g == [frame EXCEPT !.searching = TRUE, !.todo = program.paths[v]]
  <2>1. program.paths[v] \in Seq(Path)
    BY ProgramsAssumption DEF TypeInv
  <2>2. g \in RootFrame
    BY <1>1, <2>1 DEF RootFrame
  <2>3. /\ g.fn = "find_type_root" /\ g.call = frame.call /\ g.path = frame.path
        /\ g.todo = program.paths[v]
    BY <1>1 DEF RootFrame
  <2>4. stack' = callers \o <<g>>
    BY <1>4 DEF search
  <2> HIDE DEF g
  <2>5. weight(rank, g) = weight(rank, frame)
    BY <1>2, <1>4, <2>2, <2>3, WeightType
  <2>6. Prepared(rank, g)
    BY <1>2, <1>4, <2>3 DEF Prepared
  <2>7. Replaces(rank, g)
    BY <1>2, <2>2, <2>3, <2>5, <2>6 DEF Replaces
  <2> QED BY <1>1, <1>4, <2>2, <2>4, <2>7, StackStep
<1>5. CASE root_search_alloca
  <2>1. hasToSearch(root)
    BY <1>5 DEF root_search_alloca, hasToSearch
  <2>2. goesOn(frame.call, frame.path) /\ Below(rank, NoValue, program.paths[root], root)
    BY <1>2, <2>1 DEF goesOn, DescentInv, FlowsDown
  <2> QED BY <1>2, <1>4, <1>5, <2>2 DEF root_search_alloca
<1>6. CASE root_search_copied
  <2>1. program.kind[root] = "memcpy" /\ copied \in Value /\ copied = program.source[root]
    BY <1>2, <1>6 DEF root_search_copied, copied
  <2>2. program.kind[copied] = "gep" \/ (hasToSearch(copied) /\ ~contains(frame.path, copied))
    BY <1>6 DEF root_search_copied, hasToSearch
  <2>3. goesOn(frame.call, frame.path)
    BY <1>2, <2>1, <2>2 DEF goesOn
  <2>4. Below(rank, NoValue, program.paths[copied], root)
    BY <1>2, <2>1, <2>2 DEF DescentInv, FlowsDown
  <2> QED BY <1>4, <1>6, <2>1, <2>3, <2>4 DEF root_search_copied
<1>7. CASE root_next
  <2> DEFINE g == [frame EXCEPT !.todo = Tail(@)]
             r == Root(NoValue, Head(frame.todo))
  <2>1. frame.todo # <<>> /\ CallFrom(g, r) /\ frame.searching
    BY <1>7 DEF root_next
  <2>2. g \in RootFrame
    BY <1>1, <1>2, <2>1, NextPath DEF RootFrame
  <2>3. r \in RootFrame
    BY <1>2, <2>1, NextPath DEF RootFrame, Root
  <2>4. /\ g.fn = "find_type_root" /\ g.call = frame.call /\ g.path = frame.path
        /\ g.todo = Tail(frame.todo)
    BY <1>1 DEF RootFrame
  <2>5. r.fn = "find_type_root" /\ r.call = NoValue /\ r.path = Head(frame.todo) /\ ~r.searching
    BY DEF Root
  <2> HIDE DEF g, r
  <2>6. goesOn(frame.call, frame.path) /\ Below(rank, NoValue, frame.todo, root)
    BY <1>1, <1>2, <2>1, ReplacesItself DEF Prepared
  <2>7. weight(rank, g) = weight(rank, frame)
    BY <1>2, <2>2, <2>4, <2>6, WeightType
  <2>8. Prepared(rank, g)
    BY <1>2, <2>1, <2>4, <2>6, NextBelow DEF Prepared
  <2>9. Replaces(rank, g)
    BY <1>2, <2>2, <2>4, <2>7, <2>8 DEF Replaces
  <2>10. weight(rank, r) < weight(rank, frame)
    <3>1. weight(rank, r) = IF goesOn(r.call, r.path) THEN 2 * rank[value(r.path)] + 2 ELSE 0
      BY <2>3, <2>5, WeightType
    <3>2. rank[value(r.path)] \in Nat
      BY <2>3, <2>5, WeightType
    <3>3. goesOn(r.call, r.path) => rank[value(r.path)] < rank[root]
      BY <1>2, <2>1, <2>5, <2>6, NextBelow
    <3> QED BY <1>2, <2>6, <3>1, <3>2, <3>3
  <2>11. Prepared(rank, r)
    BY <2>5 DEF Prepared
  <2> QED BY <1>1, <2>1, <2>3, <2>9, <2>10, <2>11, CallFromDescends
<1>8. CASE root_allocation
  <2> DEFINE source == resolve_auto_callbase_config(root)
             f == TypeFor(root, source)
  <2>1. source = resolve_callbase_config(root, auto)
    BY DEF resolve_callbase_config, auto
  <2>2. CASE hasSource(root, source)
    <3>1. Call(f)
      BY <1>8, <2>2 DEF root_allocation
    <3>2. f \in TypeForFrame
      BY <1>2, <2>1, <2>2, SourceType
    <3>3. f.fn = "type_for" /\ f.of = root /\ f.from = source.from /\ f.todo = pathsFrom(root, source)
      BY DEF TypeFor
    <3>4. goesOn(frame.call, frame.path)
      BY <1>2, <1>8 DEF root_allocation, goesOn
    <3>5. Below(rank, handedOn(root, source.from), pathsFrom(root, source), root)
      <4>1. isCall(root)
        BY <1>8 DEF root_allocation, isCall
      <4> QED BY <1>2, <2>1, <2>2, <4>1 DEF DescentInv, FlowsDown
    <3> HIDE DEF source, f
    <3>6. weight(rank, f) < weight(rank, frame)
      BY <1>2, <3>2, <3>3, <3>4, WeightType
    <3>7. Prepared(rank, f)
      BY <3>3, <3>5 DEF Prepared
    <3> QED BY <1>1, <3>1, <3>2, <3>6, <3>7, CallDescends
  <2>3. CASE ~hasSource(root, source)
    BY <1>1, <1>8, <2>3, ReturnDescends DEF root_allocation
  <2> QED BY <2>2, <2>3
<1>9. CASE root_take_answer
  BY <1>1, <1>9, ReplacesItself, ReturnDescends, ResumeDescends DEF root_take_answer
<1> QED BY <1>3, <1>5, <1>6, <1>7, <1>8, <1>9

LEMMA DescentStep ==
    ASSUME TypeInv, NEW rank \in [Value -> Nat], DescentInv(rank), [Next]_vars
    PROVE  DescentInv(rank)'
<1>1. ASSUME stack = <<>>, UNCHANGED <<program, stack>>
      PROVE  DescentInv(rank)'
  BY <1>1, SameFlow DEF DescentInv, Descends, AskedFirst
<1>2. CASE Query
  <2> SUFFICES ASSUME NEW v \in Value,
                      (\E config \in Configs : type_for(v, config)) \/ type_for_variable(v)
               PROVE  DescentInv(rank)'
    BY <1>2 DEF Query
  <2>1. stack = <<>>
    <3>1. queried.value = NoValue
      BY DEF type_for, type_for_variable, Asks, NoQuery
    <3>2. ASSUME stack # <<>> PROVE FALSE
      <4>1. stack[1] \in TypeForFrame \cup RootFrame
        BY <3>2 DEF TypeInv
      <4>2. stack[1].fn = "type_for" /\ stack[1].of = NoValue
        BY <3>1, <3>2 DEF DescentInv, AskedFirst
      <4> QED BY <4>1, <4>2, NoValueAssumption DEF TypeForFrame, RootFrame
    <3> QED BY <3>2
  <2>2. ASSUME NEW config \in Configs, type_for(v, config) PROVE DescentInv(rank)'
    <3> DEFINE source == resolve_callbase_config(v, config)
               f == TypeFor(v, source)
    <3>1. program' = program /\ queried'.value = v
      BY <2>2 DEF type_for, Asks
    <3>2. CASE hasSource(v, source)
      <4>1. f \in TypeForFrame
        BY <3>2, SourceType
      <4>2. f.fn = "type_for" /\ f.of = v /\ f.from = source.from /\ f.todo = pathsFrom(v, source)
        BY DEF TypeFor
      <4>3. stack' = <<f>>
        BY <2>2, <3>2 DEF type_for
      <4>4. Below(rank, handedOn(v, source.from), pathsFrom(v, source), v)
        BY <2>2, <3>2 DEF DescentInv, FlowsDown, type_for
      <4> HIDE DEF source, f
      <4>5. Prepared(rank, f)
        BY <4>2, <4>4 DEF Prepared
      <4>6. (\A i \in DOMAIN stack : Prepared(rank, stack[i]))'
        BY <3>1, <4>3, <4>5, SamePrepared
      <4>7. Descends(rank)'
        BY <4>3 DEF Descends
      <4>8. AskedFirst'
        BY <3>1, <4>2, <4>3 DEF AskedFirst
      <4> QED BY <3>1, <4>6, <4>7, <4>8, SameFlow DEF DescentInv
    <3>3. CASE ~hasSource(v, source)
      BY <1>1, <2>1, <2>2, <3>1, <3>3 DEF type_for
    <3> QED BY <3>2, <3>3
  <2>3. CASE type_for_variable(v)
    BY <1>1, <2>1, <2>3 DEF type_for_variable, Asks
  <2> QED BY <2>2, <2>3
<1>3. CASE TakeResult \/ type_for_data
  BY <1>1, <1>3 DEF TakeResult, type_for_data
<1>4. CASE type_for_local \/ type_for_newlike \/ type_for_next \/ type_for_return \/ collect_type
  BY <1>4, TypeForDescends
<1>5. CASE \/ root_leaf \/ root_call \/ root_named_alloca \/ root_search_alloca
           \/ root_memcpy \/ root_search_copied \/ root_next \/ root_exhausted
           \/ root_is_the_call \/ root_allocation \/ root_take_answer
  BY <1>5, RootDescends
<1>6. CASE UNCHANGED vars
  BY <1>6, SameFlow, SameWeight, SamePrepared DEF vars, DescentInv, Descends, AskedFirst
<1> QED BY <1>2, <1>3, <1>4, <1>5, <1>6 DEF Next, Progress

LEMMA DescentFlows ==
    ASSUME NEW rank \in [Value -> Nat]
    PROVE  Spec /\ FlowsDown(rank) => [](TypeInv /\ DescentInv(rank))
<1>1. Init /\ FlowsDown(rank) => TypeInv /\ DescentInv(rank)
  BY TypeInit DEF Init, DescentInv, Descends, AskedFirst
<1>2. (TypeInv /\ DescentInv(rank)) /\ [Next]_vars => (TypeInv /\ DescentInv(rank))'
  BY TypeStep, DescentStep
<1> QED BY <1>1, <1>2, PTL DEF Spec

\* Where pointers flow one way, each frame has less to do than its caller.
THEOREM Descent ==
    ASSUME NEW rank \in [Value -> Nat]
    PROVE  Spec /\ FlowsDown(rank) => []Descends(rank)
<1>1. DescentInv(rank) => Descends(rank)
  BY DEF DescentInv
<1> QED BY <1>1, DescentFlows, PTL

\* Where pointers flow one way, no question is asked while it is answered.
THEOREM NotReentered ==
    ASSUME NEW rank \in [Value -> Nat]
    PROVE  Spec /\ FlowsDown(rank) => []QuestionNotReentered
<1>1. ASSUME TypeInv, DescentInv(rank) PROVE QuestionNotReentered
  <2> SUFFICES ASSUME NEW i \in DOMAIN stack, NEW j \in DOMAIN stack,
                      question(stack[i]) = question(stack[j]), i < j
               PROVE  FALSE
    <3>1. DOMAIN stack \subseteq Nat
      BY <1>1 DEF TypeInv
    <3> QED BY <3>1 DEF QuestionNotReentered
  <2>1. i \in Nat /\ j \in Nat /\ {stack[i], stack[j]} \subseteq TypeForFrame \cup RootFrame
    BY <1>1 DEF TypeInv
  <2>2. stack[i].fn = stack[j].fn
    BY <2>1 DEF question, TypeForFrame, RootFrame
  <2>3. stack[i].fn = "type_for" => stack[i].of = stack[j].of
    BY <2>1, <2>2 DEF question
  <2>4. stack[i].fn = "find_type_root" => stack[i].call = stack[j].call /\ stack[i].path = stack[j].path
    BY <2>1, <2>2 DEF question
  <2>5. weight(rank, stack[i]) = weight(rank, stack[j])
    BY <2>2, <2>3, <2>4 DEF weight
  <2>6. weight(rank, stack[j]) + (j - i) <= weight(rank, stack[i])
    BY <1>1 DEF DescentInv, Descends
  <2>7. weight(rank, stack[i]) \in Nat
    BY <1>1, <2>1, WeightType
  <2> QED BY <2>1, <2>5, <2>6, <2>7
<1> QED BY <1>1, DescentFlows, PTL

\* Where pointers flow one way, the recursion is no deeper than twice as far as
\* they flow from the value that was asked about.
THEOREM DepthBounded ==
    ASSUME NEW rank \in [Value -> Nat]
    PROVE  Spec /\ FlowsDown(rank) => [](stack # <<>> => Len(stack) <= 2 * rank[queried.value] + 2)
<1>1. ASSUME TypeInv, DescentInv(rank), stack # <<>>
      PROVE  Len(stack) <= 2 * rank[queried.value] + 2
  <2> DEFINE n == Len(stack)
  <2>1. n \in Nat \ {0} /\ DOMAIN stack = 1 .. n
    BY <1>1, RunningFrame
  <2>2. stack[1] \in TypeForFrame \cup RootFrame /\ stack[n] \in TypeForFrame \cup RootFrame
    BY <1>1, <2>1 DEF TypeInv
  <2>3. stack[1].fn = "type_for" /\ stack[1].of = queried.value
    BY <1>1 DEF DescentInv, AskedFirst
  <2>4. /\ weight(rank, stack[1]) = 2 * rank[queried.value] + 1
        /\ rank[queried.value] \in Nat /\ weight(rank, stack[n]) \in Nat
    BY <1>1, <2>2, <2>3, WeightType
  <2>5. n > 1 => weight(rank, stack[n]) + (n - 1) <= weight(rank, stack[1])
    BY <1>1, <2>1 DEF DescentInv, Descends
  <2> QED BY <2>1, <2>4, <2>5
<1> QED BY <1>1, DescentFlows, PTL

==============================================================================
