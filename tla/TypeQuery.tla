------------------------------ MODULE TypeQuery ------------------------------
(****************************************************************************)
(* The recursion that answers "what type is allocated here?": type_for      *)
(* (lib/type/Dimeta.cpp) chooses where to look for the type of a call, and  *)
(* collects a type per dataflow path with find_type_root                    *)
(* (lib/type/DIRootType.cpp), which for some ends of a path asks again: an  *)
(* unnamed alloca is searched forward, a memcpy continues at its source,    *)
(* and another allocation starts a type_for of its own.  located_type_for   *)
(* (lib/type/SourceLocType.cpp) sets the pointers of the type right.        *)
(*                                                                          *)
(* The C++ call stack is the variable stack; an action is a step of the     *)
(* frame on its top.  The dataflow results are data here (HeapDataflow      *)
(* models how they come about): paths[v] is what type_for_heap_call returns *)
(* for a call, path_from_alloca for an alloca and path_from_value for a gep *)
(* or an argument of a call.  A debug type is represented by a value it     *)
(* describes; what find_type does with a root type (TypeExtraction) never   *)
(* loses it, so the type of a path stands for the one extracted along it.   *)
(****************************************************************************)
EXTENDS ValuePath, Integers, FiniteSets

CONSTANTS
    Value,      \* IR values, and debug types of nothing else
    NoValue,    \* std::nullopt and nullptr
    Programs,   \* records of what is known of each value, see below
    Configs,    \* records [dataflow, index, level] (CallBaseTypeConfig)
    MaxDepth    \* bound: frames on the C++ call stack

\* A call is malloclike also when MemOps does not name the function as one of
\* the others; operator new is newlike.
Allocator == {"malloclike", "newlike", "cudalike", "mpilike", "fortranlike"}

Kind == Allocator \cup {"ret", "call", "indirect", "global", "argument", "alloca", "memcpy", "gep", "store"}

NoType == NoValue

Path == Seq(Value) \ {<<>>}

(****************************************************************************)
(* For each value v of a program:                                           *)
(*   kind[v]       what it is                                               *)
(*   known[v]      does debug info name it: a variable (find_local_variable,*)
(*                 the !dbg of a global) or a signature (ret, argument)? Is *)
(*                 a heapallocsite a type?                                  *)
(*   tags[v]       its debug type, the tags from the outermost on           *)
(*   paths[v]      the dataflow paths from it                               *)
(*   source[v]     what a memcpy copies                                     *)
(*   stored[v]     the argument that is stored to an alloca                 *)
(*   args[v]       the operands of a call                                   *)
(*   signature[v]  the type array of the function a call calls, or <<>>     *)
(*   site[v]       what a call has as its heapallocsite metadata            *)
(*   element[v]    the element type when the variable of a call is an array *)
(*                 that has been split                                      *)
(* this: the calls whose variable is named "this"; flang: the allocas that  *)
(* are passed to a helper of the Fortran run-time.                          *)
(*                                                                          *)
(* An allocation function has the arguments of its prototype; a signature   *)
(* has the return type and all arguments, which type_of_call_argument       *)
(* asserts (a variadic call has none here).                                 *)
(****************************************************************************)
ASSUME ProgramsAssumption ==
    \A p \in Programs :
        /\ p.kind \in [Value -> Kind]
        /\ p.known \in [Value -> BOOLEAN]
        /\ p.tags \in [Value -> Seq(STRING)]
        /\ p.paths \in [Value -> Seq(Path)]
        /\ p.args \in [Value -> Seq(Value)]
        /\ p.signature \in [Value -> Seq(Value \cup {NoValue})]
        /\ {p.source, p.stored, p.site, p.element} \subseteq [Value -> Value \cup {NoValue}]
        /\ \A v \in Value :
             /\ p.kind[v] = "memcpy" => p.source[v] \in Value
             /\ p.kind[v] = "cudalike" => p.args[v] # <<>>
             /\ p.kind[v] = "mpilike" => Len(p.args[v]) >= 3
             /\ p.signature[v] # <<>> => Len(p.args[v]) < Len(p.signature[v])

ASSUME NoValueAssumption == NoValue \notin Value

ASSUME ConfigsAssumption ==
    Configs \subseteq [dataflow : {"auto", "return", "argument"}, index : Nat \ {0}, level : Int]

VARIABLES
    program,
    queried,    \* the value and the configuration the library was asked about
    data,       \* DimetaData, the result of the last query
    stack,      \* the frames, the running one at the end
    answer,     \* the type the frame that returned last hands to its caller
    returning   \* is there such an answer to be taken?

vars == <<program, queried, data, stack, answer, returning>>

(****************************************************************************)
(* Where a call is looked at for its type.                                  *)
(****************************************************************************)

Source(from, index, level) ==
    [from |-> from, argument_index |-> index, pointer_level_offset |-> level]

NoSource == Source("nothing", 0, 0)

\* Mutant: the type of the object is taken for that of the pointer to it.
resolve_auto_callbase_config_NoLevel(c) ==
    CASE program.kind[c] = "fortranlike" -> Source("descriptor", 1, 0)
      [] program.kind[c] = "cudalike" -> Source("argument", 1, 0)
      [] program.kind[c] = "mpilike" -> Source("argument", 3, 0)
      [] program.kind[c] = "newlike" /\ program.site[c] # NoValue -> Source("allocsite", 1, 0)
      [] program.kind[c] = "malloclike" \/ (program.kind[c] = "newlike" /\ program.site[c] = NoValue) ->
            Source("return", 1, 0)
      [] OTHER -> NoSource

\* The arguments count from one.
resolve_auto_callbase_config(c) ==
    CASE program.kind[c] = "fortranlike" -> Source("descriptor", 1, 0)
      [] program.kind[c] = "cudalike" -> Source("argument", 1, 0)
      [] program.kind[c] = "mpilike" -> Source("argument", 3, 0)
      [] program.kind[c] = "newlike" /\ program.site[c] # NoValue -> Source("allocsite", 1, 1)
      [] program.kind[c] = "malloclike" \/ (program.kind[c] = "newlike" /\ program.site[c] = NoValue) ->
            Source("return", 1, 0)
      [] OTHER -> NoSource

resolve_callbase_config(c, config) ==
    CASE config.dataflow = "auto" -> resolve_auto_callbase_config(c)
      [] config.dataflow = "return" -> Source("return", 1, config.level)
      [] config.dataflow = "argument" ->
            IF config.index > Len(program.args[c]) THEN NoSource
            ELSE Source("argument", config.index, config.level)

auto == [dataflow |-> "auto", index |-> 1, level |-> 0]

\* A call without a source, or of the Fortran run-time without an argument,
\* has no type.
hasSource(c, source) ==
    source # NoSource /\ (source.from = "descriptor" => program.args[c] # <<>>)

pathsFrom(c, source) ==
    CASE source.from = "return" -> program.paths[c]
      [] source.from = "allocsite" -> <<>>
      [] OTHER -> program.paths[program.args[c][source.argument_index]]

(****************************************************************************)
(* The call stack.                                                          *)
(****************************************************************************)

\* A frame of type_for: the call, the paths collect_types has still to visit,
\* the types it collected.  A frame of find_type_root: the call of its
\* CallValuePath (or NoValue), its path, and the paths of the alloca or gep
\* it is searching, once it does.
TypeFor(c, source) ==
    [fn |-> "type_for", of |-> c, from |-> source.from, index |-> source.argument_index,
     todo |-> pathsFrom(c, source), types |-> <<>>]

Root(c, p) == [fn |-> "find_type_root", call |-> c, path |-> p, searching |-> FALSE, todo |-> <<>>]

frame == stack[Len(stack)]

callers == SubSeq(stack, 1, Len(stack) - 1)

Running(fn) == stack # <<>> /\ frame.fn = fn /\ ~returning

Call(f) ==
    /\ Len(stack) < MaxDepth
    /\ stack' = Append(stack, f)
    /\ UNCHANGED <<program, queried, data, answer, returning>>

\* Suspends the running frame, changed to g, in a call of f.
CallFrom(g, f) ==
    /\ Len(stack) < MaxDepth
    /\ stack' = callers \o <<g, f>>
    /\ UNCHANGED <<program, queried, data, answer, returning>>

Return(type) ==
    /\ stack' = callers
    /\ answer' = type
    /\ returning' = TRUE
    /\ UNCHANGED <<program, queried, data>>

\* The running frame goes on as g, past an answer it has taken.
Resume(g) ==
    /\ stack' = callers \o <<g>>
    /\ answer' = NoType
    /\ returning' = FALSE
    /\ UNCHANGED <<program, queried, data>>

typeOf(v) == IF program.known[v] THEN v ELSE NoType

(****************************************************************************)
(* The queries.                                                             *)
(****************************************************************************)

derived == {"pointer", "reference", "typedef", "const", "member"}

pointers(tags) == Cardinality({i \in DOMAIN tags : tags[i] = "pointer"})

\* final_ditype: the pointers above the first type that is not derived.
pointer_level(tags) ==
    LET derivedAbove(i) == \A j \in 1 .. i : tags[j] \in derived
    IN  Cardinality({i \in DOMAIN tags : derivedAbove(i) /\ tags[i] = "pointer"})

NoData == [found |-> FALSE, entry_type |-> NoType, pointer_level |-> 0]

DimetaData(type, offset) ==
    [found |-> TRUE, entry_type |-> type,
     pointer_level |-> offset + IF type = NoType THEN 0 ELSE pointer_level(program.tags[type])]

NoQuery == [value |-> NoValue, config |-> auto]

Init ==
    /\ program \in Programs
    /\ queried = NoQuery
    /\ data = NoData
    /\ stack = <<>>
    /\ answer = NoType
    /\ returning = FALSE

Asks(v, config) ==
    /\ queried = NoQuery
    /\ queried' = [value |-> v, config |-> config]
    /\ UNCHANGED <<program, answer, returning>>

isCall(v) == program.kind[v] \in Allocator \cup {"call", "indirect"}

type_for(c, config) ==
    /\ isCall(c)
    /\ Asks(c, config)
    /\ data' = NoData
    /\ LET source == resolve_callbase_config(c, config)
       IN  stack' = IF hasSource(c, source) THEN <<TypeFor(c, source)>> ELSE <<>>

\* What is asked for explicitly and not found is no result, while a call that
\* is an allocator has one without a type.
type_for_data ==
    /\ stack = <<>> /\ returning
    /\ data' = IF queried.config.dataflow # "auto" /\ answer = NoType THEN NoData
               ELSE DimetaData(answer,
                       resolve_callbase_config(queried.value, queried.config).pointer_level_offset)
    /\ answer' = NoType
    /\ returning' = FALSE
    /\ UNCHANGED <<program, queried, stack>>

\* The caller uses the result, and may ask again.
TakeResult ==
    /\ queried # NoQuery /\ stack = <<>> /\ ~returning
    /\ queried' = NoQuery
    /\ data' = NoData
    /\ UNCHANGED <<program, stack, answer, returning>>

\* A variable on the stack or a global one has its own type.
type_for_variable(v) ==
    /\ program.kind[v] \in {"alloca", "global"}
    /\ Asks(v, auto)
    /\ data' = IF program.known[v] /\ v \notin program.flang THEN DimetaData(v, 0) ELSE NoData
    /\ UNCHANGED stack

\* reset_pointer_qualifier: of the pointers that are missing one is added.
reset_pointer_qualifier(count, level) == IF count < level THEN count + 1 ELSE count

\* The pointers of the located type.  A member stands for its type.
located_pointers ==
    LET tags == program.tags[data.entry_type]
        type == IF Head(tags) = "member" THEN Tail(tags) ELSE tags
    IN  reset_pointer_qualifier(pointers(type), data.pointer_level)

(****************************************************************************)
(* type_for_malloclike, type_for_newlike, collect_types.                    *)
(****************************************************************************)

\* The debug variable the allocation is assigned to has the type.
hasLocal == frame.from = "return" /\ program.known[frame.of]

\* get_array_access_assignment
type_for_local ==
    /\ Running("type_for")
    /\ hasLocal
    /\ Return(IF program.element[frame.of] # NoValue THEN program.element[frame.of] ELSE frame.of)

\* The metadata need not be a type: an operator new that is called for a void*.
type_for_newlike ==
    /\ Running("type_for")
    /\ frame.from = "allocsite"
    /\ Return(typeOf(program.site[frame.of]))

\* The call that belongs to a path of it.
handedOn(c, from) == IF from = "argument" THEN NoValue ELSE c

\* The loop of collect_types; it visits every path, also after a type is found.
type_for_next ==
    /\ Running("type_for")
    /\ ~hasLocal
    /\ frame.todo # <<>>
    /\ CallFrom([frame EXCEPT !.todo = Tail(@)],
                Root(handedOn(frame.of, frame.from), Head(frame.todo)))

\* Mutant: the type collected last is the answer.
type_for_return_Last ==
    /\ Running("type_for")
    /\ ~hasLocal /\ frame.from # "allocsite"
    /\ frame.todo = <<>>
    /\ Return(IF frame.types = <<>> THEN NoType ELSE frame.types[Len(frame.types)])

type_for_return ==
    /\ Running("type_for")
    /\ ~hasLocal /\ frame.from # "allocsite"
    /\ frame.todo = <<>>
    /\ Return(IF frame.types = <<>> THEN NoType ELSE Head(frame.types))

\* Mutant: a path without a type is collected, too.
collect_type_Unfiltered ==
    /\ stack # <<>> /\ returning
    /\ frame.fn = "type_for"
    /\ Resume([frame EXCEPT !.types = Append(@, answer)])

\* optional_back_inserter drops the paths without a type.
collect_type ==
    /\ stack # <<>> /\ returning
    /\ frame.fn = "type_for"
    /\ Resume(IF answer = NoType THEN frame ELSE [frame EXCEPT !.types = Append(@, answer)])

(****************************************************************************)
(* find_type_root.                                                          *)
(****************************************************************************)

root == value(frame.path)

\* get_return_type_of: from the signature of the function, or the variable the
\* call is assigned to, unless it is an object's own.
get_return_type_of(call) ==
    IF program.signature[call] # <<>> THEN Head(program.signature[call])
    ELSE IF call \in program.this THEN NoType ELSE typeOf(call)

\* type_of_call_argument: from the signature, where the return type is first.
type_of_call_argument(call, arg) ==
    LET at == {i \in DOMAIN program.args[call] : program.args[call][i] = arg}
    IN  IF at = {} \/ program.signature[call] = <<>> THEN NoType
        ELSE program.signature[call][1 + CHOOSE i \in at : \A j \in at : i <= j]

\* A store to what the call returns, an argument of it, or the call alone.
type_of_call(call, path) ==
    IF program.kind[start_value(path)] = "store" /\ get_return_type_of(call) # NoType
    THEN get_return_type_of(call)
    ELSE IF only_start(path) THEN get_return_type_of(call)
    ELSE type_of_call_argument(call, previous_value(path))

\* A return, global or argument has the type its debug info gives; a store ends
\* no path that has a type, nor does a call through a pointer.
root_leaf ==
    /\ Running("find_type_root")
    /\ program.kind[root] \in {"ret", "global", "argument", "store", "indirect"}
    /\ Return(IF program.kind[root] \in {"store", "indirect"} THEN NoType ELSE typeOf(root))

root_call ==
    /\ Running("find_type_root")
    /\ program.kind[root] = "call"
    /\ Return(type_of_call(root, frame.path))

\* An alloca is a local variable, or has the type of the argument stored there.
isTyped(alloca) == program.known[alloca] \/ program.stored[alloca] # NoValue

type_of_alloca(alloca) ==
    IF program.known[alloca] THEN alloca ELSE typeOf(program.stored[alloca])

root_named_alloca ==
    /\ Running("find_type_root")
    /\ program.kind[root] = "alloca"
    /\ isTyped(root)
    /\ Return(type_of_alloca(root))

\* Looks at the paths that start at v, one after the other.
search(v) == stack' = callers \o <<[frame EXCEPT !.searching = TRUE, !.todo = program.paths[v]]>>

root_search_alloca ==
    /\ Running("find_type_root")
    /\ program.kind[root] = "alloca"
    /\ ~isTyped(root)
    /\ ~frame.searching
    /\ search(root)
    /\ UNCHANGED <<program, queried, data, answer, returning>>

copied == program.source[root]

\* The source of the memcpy tells the type, or is already on the path.
root_memcpy ==
    /\ Running("find_type_root")
    /\ program.kind[root] = "memcpy"
    /\ ~frame.searching
    /\ \/ program.kind[copied] = "alloca" /\ (isTyped(copied) \/ contains(frame.path, copied))
       \/ program.kind[copied] \notin {"alloca", "gep"}
    /\ Return(CASE program.kind[copied] = "alloca" /\ isTyped(copied) -> type_of_alloca(copied)
                [] program.kind[copied] = "global" -> typeOf(copied)
                [] OTHER -> NoType)

\* Mutant: the source is searched although the path came from it.
root_search_copied_Again ==
    /\ Running("find_type_root")
    /\ program.kind[root] = "memcpy"
    /\ ~frame.searching
    /\ program.kind[copied] = "gep" \/ (program.kind[copied] = "alloca" /\ ~isTyped(copied))
    /\ search(copied)
    /\ UNCHANGED <<program, queried, data, answer, returning>>

root_search_copied ==
    /\ Running("find_type_root")
    /\ program.kind[root] = "memcpy"
    /\ ~frame.searching
    /\ \/ program.kind[copied] = "gep"
       \/ /\ program.kind[copied] = "alloca"
          /\ ~isTyped(copied)
          /\ ~contains(frame.path, copied)
    /\ search(copied)
    /\ UNCHANGED <<program, queried, data, answer, returning>>

\* The next path of the search; these paths belong to no call.
root_next ==
    /\ Running("find_type_root")
    /\ frame.searching
    /\ frame.todo # <<>>
    /\ CallFrom([frame EXCEPT !.todo = Tail(@)], Root(NoValue, Head(frame.todo)))

root_exhausted ==
    /\ Running("find_type_root")
    /\ frame.searching
    /\ frame.todo = <<>>
    /\ Return(NoType)

\* The allocation the query is about.
root_is_the_call ==
    /\ Running("find_type_root")
    /\ program.kind[root] \in Allocator
    /\ root = frame.call
    /\ Return(NoType)

\* Mutant: nobody looks whether it is the allocation the query is about.
root_allocation_Unchecked ==
    /\ Running("find_type_root")
    /\ program.kind[root] \in Allocator
    /\ hasSource(root, resolve_auto_callbase_config(root))
    /\ Call(TypeFor(root, resolve_auto_callbase_config(root)))

\* Another allocation: the public type_for is called for it.
root_allocation ==
    /\ Running("find_type_root")
    /\ program.kind[root] \in Allocator
    /\ root # frame.call
    /\ LET source == resolve_auto_callbase_config(root)
       IN  IF hasSource(root, source) THEN Call(TypeFor(root, source)) ELSE Return(NoType)

\* The first path of a search with a type decides; the type_for of another
\* allocation decides in any case.
root_take_answer ==
    /\ stack # <<>> /\ returning
    /\ frame.fn = "find_type_root"
    /\ IF answer # NoType \/ ~frame.searching THEN Return(answer) ELSE Resume(frame)

Progress ==
    \/ type_for_data
    \/ type_for_local \/ type_for_newlike \/ type_for_next \/ type_for_return \/ collect_type
    \/ root_leaf \/ root_call \/ root_named_alloca \/ root_search_alloca
    \/ root_memcpy \/ root_search_copied \/ root_next \/ root_exhausted
    \/ root_is_the_call \/ root_allocation \/ root_take_answer

Query == \E v \in Value : (\E config \in Configs : type_for(v, config)) \/ type_for_variable(v)

Next == Query \/ TakeResult \/ Progress

\* Once asked, the library computes until it answers: sequential code.
Spec == Init /\ [][Next]_vars /\ WF_vars(Progress)

(****************************************************************************)
(* Properties.                                                              *)
(****************************************************************************)

TypeForFrame ==
    [fn : {"type_for"}, of : Value, from : {"return", "argument", "descriptor", "allocsite"}, index : Nat,
     todo : Seq(Path), types : Seq(Value)]

RootFrame ==
    [fn : {"find_type_root"}, call : Value \cup {NoValue}, path : Path, searching : BOOLEAN, todo : Seq(Path)]

TypeOK ==
    /\ program.kind \in [Value -> Kind]
    /\ queried.value \in Value \cup {NoValue} /\ queried.config \in Configs \cup {auto}
    /\ data \in [found : BOOLEAN, entry_type : Value \cup {NoType}, pointer_level : Int]
    /\ stack \in Seq(TypeForFrame \cup RootFrame)
    /\ answer \in Value \cup {NoType}
    /\ returning \in BOOLEAN

\* What a frame is computing: nothing but this decides what it does.
question(f) == IF f.fn = "type_for" THEN <<"type_for", f.of, f.from, f.index>>
               ELSE <<"find_type_root", f.call, f.path>>

\* No question is asked again while it is being answered: a self-referential
\* determination would recurse for ever.
QuestionNotReentered ==
    \A i, j \in DOMAIN stack : question(stack[i]) = question(stack[j]) => i = j

(****************************************************************************)
(* Why the recursion ends.  A root goes on when it is one that find_type_   *)
(* root looks behind: another allocation than the one the path was found    *)
(* for, an alloca without a type, a copy of something without a type that   *)
(* is not on the path.  Pointers flow down when the roots that go on can be *)
(* ranked: what is found behind a value and goes on again has less rank.    *)
(****************************************************************************)

hasToSearch(v) == program.kind[v] = "alloca" /\ ~isTyped(v)

goesOn(call, p) ==
    LET v == value(p)
        source == program.source[v]
    IN  \/ program.kind[v] \in Allocator /\ v # call
        \/ hasToSearch(v)
        \/ /\ program.kind[v] = "memcpy"
           /\ \/ program.kind[source] = "gep"
              \/ hasToSearch(source) /\ ~contains(p, source)

Below(rank, call, ps, v) ==
    \A i \in DOMAIN ps : goesOn(call, ps[i]) => rank[value(ps[i])] < rank[v]

FlowsDown(rank) ==
    \A v \in Value :
        /\ isCall(v) => \A config \in Configs \cup {auto} :
             LET source == resolve_callbase_config(v, config)
             IN  hasSource(v, source) => Below(rank, handedOn(v, source.from), pathsFrom(v, source), v)
        /\ hasToSearch(v) => Below(rank, NoValue, program.paths[v], v)
        /\ program.kind[v] = "memcpy" =>
             LET source == program.source[v]
             IN  program.kind[source] = "gep" \/ hasToSearch(source)
                   => Below(rank, NoValue, program.paths[source], v)

\* How many frames can still be called from a frame.
weight(rank, f) ==
    CASE f.fn = "type_for" -> 2 * rank[f.of] + 1
      [] f.fn = "find_type_root" /\ goesOn(f.call, f.path) -> 2 * rank[value(f.path)] + 2
      [] OTHER -> 0

\* Each frame has less to do than the one that called it.
Descends(rank) ==
    \A i, j \in DOMAIN stack : i < j => weight(rank, stack[j]) + (j - i) <= weight(rank, stack[i])

Answered == queried # NoQuery /\ stack = <<>> /\ ~returning

\* Each query is answered: the recursion between type_for and find_type_root
\* ends (at MaxDepth a frame is stuck, so the bound would show here).
QueryAnswered == stack # <<>> ~> Answered

==============================================================================
