# Verification of the ULAM compiler

Models of the parts of this compiler whose correctness depends on the order in
which things happen, checked with TLC, and theorems about them proved with
TLAPS.  `PROJECT.json` lists the runs, the source lines of each definition, the
hazards of the code with the properties that look for them, and the findings.

## The system

`culam` (`src/src/drivers/culam/main.cpp`) compiles ULAM, a language for
programs that run in the event windows of a cellular space, to C++.  It is one
process with one thread: there is no concurrency, nothing is stored between
runs, and nothing is sent.  What is hard is order.  A class can be mentioned
before its file has been found; a type can be named before anyone knows whether
it is a class or a typedef; the size of a class can depend on a constant that
depends on the size of another class.  The compiler therefore hands out names
for things it does not know yet, goes round over the whole program until
nothing is unknown any more, and gives up after a fixed number of rounds.

    compileFiles
      |  SourceStream, Preparser, Lexer, Parser      text -> tree, symbols, UTIs
      |     rounds over the files of unseen classes
      v
    checkAndTypeLabelProgram
      |  updateLineageAndFirstCheckAndLabelPass
      |  resolvingLoop, until nothing is unknown or MAX_ITERATIONS
      |     sizes, class arguments, instances of templates, labelling
      |  calcMaxIndexOfVirtualFunctions, until all tables are laid out
      |  abstract classes, bit layout, default values
      v
    generateCodeForUlamClasses                       C++ text

All passes share `CompilerState`: the type table, the program table of classes,
the string pool, the stacks of contexts, the counts of errors.

### Inventory

| component | state it keeps | operations | hard behaviour | correct when |
|---|---|---|---|---|
| Type table (`CompilerState.cpp`) | `m_indexToUlamKey`, `m_definedUlamTypes`, `m_keyToAnyUTI`, `m_unionRootUTI` | make, complete, replace, link, remove a type | every pass edits it while others hold UTIs; four containers must agree; UlamTypes are deleted when their count falls to zero | a UTI always has a UlamType, counts are exact, a class is in the program table, a type that is known stays what it is |
| Reading the sources (`Compiler::compileFiles`, `SourceStream`, `Preparser`, `Parser::parseProgram`) | open files, registered names, unseen classes, local definitions by file | push, pop, load, use, compileFile, rounds over unseen classes | files that load each other; classes mentioned at any time; files read before for another reason | every file that is needed is parsed once; the reading ends |
| Parser (`Parser.cpp`) | current class, block and function; loop and switch stacks | recursive descent | typedefs of classes not seen yet | the tree is that of the text |
| Lexer, string pool | the last byte, the pool | tokens, strings | user strings are shared in one pool with lengths | the tokens are those of the text |
| Class templates (`SymbolClassNameTemplate.cpp`, `Resolver.cpp`) | instances by their arguments, stubs, pending arguments | stub, instantiate, merge | instances become ready in any order and turn out to be the same | one instance for each list of arguments |
| Class sizing (`SymbolTableOfClasses`, `SymbolClass`, `SymbolTableOfVariables`) | sizes in the type table, `lostClassesIds`, `m_goAgain` | size a class with all it contains, label again | recursion with cycles and shared bases; waiting for each other; the limit | sizes add up, cycles are found, the loop ends and accepts nothing unsized |
| Size arithmetic | words of 32 bits | totals, limits | overflow | nothing over the limit is accepted |
| Virtual tables (`NodeBlockClass`, `SymbolClass`, `SymbolFunction`) | `m_vtable`, `m_basesVTstart`, index of a function | lay out, inherit, override | several bases, shared ones; order of classes; the limit | a call runs the most derived override; tables never change |
| Primitive types and operators (`UlamTypePrimitive*`, `NodeBinaryOp*`, `NodeUnaryOp*`, `NodeCast`, `NodeTerminal`) | the type of each node, folded constants | size a result, check and cast operands, fold, evaluate | widths, signs and words mix; labelled in several passes | what is accepted without a cast loses no value |
| The search for a function (`NodeFunctionCall`, `SymbolFunctionName`, `CompilerState::is...FuncIdInClassScope...`, `BaseclassWalker`) | the worklist, the class found, a count | look up a name, match exactly, match with safe casts, name the candidates | several bases in an order, shared ones; three searches with different rules | one function that takes the arguments, the nearest; a refusal has a reason |
| Other labelling (`Node*.cpp`) | the type of each node | check operands, insert casts, look up names | nodes wait (Hzy) and are visited again | the types are those of the language |
| Bit layout (`packBits...`, `buildDefaultValue`) | positions of data members and bases, default values, constants that are classes | pack, build, list values | asked for in the middle of the labelling, in any order; recursion over members, constants and bases; shared bases are stored once | every value is found where it was put |
| Evaluator (`CallStack`, `UEventWindow`, `eval` of the nodes) | two stacks of values, the current object and self, pointers in symbols | run `test()` of a class | frames and slots, references, recursion, statuses that leave many nodes at once, tests one after the other | values are those of the program, and of the C++; the stacks are as before |
| Registration (`defineRegistrationNumberForUlamClasses`) | numbers of classes | assign | zero is for UrSelf | numbers are unique |
| Code generation (`genCode` of the nodes) | temporary names | print C++ | gotos out of nested loops and switches | the C++ means the same |
| Error handler | counts, wait mode | count, switch mode | counts are cleared each round | an error is never lost |
| Drivers, file manager, scripts, stdlib | - | - | - | not modelled |

## The modules

| module | what it is |
|---|---|
| `UlamTypeTable` | the type table; `MCUlamTypeTable` instantiates it; `UlamTypeTableProofs` |
| `ClassSizing` | the resolving loop: sizes and labels; `ClassSizingProofs` |
| `BitLayout` | positions and default values in the same rounds, above `ClassSizing`; `MCBitLayout`; `ClassSizingProofs` is about both modules |
| `SizeLimits` | sizes in machine words; `MCSizeLimits`; `SizeLimitsProofs` |
| `VirtualTables` | the loop over virtual tables; `MCVirtualTables`; `VirtualTablesProofs` |
| `SourceLoad` | reading files; `MCSourceLoad`; `SourceLoadProofs` |
| `PrimitiveTypes` | values, casts and safe casts of the primitive types |
| `Operators` | expressions: labelling and values of arithmetic, comparisons, shifts and casts |
| `LogicOperators` | the other operators: on bits and truth values, increments, assignments, `c ? a : b`; `MCOperators`; `OperatorsProofs` is about both modules |
| `FunctionCalls` | the search for the function of a call, above `PrimitiveTypes`; `MCFunctionCalls`; `FunctionCallsProofs` |
| `ControlFlow` | statements: what is parsed, the slots of variables, what statements and generated code mean |
| `Evaluator` | the evaluator on the nodes of `ControlFlow`; `MCEvaluator` |
| `Induction` | lemmas on induction, recursive functions, sums and powers of two that the proofs share |

Operators whose name begins with `Bug` are wrong variants of the definition
after them; no specification uses one.  They show that each property can fail.

### UlamTypeTable

`table` is one record with the four containers (`key`, `typ`, `utis`, `root`)
and the length of the vectors.  Each C++ helper is an operator from tables to
tables, named after it where the name says what it does, and each action is a
whole handler that applies them in the order of the code, as
`makeUlamTypeFromHolder` does: delete the old key, perhaps create a UlamType,
count the new key, write the index, link the alias.  `prog` is
`m_programDefST`, `instances` and `stubs` what the templates keep, `generated`
the UTIs under a generated typedef, `parsing` the class being parsed, and
`labelling` tells whether the first labelling has begun: handlers of the parser
run before it and those of the labelling after.

Which handler runs next is up to the program that is compiled, so `Next` leaves
it open, with the guards the code has.  One primitive type stands for all.
An assertion of the code is part of the guard, since the compiler stops there:
`Cleanable` and `FromHolderAsserts` are those of `cleanupExistingHolder` and
`makeUlamTypeFromHolder`.  What all callers have made sure of is the other part:
what a holder turns out to be is no holder, and if it is a class, the caller
found it by its name (`KnownType`); it need not be complete nor be the end of
its links.  A typedef that the parser made up can take the key of any type.
`KnownTypeStays` is then a property of what the handlers do to each other: keys
are shared, so a handler that resizes, renames or deletes one type reaches all
that have its key.

What a typedef may name is decided by scopes, which are not modelled:
`LinkTypedef` and `ReplaceGeneratedTypedef` link any type to any other.  Nothing
is therefore said about the links themselves - that they end, within the seven
steps of `findRootUTIAlias`, and that what they end at is the same type.

Not in it: the incomplete types that are mapped while a template is copied, the
type `Nav` of what is in error, and the generated typedefs of local scopes.

### ClassSizing and BitLayout

One behaviour is one compilation: `prog` is chosen at the beginning and gives
the bases, data members and constants of each class, which of them are unions,
and the order of the table.  `SetBitSize(c)` is the visit of one class by
`setBitSizeOfTableOfClasses` with the whole recursion that it starts
(`TrySetBitsize`, over classes that are held by value, with the set that finds
cycles); `Label(c, ...)` is the labelling of one class as far as it changes
what can be sized.  `EndRound` is the end of a round with its three outcomes
and the change of mode at the limit.

In the code all base classes are shared, and a base, or the class of an array,
stays a holder until a labelling sees its class complete: `linked` and `known`
keep that.  A union forgets the size as a base of a class it sized on the way,
so that this class is sized again at its own turn; the model does the same.
The counts of unready nodes at the end of the labelling change nothing and are
left out.

`BitLayout` adds what the same steps do to the layout.  Its `CheckAndLabel(c)`
is `Label` with the folding of a constant whose type is a class: the classes it
is made of are packed (`PackBits`, `TryToPackAClassHierarchy`) and their
default values built (`GetDefaultClassValue`, `BuildDefaultValue`), each when it
is first asked for; then the list of the constant is written into the value
(`InitDataMembers`).  What cannot be done yet is a WAIT message of `Label`, and
what fails an error of it.  `PackAndBuild` is the two passes behind the loop.
The helpers are operators from layouts to layouts; a layout also carries the
classes whose values are being built, as `m_buildingDefaultValueInProgress`
does, and the class whose constant is being folded.  The two recursions of the
code, over bases (`PackHierarchy`) and over the classes a value is made of
(`GetDefaultClassValue`), are recursive functions of a class and a layout; what
each step does is an operator that is given the function (`Hierarchy`,
`ClassValue`), so that it can be proved about for whatever the function returns.

A value is a sequence of bits that are named for what they belong to, so that
`DefaultsAreReadBack` sees every bit that is written to a wrong place or over
another.  A constant that is a class is the last thing its class declares, and
its list names primitive members only.  Not in the two modules: templates,
elements with their headers, local variables, members with lists of their own,
arrays as constants, and what is read from a constant while others are folded
(see below for what goes wrong there).

### SizeLimits

The array types of a class and then the total of its data members, in words of
`Word` values: `Unsigned` and `Signed` are what a u32 and an s32 keep.  The
limits are kept in proportion.  The flags for unknown and cyclic sizes are
negative numbers among the values of a total, as in the code.

### VirtualTables

`prog` is a hierarchy with the declarations of each class.
`CalcMaxIndexOfVirtualFunctions(c)` is the visit of one class: `InitVTable`
copies the tables of the bases, replacing entries by overrides
(`InheritedEntry`), and `CalcVTable` applies `calcMaxIndexOfVirtualFunction` to
the declared functions in turn, with the search for originators and the assertions
(`phase = "aborted"`).  `WaitForBases` is the visit of a class whose bases are
not ready, `EndRound` the code after a round, `CheckAbstractInstanceErrors` the
later pass.  `Walk` is `BaseclassWalker`; like the searches (`Better`,
`Earlier`) and the copying of slots (`Copy`) it is a recursive function over a
worklist, one step an operator of its own, so that it can be proved about.  `Called` is the function a call runs
through the table, by the rule of `getVirtualFunctionForEval`.  A function is a
name: overloads differ in their names here.

### SourceLoad

A file is a sequence of items - load, use, a local definition, a class - each
read in one step; `prog` has the text of each file and the files on the command
line.  `CompileFile`, `EndProgram` and `NextRound` are the steps of
`compileFiles`, `LoadFile` and `EndOfFile` push and pop the stack of open files,
`ClassDef` and `LocalDef` are what the parser does to the program table, the
unseen classes and the local scopes.  The limit of open files is that of the
operating system.  The first error ends a behaviour; the code goes on to find
more.

### PrimitiveTypes and Operators

`PrimitiveTypes` has the tables of `safeCast`, `bitsizeToConvertTypeTo` and
`cast`, one operator for each class of the code.  `Operators` builds an
expression from the inside out, one operator for each step, so that a behaviour
is one expression with its operands; `expr` is its outermost node.  The code
labels a tree in several passes.  Only a quotient or a remainder shows another
type to the operator around it in the first pass (`label`) than later (`type`),
since the cast that takes its place is not yet there when the parent asks.
`Pairs` and `Again` stand for the pass in which the parent looks; `Compare`,
`Minus` and `Shift` do both passes in one step, since they look again each time
while arithmetic does not.

`exact` is the value without any sizes.  Where the language itself changes a
value - a word saturates, a written cast or Bits drop something - the exact
value follows (`Expected`).  `hazard` marks the four places at which the value
may go wrong; an expression ends there, so that `ValueIsExact` is about all
others.  One of the four has a run, `stale_quotient`; the others are described
below.

`CastOps.h` belongs to the simulator and is not in this repository.  The models
take it that numbers saturate, that quotients truncate, and that shifts beyond
the word give zero; Bits as an Int may have a sign or not.

`LogicOperators` adds the bitwise and logical operators, equality, `!` and `~`,
the increments, the assignments that compute, and `c ? a : b`; its `FullSpec`
chooses among all of them.  Where the code has an assertion in the place of a
check, an expression ends as `aborted`.  Not in it: strings, arrays and classes
as operands, square brackets, `sizeof` and the other operators on types.

### FunctionCalls

One behaviour is one call: `prog` has the bases of each class, its functions of
the name, and the arguments with their types.  `walk` is the vector `m_bases`
of `BaseclassWalker` and `seen` its set; `VisitExactly`, `VisitSafely` and
`VisitToNote` are the visit of one class by each of the three searches, and
`EndExactly`, `EndSafely` and `EndNotes` what the code does when no class is
left.  The details that matter are kept as they are in the code: a class with
an exact match hides its bases only if the worklist is empty (`isDone`), the
count of matches begins anew when a subclass of the class found has one, a
conflict is the class `Nav` of which no subclass can be asked (`Abort`), and
the number of candidates is asserted to be that of the matches.
`PassArguments` casts the arguments to the types of the parameters, by
`Converted` of `PrimitiveTypes`.

Not in it: types that are not known yet (the code waits and visits the call
again), parameters that are references, arrays or classes, the check for
clashing signatures, constructors and operators.

### ControlFlow and Evaluator

`ControlFlow` is a tree language of statements and of the nodes that the parser
makes of them.  `Parse...` are the functions of the parser with its stack of
loops and switches (`ParsingLoopsSwitchStack`): a `for` becomes a block with a
while, a `which` a chain of ifs, `break` and `continue` get the number of a
label where they need one.  `CalcMaxDepth` is the recursion of
`calcMaxDepth` that gives each variable its slot and each function the size of
its frame.  `Run`, `Value` and their helpers say what statements mean, by an
environment from names to places; the same operators run the source and the
generated C++, where a label is the target of gotos, so that
`GeneratedRunsTheSource` compares a class with its own nodes.  The printing of
C++ is modelled as far as it has control flow: what `genCode` prints for these
nodes is their reading by `Run` with `leftFirst` false.

`Evaluator` runs the nodes as `eval` does.  `state` is the evaluator's part of
`CompilerState`: `nodes` is `m_nodeEvalStack`, `calls` is `m_funcCallStack`,
`obj` and `self` are `m_currentObjPtr` and `m_currentSelfPtr`, `auto` the
pointer that a reference keeps in its symbol, `autoObj` that of an
as-condition, `blocks` the depth of the stack of class contexts, `site` the
atom in the event window.  Each `Eval...` is the `eval` of one kind of node,
with its prolog, its room for values, its early returns and its epilog; a
status that is not `NORMAL` passes through them.  `TestThisClass` is one action
and runs one test; `tests` counts them, and the state of one is where the next
begins.

A variable is a number, and an object is its one data member: not in it are
arrays and packed values, virtual calls, constructors, atoms, strings and
references that functions return.  Loops and calls are bounded by `MaxWork`;
what exceeds it is `UNEVALUABLE` in the model and `stuck` in its meaning, and
`Same` compares the two as ends that are not good.

## The runs

| run | question | bounds, and why they are enough |
|---|---|---|
| `type_table` | do the containers agree, does the program table name the classes, does a known type stay what it is? | three UTIs beyond the base types for everything (one class, one template, one primitive: a holder, what it turns out to be and a type derived from either: `MaxOfAll` is 4); a fourth that the parser makes or that is linked to a known type (`MaxOfMost` is 5); five for two stubs of one template, an unknown name and what it is linked to, so that both stubs become one instance while a holder is linked to it (`MaxUTI` is 6) |
| `class_sizing` | are sizes right, is every default and listed value where it is read, does everything that can be sized and built get there, and does the loop end well at its limit? | three classes in all six orders, 4 x 3 x 4 choices of members, four of bases with shared ones, direct or not, a union; no constant of a class, one with a list, or two that build on each other; six rounds, more than any needs, or one, which is too few for many |
| `size_limits` | are size errors true, and is what is accepted within the limits? | one or two members, sizes around every limit, words of 256 values; two members are enough for a sum that leaves its word |
| `size_overflow` | finding | the same |
| `virtual_tables` | what the slots hold, what a call runs, and the rounds of the loop | every hierarchy of four classes with one function (two unrelated originators, an override of one and a class below both need four); two functions in every order of the classes; a limit of two rounds, which the hierarchies of three and four in line exceed |
| `lost_override` | finding | that of `virtual_tables` |
| `operators` | is what is accepted exact, and what is refused lossy, for every operator? | words of 4 and 8 bits; types below, at and above a word; least and greatest values, 1 and -1; literals; two operators, since a type that is late is seen by the operator around it and not beyond |
| `stale_quotient` | finding | the same |
| `source_load` | is everything read, once, and does it end? | three classes, one perhaps without a file, two other texts, 3240 programs, nesting up to four files |
| `function_calls` | which function is called, and why is a call refused? | a class with up to three that it inherits, on one path or two, in every order; each has none, an exact match, wider ones of the same kind, one of another kind, or some of each: a class can decide, be ambiguous by itself and be in conflict with one other or two |
| `exact_override` | finding | the same |
| `evaluator` | do the nodes, the generated code and the evaluator do what the statements say? are the stacks restored? | every exit (`break`, `continue`, `return`, none) at eight places in three loops; three depths of recursion with every way to bind a reference; an object with functions; a native function at every kind of operand; two tests, since one may spoil the next; 14 turns and calls, more than any class that ends needs |

Deadlock is checked wherever a compilation ends in a state of its own
(`Done`), so that a pass that cannot go on is found.  The run of the type
table turns it off: there the program that is compiled may simply end, or the
bound on UTIs be reached.  So do the runs of the operators, where an expression
ends anywhere, and that of the evaluator, where the tests end.

**Fairness.**  Only `SourceLoad` assumes any: `WF_vars(Next)`, that a program
with one thread goes on as long as it can.  Under it `ReadingEnds` says that
the compiler stops reading.  Of the loops of `ClassSizing` and `VirtualTables`
only how they end is stated, not that they do: each round visits each class
once, and their limit is in the code.  What a limit is enough for is
`NoFalseRejection` and `IncompleteIsTrue`: a program is given up only if
something is wrong with it, or if it has more in line than there are rounds.

## What the runs show

The properties listed as passing hold.  Four runs find a disagreement between
the code and what it says of itself:

1. **An override can be lost** (`lost_override`).  `initVTable` replaces an
   inherited entry by the override that the search through all ancestors finds
   first, if that is in a subclass of the base whose slot it is.  When another
   base has a function of the same name and types with an origin of its own,
   the search ends there and the override in a third base is not used, although
   the comment before it promises "in case a virtual func is overridden by a
   subclass of baseuti in cuti ancestory".  An example: `X` with
   virtual `f`; `R : X` with `@Override f`; `B` with virtual `f`; `E : B + R2`
   where `R2 : R`.  `DispatchIsMostDerived` shows that one origin is safe.
2. **Sizes wrap round before they are compared** (`size_overflow`).  An array
   of 134217728 items of `Unsigned(32)` has no bits in a u32, and is accepted.
   `NarrowAcceptedFits` shows that the checks are right when nothing wraps, and
   `RefusedIsTooBig` that no refusal is wrong.
3. **A quotient is read in the wrong size** (`stale_quotient`).  A division or
   remainder is computed in the widest type and cast to that of one operand,
   but the operator around it is told the wide type, and an arithmetic operator
   never asks again.  If it computes in that type itself, no cast is made and a
   negative quotient is read as a positive number: `a / b + 3` with `Int(5) a`
   at -6 and `Int b` at 1 is 29.

4. **An exact match does not hide its bases** (`exact_override`).  A comment
   promises "Like in C++, exact matches in a subclass overrides any possible
   exact matches in base classes" (`CompilerState.cpp:5028`).  But the search
   goes on from such a class to its bases unless it is the last in the
   worklist; a second exact match there makes the call ambiguous, the search
   with safe casts begins, and passes over the class if another function of it
   accepts the arguments too.  With `A : B` and `C : A + B`, where `A` has
   `f(Int(3))` and `f(Int(4))` and `B` has `f(Int(3))`, a call in `C` runs that
   of `B`; in the order `B + A` the compiler stops at an assertion
   (`CompilerState.cpp:5267`).

Smaller ones were met in the models.  They are left out of the properties by
name, and have no run of their own:

* **No bit for the sign.**  What an Unsigned of a whole word needs as an Int is
  cut at its own word, although the Int beside it has a longer one, where the
  comment says "fits into signed" (`NodeBinaryOp.cpp:458`): `x / y` of
  `Unsigned(32) x` at 4294967295 and `Int(40) y` at 1 is 2147483647.
  (`hazard = "cut size"`)
* **`1 << 32`.**  The room of a left shift of more than 32 bits is computed with
  a shift by the 32 or more bits of the distance, in an int, where the comment
  says "1 << 32 == 0, not what we want" (`NodeBinaryOpShiftLeft.cpp:39`):
  `Bits(40) << 3` has 41 bits.  The first pass can meet this where the next does
  not: in `Bits(2) << Unary(40)` the distance becomes an `Unsigned(32)`, which
  leaves a word of 32 bits.  What the first pass returned is then too small, and
  a `c ? a : b` around it casts to that.
  (`hazard = "undefined shift"`, in either pass)
* **The distance of a shift is cut.**  The evaluator reads it with the length of
  the shifted value (`NodeBinaryOp.cpp:675`), where the comment says that "C
  implementations typically shift by the lower 5 bits (6 for 64-bits) only"
  (`NodeBinaryOpShift.cpp:151`): `x >> 8` of three bits shifts by 0.
  (`hazard = "cut distance"`)
* **The last round of the loop over virtual tables is not believed.**  The limit
  is looked at before the success of the round (`Compiler.cpp:291`), so a
  hierarchy that needs exactly one round more than `MAX_ITERATIONS` is reported
  as an "INCOMPLETE Super class" when it is complete: `reported` holds in
  `VirtualTables` although every class is `Built`.

* **The choice `c ? a : b`** takes the size of `Unary` operands as that of an
  Unsigned, so that `Unary(3)` and `Unary(5)` are refused, and stops at an
  assertion for `Bool` operands with a wider Bool or an Int
  (`NodeBinaryOp.cpp:495`).  `&&` and `||` on a Bool of more than a word stop
  at another (`UlamValue.cpp:773`).
* **A break out of a `which`** is a goto in the generated code, but for the
  evaluator it returns `NORMAL` (`NodeBreakStatement.cpp:57-61`), so that the
  statements behind it in its case are run.  (`BreaksAWhich`)
* **A continue in a `for`** leaves out the assignment of the loop in the
  evaluator, which then never ends, or ends by what else the loop does; the
  generated label stands before the assignment.  (`ContinuesAFor`)
* **References in recursive functions.**  `ref` and `as` bind the pointer of
  the one symbol that all calls share (`NodeVarRef.cpp:369`,
  `NodeIdent.cpp:1044`): the caller then reads the variable of the call that
  returned, or an assertion of `CallStack.cpp:82` ends the compiler.
  (`BindsInRecursion`)
* **The order of operands** is left first in the evaluator
  (`NodeBinaryOp.cpp:637`) and right first in the generated code
  (`NodeBinaryOp.cpp:777`); arguments are evaluated last first
  (`NodeFunctionCall.cpp:880`) and generated first to last
  (`NodeFunctionCall.cpp:2000`).  (`OrderMatters`)
* **Each test leaves three slots** on the call stack
  (`CompilerState.cpp:6582`), as `StacksRestored` states.
* **A union with a base class.**  The bits of the base are laid over the members
  of the union (`NodeBlockClass.cpp:2262-2321`, as `NodeVarDeclDM.cpp:973` adds
  nothing to the offset), although the size of the class has room for both.
  (`Distinct` in `BitLayout`)
* **Constants from parts of constants.**  `constant Int(4) z[2] = k.b`, where `k`
  is a constant of a class that inherits the array `b`, reads `b` without the
  position of the base in `k` (`NodeMemberSelect.cpp:386-409`), and so the bits
  of another member; `k.b[0]` is right.  `P m = k.p`, for a data member that is
  a class, ends in an assertion.
* **Constants that hold each other.**  If A declares a constant of B and B one
  of A, or A one of a class that extends it, the program is rejected, by an
  error or at the limit.  (`Builds` in `BitLayout`)
* **Three searches for a function.**  Three unrelated bases with a match each
  ask whether a class is a subclass of `Nav`, which is an assertion
  (`CompilerState.cpp:1615`).  If two functions of one base and one of another
  accept the arguments, the candidates are fewer than the matches, which is
  another (`CompilerState.cpp:5267`).  `A + Y` is ambiguous where `Y + A` is
  not, since the count begins anew with a subclass of the class found.

The quotients, shifts, statements, references and searches were found by the
models and then seen in the compiler.  `ValueIsExact` shows that with the named
cases aside every nesting of operators that is accepted is exact, and
`RefusesOnlyLossyCasts` that no refusal is in vain; `EvaluatorRunsTheSource`
that a test means what its statements say; `RefusalsAreReal` that the searches
refuse no call without a reason.

## What is proved

For every number of classes, names, UTIs and rounds:

* `UlamTypeTableProofs`, first half: `TypeCorrect`, `CountsStayExact`,
  `NothingDangles`.  None of the three is inductive alone: whether a deletion deletes a UlamType
  is decided by a count, so types exist only if counts are exact, and counts
  stay exact only if the index names a key that is counted.  The invariant is
  `IInv == Counted(table) /\ TypeOK`, where `Counted` joins exact counts, a
  UlamType for each counted key, and the type of the table.  For each helper a
  lemma (`...Counted`) says that it keeps `Counted`, and in what state it must
  be called; for each action a lemma (`...Step`) composes those of its helpers.
  The assumptions are those on names and sizes in the module.
* `UlamTypeTableProofs`, second half: `ProgramTableAgrees` and
  `KnownTypesStay`: what the UTIs stand for.  A known type could change because
  it is given another key - when a guessed class is taken back, when a stub is
  merged - or because the UlamType of its key is replaced.  That neither happens
  rests on who can have a key: a UTI that has the name of a class that is not
  seen is not complete, a stub has no size, an instance is one of a class in the
  program table, an entry of that table has a key no other entry has, an
  anonymous class is its own instance.  `UInv` has all of this: keys and
  UlamTypes go together (`KeysMean`), and what an instance, an entry, a scalar
  class and a generated typedef is (`InstancesOK`, `EntryOK`, `EnteredOK`,
  `AnonymousOwn`).  Of links it needs to say only that a scalar class is in the
  program table or linked to another type.  Few ways to change the table are left
  when the helpers are composed: one UTI is made or moves, perhaps with classes
  that go from the program table (`Moved`), or a key gets another UlamType
  (`Retyped`); one lemma on each does most of the work, and for each action a
  lemma (`...Understood`) says in which of the ways it changes the table, and
  that it keeps the known types (`Keeps`).  The two invariants are proved
  together (`Understanding`): a handler that takes an entry from the program
  table must not take one that is still counted, which `UInv` knows, and `UInv`
  is about UlamTypes that exist, which `IInv` knows.  It is assumed that no limit
  is negative (`LimitAssumption`): then an array that is not sized yet always
  takes its unknown size.
* `VirtualTablesProofs`: all nine properties of `MCVirtualTables`, for any
  classes, any hierarchy - shared bases, unrelated originators, circles - and
  any order of the table.  The invariant is `IInv`: the types (`StateType`);
  `BasesBuiltFirst`; `TablesRight`, which says of each class that has a table
  that it `Fits` (each function it has virtual has a slot of a related class),
  what its slots are (`Table`) and what they run (`Runs`, while there is no
  error); and `LoopRight`, that a loop that ended well has built every complete
  class.  None of it is inductive without the rest: which table a class gets
  depends on the tables of all its ancestors.  Below it, in this order: a walk
  of the bases meets every ancestor once, in either order (`AncestorsAre`; what
  is unseen and to do falls with every step); the override search ends with an
  ancestor no other one overrides (`OverrideIsMostDerived`), the originator
  search without an error with the one all others derive from
  (`OriginIsFirst`); `InitVTable` puts the slots of each ancestor where its
  start says (`InitIsRight`); each declaration leaves a table laid out with no
  failed assertion (`DeclarationStep`, `LaidOut` as invariant along the
  declarations).  `OriginsAreUnique` needs one thing more, that a function with
  ancestors that declare it virtual has a first of them, which has the least
  number of ancestors of its own.  `IncompleteReports` is about the rounds: a
  class that still waits at the end of the n-th is the first of more than n
  classes in line, each with the next among its bases (`RoundsAreChains`); one
  that has waited in this round already is the first of a line longer by one,
  since the base it waits for was left by the round before.
* `ClassSizingProofs`: `SizesAreRight`, `BasesComplete`, `FlagsAreTrue`,
  `NothingIsForgotten`, for any classes, programs and limit.
  `RoundsInv` says of every size that it is what the declarations add up to,
  and of every flag that there is a circle; the work is in one lemma for each
  helper of the recursion `TrySetBitsize`, which sizes other classes on its way.
  These theorems are about `SizingSpec`: the rounds with the messages of a
  labelling left open.  `RoundsRefined` shows that every behaviour of `BitLayout`
  is one of them, so that they hold of `Spec`, whose run checks them.  It needs
  that the recursions over the layout end, and end in a layout, with no less
  waits and errors than before: `LayoutInv`, which has the types of the layout,
  that only complete classes are packed or built, and that what is packed lies
  inside of its class.  That they end is a measure of two numbers.
  `PackHierarchy` goes down the bases, whose circles never have a size.  For
  `GetDefaultClassValue` it is how many classes are not being built (`Rank`), and
  for a base class, which is asked for when its class is no longer in building,
  how many bases the class has; a class that is met while it is being built is
  an error (`m_buildingDefaultValueInProgress`), which is all that ends the walk
  when constants need each other's values.
  `AcceptedIsPacked` follows the program through the passes: `AcceptInv` says
  that each class an errorless round has passed is labelled, unless the round
  will be repeated, and behind the loop each pass does all it has to do in an
  accepted program: a class that is complete and has all its types is packed
  whatever the order, and of a packed class the value can be built or there is
  an error.
  `DefaultsRead` is about what the layout holds bit by bit.  A layout is
  `Settled` if each position is the sum of the sizes in front of it
  (`PlacedRight`), each default value is the one that would be put together now,
  and all its parts are built (`BuiltRight`), and each constant shows its list
  and, where no entry covers a member, the member's default value
  (`FilledRight`).  Every function of the layout leaves a settled one settled,
  and so does a step that only sizes other classes, since what has been placed
  or put together depends on sizes that do not change any more (`SizesStay`).
  That everything can then be read back is geometry: two members of a class or
  its bases lie apart, unless a union is around them (`MembersApart`), so that
  the last of the patches on a bit of a member is its own (`PatchedAt`).
* `SizeLimitsProofs`: `RefusalsAreRight` and `AcceptedIsRight`, for any word,
  limits and members.  `IInv` compares the total in its word with the sum of
  numbers, member by member: it is never more, and is the same as long as
  nothing left the word.
* `OperatorsProofs`: `RefusalsAreLossy` and `ValuesAreExact`, for all
  expressions of the two modules (`FullSpec`): any depth, variables and
  literals, all sizes of types and words.  The invariant of the first is that
  what an operand is and what it returned are of one kind of number
  (`IsNode`); it rests on how many bits a type needs for the values of another.
  That of the second is `VInv`: an expression without a hazard is a `NodeOk`
  with its exact value.  A node has a value of its type, and its label is its
  type, except for a quotient, whose type is the narrower one, and for the
  shift of a variable, whose bits fit the size that it returned first.  Without
  these two exceptions it is not inductive, since the operator around computes
  with the label; with them, what `CastTo` gives an operator means what the
  operand meant.  Under it, in this order: a safe cast loses nothing, whatever
  the pair of kinds; an operand of an arithmetic operator fits the size that is
  asked for on its side, except the Unsigned of a whole word that "cut size"
  names; a result fits the size computed for it unless a word cannot hold it,
  which saturates the exact value too; a quotient fits the type it is cast to,
  except that of the least Int by minus one; a left shift has room unless the
  shift that computes the room is undefined; bits that are combined need no
  more of them; and both passes of `c ? a : b` find the same types or smaller.
  The bits of a combined word are reached by the ones that two numbers have in
  common, a recursive function of the two halves (`BitwiseAnd`), from which
  `|` and `^` are made.
  `MAXBITSPERINT >= 4` is assumed (the code has 32): in shorter words a left
  shift by the longest distance for which the room is still defined would not
  exceed the word.
* `SourceLoadProofs`: `NothingForgotten`, `LocalsComplete`, `NothingRejected`.
  That the end leaves nothing unseen
  is about the last round only; the invariant is about all of them: an unseen
  class with a file is awaited - among the unseen ones, in this round, or as
  the file being compiled (`UnseenIsAwaited`).  Each step may move a class
  between the three but not out of them, except by seeing it: `CompileFile`
  drops a file only if its class is seen, `EndProgram` looks for its class, and
  `NextRound` takes the unseen classes in some order, which has all of them
  (`OrderedSet`, by counting).  It is assumed that there are finitely many
  classes and that the files given are those of classes.
  For `LocalsComplete` the invariant looks at the stack: whatever stands before
  the place of an open file was read, and what it loads was read to its end, so
  the definitions of the file compiled are those of the expansions of all
  that was passed, in each open file; a file that was read to its end is in no
  circle of loads, so its expansion ends within `MaxOpen` files.  The parser
  takes a file again each time it is loaded: the definitions go to the class
  that is being compiled, and a name twice is an error.  `NothingRejected` goes
  through the errors in turn: in a conventional program a class is met in its
  own file only, and that is compiled once; a file loads nothing that loads,
  so three open files are enough.  For two the run finds the error, so the
  bound is part of the property.
* `FunctionCallsProofs`: `CallsAreSound`, `RefusedForAReason`,
  `NearestIsCalled` and `NumbersArrive`, for any hierarchy without circles, any functions and any
  arguments.  The searches are loops, and each theorem needs to know what one
  has seen so far.  `IInv` ties the count to the class found: the code tests
  the count, and calls what was found.  `RInv` says that more than one match is
  an ambiguity already, and that while there is none, every base of a visited
  class is visited or in the worklist.  `NInv` says that the class found hides
  all that decided before it; its last step is about the classes that were
  never seen: the seen ones that were not left early are closed under bases, so
  such a class has a seen one below it that was (`NotVisited`).  That a class of an ancestry cannot
  inherit itself (`HierarchiesAssumption`) is used for the order of subclasses
  only; programs that break it never have sizes.  `NumbersArrive` is about one
  step: a cast that the search held to be safe keeps every value of its type,
  for each pair of kinds and all sizes.
* `Induction` holds what these proofs share.  The induction theorems of the
  library take a predicate, which the provers cannot instantiate; its lemmas
  take a set instead and come from the least counterexample
  (`IntervalInduction`, `NumberInduction`).  A recursive function is what its
  definition says only if some function satisfies it: `IntervalRecursion`,
  `MeasuredRecursion` and `UnboundedRecursion` give one, for functions of a
  number, of a measure with a bound, and of one without.

Only model-checked, and why: `ControlFlow` and `Evaluator`, which are recursive
over trees by RECURSIVE operators, so that the provers cannot be used on them;
`NoFalseRejection` of `BitLayout`, whose argument is about whole behaviours -
how many rounds a chain of constants takes; and liveness (`ReadingEnds`), which
is out of the prover's reach.

## Plan

Done: the type table, sizing with its limits, bit layout, virtual tables, reading sources,
primitive types and all operators on them, the search for a function, the
parsing of statements, and the evaluator.
To come, in this order:

1. Lists of data members and nested lists, constant arrays and what is read
   from constants while others are folded, above `BitLayout`; elements.
2. Templates: pending class arguments, `fixAnyUnseenClassInstances`,
   `fullyInstantiate`, `mergeClassInstancesFromTEMP` as rounds of their own,
   composed with `UlamTypeTable`; abstract: one instance for each list of
   arguments.
3. Scopes: lookup of names through blocks, classes, bases and local scopes;
   with them what a typedef can name, and so that the links of the type table
   end; `ClassContextStack`; classes as operands and overloaded operators.
4. Virtual calls, arrays and constructors in `Evaluator`.
5. Source stream and lexer: unread, locators, tokens; refinement of the
   expansion that `SourceLoad` uses.
6. String pool, registration of elements.
7. Proofs: that a step of 2 is a step of the type table.

Not planned, and why: the text of the generated code beyond its control flow; drivers and
scripts are options and processes; the standard library, demos and the C++
fragments beside them run in a simulator that is not in this repository;
`spike/` is old experiments.
