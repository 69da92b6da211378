# Verification of f2j and libbytecode

f2j translates Fortran 77 to Java class files. Its front end reads Fortran,
checks types and walks the syntax tree; its back end, `libbytecode`, builds the
class file: it collects instructions, links branches, computes stack depths and
branch offsets, and writes the result. This directory holds TLA+ modules that
follow a program from its source lines to the bytes of a method, TLC
configurations that check them on small instances, and machine-checked proofs,
for all instances, about the translation of control flow, the method code, the
constant pool, the pass-by-reference analysis and the merging of EQUIVALENCE
lists.

All file names below are relative to the root of the repository. In this
checkout the compiler lies in `src/` and the back end in `libbytecode/`.

## 1. The system

| Component | State | Operations | Hard behaviour | What makes it correct | Modules |
|---|---|---|---|---|---|
| Lexer (`src/f2jlex.c`) | statement buffer, comments, tokens looked ahead at, stack of include files | `prelex`, `check_continued_lines`, `lex_included_file`, `yylex` | a statement is complete only when the next lines are seen; Fortran has no reserved words; state kept from one call to the next | the program as written, each word as the token it was meant as | `Lexer`, `SourceLines`, `FortranSource` |
| Parser (`src/f2jparse.y`) | syntax tree, symbol tables | grammar actions | order of declarations; trees shared by several users | trees mean what the source says | in `ControlCode`, `ExprCode`, `Equivalence` |
| Symbol tables (`src/symtab.c`) | chained hash tables | `type_insert`, `type_lookup`, `hash_delete` | insertion shadows | a map of stacks | `SymTable` |
| Type checker (`src/typecheck.c`) | types of nodes, lists of equivalences | `expr_check`, `intrinsic_check`, `merge_equivalences`, `common_check` | lists merged while they are walked | types are Fortran's; one field per class of equivalenced variables | `ExprCode`, `Equivalence` |
| Pass-by-reference analysis (`src/optimize.c`) | status of each unit, flags of each variable | `optScalar`, `args_optimize` | recursion over a call graph with cycles; code of a unit is generated before later units are analysed | what a call may assign is wrapped, and both sides of a call agree | `PassByRef` |
| Code generator (`src/codegen.c`) | current method, stacks of loops, labels, adapters | one function per kind of node | branches whose targets come later; a stack whose types nobody tracks; adapters made after the calls | the bytecode does what the Fortran statement does | `ControlCode`, `ExprCode`, `CallCode`, `JavaStack` |
| Method code (`libbytecode/api.c`, `class.c`) | code list with address, target, depth, visited flag; exception table | `bc_append`, linking, `traverse_code`, `calc_offsets` | recursion over a cyclic graph that it rewrites on the way; widening moves code already measured | addresses, offsets, widths and depths are those of the bytes written | `MethodCode`, `CodeSearch` |
| Constant pool (`libbytecode/constant_pool.c`) | list of tagged entries | `cp_find_or_insert` and its clients | composite constants insert their parts; entries of two slots; indices of one and two bytes | one index per constant, every operand resolves | `ConstantPool`, `InternTable` |
| Local variables (`libbytecode/api.c`) | current and maximal local number | `bc_get_next_local`, `bc_release_local` | release assumes stack order | live variables do not overlap | in `ControlCode` |
| Class writer (`libbytecode/class.c`) | finished structures | `bc_write_class` | | lengths match the bytes | |
| Driver, descriptor tables (`src/f2jmain.c`) | options, descriptors | `insert_entries`, `get_line` | incomplete lines | every line is an entry | |
| Goto transformers (`goto_trans/`, `goto_trans_bcel/`) | code array, labels | replace dummy calls by jumps | code must keep its length | jumps reach the labels | |
| Run-time library (`util/`) | open units; strings | `open`, `close`; `stringInsert`, `strCompare` | reopening a unit | one file per unit; Fortran's strings | strings in `JavaStack` |

How they interact: for one program unit after the other the parser calls
`yylex` for tokens, fills the symbol tables and builds the tree; type checker,
pass-by-reference analysis and code generator walk the tree in this order
before the next unit is read. The generator calls libbytecode through
`bc_append` and its like, most of which take an index from the constant pool at
once. At the end of a class `bc_write_class` finalizes every method
(`traverse_code`), and then writes pool and code. All of it is one sequential
process. The interleavings that matter are the orders in which a client makes
its calls, the orders in which recursive traversals visit a graph, and what one
call leaves behind for the next; nothing runs concurrently and nothing is
persisted between runs.

## 2. The modules

| Module | What it is |
|---|---|
| `SourceLines.tla` | lines of a source file, and statements as the standard joins them |
| `FortranSource.tla` | what the lexer promises: the statements of the program, handed over in order |
| `Lexer.tla` | the lexer; implements `FortranSource` |
| `SymTable.tla` | the hash tables, as operators |
| `Equivalence.tla` | EQUIVALENCE, from the parser over the merging to the fields of the class |
| `PassByRef.tla` | the analysis of arguments, unit by unit, and what the generator reads of it |
| `ControlCode.tla` | loops, IF, GOTO and labels: the generator, the bytecode, and a Fortran machine beside it |
| `JavaStack.tla` | the part of the Java machine that a statement's code needs |
| `ExprCode.tla` | assignments: types, code, and what the code stores |
| `CallCode.tla` | CALL statements and adapters; extends `ExprCode` |
| `MethodCode.tla` | one method in libbytecode: the calls that build it, then `traverse_code` step by step |
| `CodeSearch.tla` | what the traversal promises: an exhaustive search of a graph that never changes |
| `MethodCode_proofs.tla` | theorems about `MethodCode`: types, the list, addresses, offsets, switches and try blocks after everything has moved; the refinement of `CodeSearch`, and stack depths |
| `ControlUnit_proofs.tla` | theorems about `ControlCode`: the unit that is read |
| `ControlCode_proofs.tla` | extends it: the code that the unit is translated to |
| `ControlRun_proofs.tla` | extends that: the unit and its code running beside each other |
| `ConstantPool.tla` | the constant pool and its clients |
| `InternTable.tla` | what the pool promises: a growing one-to-one table |
| `ConstantPool_proofs.tla`, `PassByRef_proofs.tla`, `Equivalence_proofs.tla` | theorems about the module named |
| `Induction.tla` | induction over numbers in a form that the provers can use |
| `MC*.tla`, `MC*_*.cfg` | instances for TLC, one configuration per run |

Definitions whose names start with `Mutant` are versions of the definition
after them with a plausible bug in it. No specification uses them. For each
property of a passing run, replacing the definition by its mutant makes TLC
report that property as violated, which shows that the property depends on the
code being right there.

### Lexer

A program is a function from file names to lines; a line is a comment, blank, a
statement or the continuation of one, and holds words. A word is the text
written and the token meant: the lexer sees only the texts, and a text such as
`iflag` can be split, since it begins with a keyword and white space is gone.
The property compares what the parser gets with the tokens meant.

An action is a call of `yylex`, named after the part of it that returns: tokens
looked ahead at (`SavedToken`), an INCLUDE that had to wait (`IncludeFile`),
`prelex` with a comment, a statement or the end of the program
(`PrelexComment`, `PrelexStatement`, `EndOfFile`), the first token of a
statement (`FirstName`, `FirstLabel`, `FirstType`, `FirstKeyword`), and any
other (`OtherToken`). Where the code returns nothing to the parser between two
steps they are one action; where `prelex` finds a statement and no comment,
`yylex` goes on to its first token, which the model makes an action of its own
(nothing reads the state in between). The three flags of Sale's algorithm are
functions of the assembled statement. The parser is present as `Take`, which
reduces a line when its NL comes and takes the buffered comments.

`ReadsSource` is the refinement of `FortranSource`; what is still to be read is
the statement in the buffer, the comments not yet handed over, and the rest of
every file on the stack, innermost first.

The model was compared with the code: `f2jlex.c`, compiled with a driver that
prints tokens, gives for each of the 1864 programs of run `lexer` the tokens
that the model delivers.

### Equivalence and SymTable

One action is one turn of the outer loop of `merge_equivalences` (the two
loops), `insert_equivalences`, `check_equivalences` and `insert_fields`. Nodes
have identities, because the statements and the merged list share them. The
hash table is that of `symtab.c`: names that collide are in one chain. `Keep`
stands for taking nodes out of a list by their neighbours' pointers, `Class(n)`
for what the statements tie to `n`: the least set of variables that has `n` and
that no list leaves.

### PassByRef

The recursion of `optScalar` over units, with its frames on `work`. A unit's
statements are chosen when the walk reaches them, so all bodies up to the bound
occur. Each unit is checked, analysed and generated before the next one
(`phase`), which is why the order of the units matters; `emitted` is what the
generator read of the flags and descriptors when it generated a unit.

### ControlCode

The unit is read line by line (`Reading`), translated line by line
(`EmitLine`, with the stacks of loops, blocks, labels and locals in `gen`) and
then run. The bytecode and a machine that does what the Fortran standard says
run beside each other: each moves alone where nothing can be seen, and both at
once where a statement works, tests, selects, assigns or returns
(`SameStatement`). The machine knows nothing of the code generated.

`assigned` is the list of labels that some ASSIGN names, from which an assigned
GOTO without a list selects. Such a GOTO may only take a label that it may jump
to: `ReadEnd` demands of the other jumps that they enter no loop and no arm,
but which label has been assigned is known when the GOTO runs (`Values`).

### ExprCode, CallCode and JavaStack

The parser builds an assignment bottom up (`Parse`), with the type the checker
gives each node; `Statement` emits its code by operators named after the
functions of `codegen.c`, and the Java machine of `JavaStack` runs it. Integers
and strings are concrete; a floating-point value is the term that computed it,
and how two of them compare (less, equal, greater, unordered) is chosen per
run. `Value` and `FortranType` define what Fortran says, without the tables of
the compiler.

A call pushes its arguments (`emit_call_args_known`). `EnterCall` runs that code
and, where there is one, the adapter with its own numbering of locals up to the
procedure; `ReturnFromCall` lets the procedure assign any subset of the
arguments it legally may and runs the rest of the adapter.

### MethodCode

A node is a number; the fields of `JVM_CODE_GRAPH_NODE` are functions of nodes.
`code` is the Dlist of the method. Client nodes are numbered in order of
creation; the two nodes that widening the conditional `n` inserts are
`GotoOf(n)` and `WideOf(n)`. An instruction brings its width, its pops and
pushes as data, so the instance decides which instructions exist.

| Phase | Code | Actions |
|---|---|---|
| append | `bytecode1` | `AppendInstr`, `OverwritePlaceholder`, `StartLinking` |
| link | the `bc_set_`, `bc_add_` and `bc_associate_` calls | `SetBranchTarget`, `SetBranchLabel`, `AddSwitchCase`, `AddSwitchDefault`, `AssociateLabel`, `AddHandler`, `StartTraverse` |
| traverse | `calc_offsets`, the handler loop of `traverse_code` | `EnterVisited`, `Visit...`, `ReturnFromJsr`, `NextCase`, `DefaultCase`, `EnterHandler` |
| layout, offsets | the two loops of `traverse_code` over the list | `StartLayout`, `LayoutInstr`, `StartOffsets`, `RecalcOffset`, `EndOffsets` |
| done, failed | its return value | `Succeed`, `EndOffsets` |

`work` is the C stack: the continuations of the active calls of
`calc_offsets`. A visit is one action that does all the call does before it
calls itself. A node's address, width and `next` change exactly where the C
code changes them, in particular in the middle of a traversal when a
conditional is widened. Linking calls only set fields of one node that no other
linking call or append reads, so they commute; the model makes them after the
appends in the order of the nodes.

### ConstantPool

`pool` is the list of entries in order of insertion. The `Lookup...` operators
are the `cp_lookup_` functions, which search by text through the indices stored
in entries, and the `Find...` operators are `cp_find_or_insert` per tag: they
return the pool after the call and an index, so that the nested calls of
`insert_ref` thread the pool as the code does. Indices are cut to 16 bits where
the code stores them as `u2`. Strings are model values; `Slashed` is the
conversion of dots, `Equal` the comparison of the C code, under which -0.0
equals 0.0.

## 3. Runs and what they show

| Run | Instance | Properties | Shows |
|---|---|---|---|
| lexer | units with one of 7 openings, up to 2 more lines out of 10, with or without a second unit; two included files that include one another or not | `TypeOK`, `ReadsSource`, `Ends` | tokens, statements and included files come as written; mutual inclusion ends |
| merge | up to 3 lists out of 15 over 4 variables of two types, two of which share a hash chain | `TypeOK`, `OneNamePerClass`, `NoneLostNoneTied`, `AccessesDeclared`, `MismatchReported` | variables share a field exactly if the statements tie them, in every order |
| calls | 3 units in both orders of the file, cyclic call graphs, an array, a COMMON variable, a library procedure; 3 statements | `TypeOK`, `NoReentry`, `WrapsWhatItMust`, `DescriptorsAgree`, `NoPrimitiveArgs` | the least set of wrapped variables that suffices; caller and callee agree |
| control | 6 families of units of 4 to 7 lines | `TypeOK`, `SameStatement`, `CodeComplete`, `StructuredUnitsEnd` | the bytecode executes the Fortran unit |
| code | assignments of up to 2 operations; 1 call of 3 procedures with every list of 12 kinds of arguments | `TypeOK`, `TypesMatch`, `StoresFortransValue`, `TypedAsFortran`, `CallsLink`, `PassesByReference` | types on the stack, values stored, effects of calls |
| flow | up to 4 instructions with placeholders, labels and jumps, none too far | `TypeOK`, `StackDepthsExact`, `MaxStackSuffices`, `SearchSpec` | the traversal and the depths it leaves |
| rewrite | up to 4 instructions whose branches reach 4 bytes; placeholders among the first 3; a switch; subroutines; a handler | `NextSpellsCode`, `AddressesExact`, `OperandsExact`, `SwitchWidthsExact`, `TryBlocksKept`, `DepthsExact`, `StackNoted`, `SearchSpec`, `TraverseReturns` | code that is widened, moved and measured while it is traversed |
| pool | 4 uses of names, classes, references, strings and four numbers; ldc reaches index 5, indices reach 8 | `TypeOK`, `WellFormed`, `OperandsResolve`, `TableSpec` | one index per constant, at and over the limits |
| overflow, lostlabel, lostadapter, stmtcount | one property each | `OffsetsFit`, `LabelsResolved`, `AdaptersComplete`, `StatementsCounted` | the disagreements of section 4 |

What the properties say:

* `ReadsSource`: for every sequence of comments, continuation lines and
  includes, every statement is handed over once, in order, each word as the
  token it was meant as, with a program unit opened and closed around them, and
  comments never after the statement they precede.
* `Ends`: the program is read to its end.
* `OneNamePerClass`: two variables have one merged name exactly if the
  statements tie them, directly or over others; `NoneLostNoneTied` says the same of
  every step of the merging; `AccessesDeclared`: the name under which a
  variable is accessed is a field; `MismatchReported`: types that differ in a
  list are reported.
* `WrapsWhatItMust`: against the least set closed under "is assigned as an
  argument, or passed where a wrapper or an array is expected";
  `DescriptorsAgree`, `NoPrimitiveArgs`: a call is generated with the
  descriptor its callee gets and passes an object where one is expected,
  whichever unit is generated first; `NoReentry`: the recursion ends.
* `SameStatement`: bytecode and Fortran come to rest at the same line, about to
  do the same, with the same DO variables and assigned label; `CodeComplete`:
  no branch without a target, no way out at the end of the code, no loop, block
  or local left open; `StructuredUnitsEnd`: loops end.
* `TypesMatch`, `CallsLink`: every instruction finds operands of its types, in
  the statement, in the call, and in the adapter; `TypedAsFortran`: the checker
  gives Fortran's types; `StoresFortransValue`: the place on the left has
  Fortran's value and nothing else changes, for every order of floating-point
  values, NaN among them; `PassesByReference`: a procedure sees the value of
  each argument, and exactly what it assigns changes.
* `StackDepthsExact`: if there is an assignment of depths that the verifier
  accepts, the nodes have it, although the code computes depths in the order of
  its visits and overwrites some; `MaxStackSuffices`: `max_stack` covers it.
  `DepthsExact` and `StackNoted` are the same for methods without a switch or
  subroutine.
* `NextSpellsCode`: the next pointers and the list agree at every step.
  `AddressesExact`, `OperandsExact`, `SwitchWidthsExact`: on success addresses,
  length, offsets of reached branches and widths of reached switches are those
  of the bytes written. `TryBlocksKept`: a handler still covers what it covered
  before instructions were inserted and moved. `SearchSpec`: `MethodCode`
  implements `CodeSearch`, so rewriting never changes the client's control
  flow. `TraverseReturns`: the recursion and both loops end.
* `WellFormed`: indices count slots, and entries refer backwards to entries of
  the right tag; `OperandsResolve`: every operand, cut to its bytes, means what
  its client asked for; `TableSpec`: the pool implements `InternTable`.

The bounds. Where the code has a limit, a constant of the module stands for it
(`BranchMax` for 32767, `FillThresh` for 10, `IdxMax` for 255, `IndexLimit` for
65536): what counts is on which side of the limit a value falls, and small
limits make both sides and the limit occur. The smallest method in which a
widened branch disturbs a computed one has three instructions, and a node with
two predecessors of different visiting order needs four. A merge goes wrong
with three lists if it goes wrong at all up to three; four lists are beyond
what the code gets right (section 4). Two calls around a cycle and one more
statement exhaust the statuses of a unit. Seven lines hold a block IF with two
further arms, five two nested loops with one end. Two operations make every
kind of node an operand of every other. Two lines between heading and end put
every pair of kinds of lines next to one another, and a second unit shows what
is carried over. `StackLimit`, `MaxUses`, `MaxStmts`, `MaxGroups`, `MaxLines`,
`MaxLocal`, `MaxOps`, `MaxCalls`, `MaxInstrs`, `MaxHandlers` and `MaxOpen`
bound counters; `MaxOpen`, the files a process may open, is larger than what
the programs of run `lexer` need, since none is ever closed.

Deadlock is checked in every run but those of `Lexer` and `CallCode`, whose
behaviours stop: a program has been read, a statement has been run. In the
other modules an action that changes nothing marks the places where the program
may stop.

Fairness. `MethodCode`: weak fairness of `Finalizing` only; C code that has
been called runs on, but nothing forces a client to write its class.
`ControlCode`: weak fairness of `Run`; a program that has been started runs,
though it need not be read or translated. `Lexer`: weak fairness of `yylex`; the
parser calls it until it returns 0.

## 4. Where code and documentation disagree

With a run each:

1. `overflow`: `libbytecode/class.c:989` assigns `reCalcAddr` for each branch
   instead of accumulating it, so the last branch decides. A method can be
   finalized successfully with an offset that does not fit 16 bits.
2. `lostlabel`: `bc_node_at_pc` (`libbytecode/api.c:2720`) stops at the first
   node whose address is larger than the one sought, but nodes inserted by
   widening carry the address of the end of the method until the layout. A
   later jump to a label behind them is left unresolved.
3. `lostadapter`: for a procedure found in a `.f2j` file, `insert_adapter`
   (`src/codegen.c:12546`) drops every call but the first, also those whose
   adapter has another signature.
4. `stmtcount`: a statement with comments behind it is not counted
   (`src/f2jlex.c:1324`). After `subroutine s(iflag)` and a comment, `integer
   iflag` and a comment, the declaration still has number 0, which is that of a
   unit's first statement: `yylex` looks for FUNCTION (`f2jlex.c:612`) and finds
   IF, so that the tokens are ARITH_TYPE, IF and the name `lag`. A declaration
   without a comment behind it gets number 1 and is read well.

Found with the models, without a run of their own; the modules state the
property, and the instance named violates it:

* `StackDepthsExact` with a switch (`SwitchOnly`, `OneSwitch`): the cases get
  the stack size the previous case's traversal left (`class.c:1108`), and the
  default case none.
* `OneEntryEach` with a dotted name: `cp_lookup_class` compares dotted names with
  slashed ones (`constant_pool.c:786`) and inserts the class again.
* `LiteralsExact` with -0.0: it is taken for 0.0 (`constant_pool.c:1389`).
* `IterationCounts` with `OwnFamilies`: the iteration count of a DO loop is
  computed after the DO variable has been assigned (`codegen.c:8589`), from a
  copy of the start expression that may read it.
* `OneDeclaration`: `insert_fields` adds a field for every list of a class,
  although `equiv_emit` says that equivalenced names get one declaration.
  `OneNamePerClass` fails for four lists that form a chain, and so does
  `AccessesDeclared`: a variable is accessed under a name that has no field.
* `KnownBeforeUse`: with a cycle in the call graph a unit may be generated
  before what it passes is known to be wrapped. `NoPrimitiveAnywhere`: calls in
  places the analysis does not walk pass primitives for wrappers.
* `TypedAsFortran` with ALOG and ALOG10 among the `Intrinsics`: the table gives
  them the type Double.
* `TypesMatch` with "read wrapped" among the `Extras`: a subscript that is a
  wrapped variable is pushed as an object where a character is taken from a
  string. `StoresFortransValue` with "store": an assignment to an element of a
  one-dimensional CHARACTER*1 array is taken for a statement function
  (`f2jparse.y:2357`), and no code is emitted, although `assign_emit` has a
  branch for it (`codegen.c:12059`).
* `NoCycle` with `SelfIncluded`: the check for cycles (`f2jlex.c:1096`) does not
  look at the current file, so a file that includes itself is read twice.
  `LineNumbersExact`: after an include, line numbers are one too high
  (`f2jlex.c:1124`).

Seen while reading, not stated: a whole argument array that is passed where one
element is expected is read at index 0 and not at its offset
(`codegen.c:11590`); calls by reflection pass 0 for the offset of an array;
`stringInsert` throws when the right side is shorter than the place
(`Util.java:61`); names that begin with a keyword other than DO, IF or DATA are
split after IF (...) and after a label; a line of blanks ends a continued
statement; an assignment with a label cannot open a unit without a heading; at
the end of the program the list of include files is freed and then traversed if
a syntax error is reported there (`f2jlex.c:1348`, `f2jparse.y:3949`).

## 5. Proofs

Every invariant is proved by a lemma for `Init`, one for each group of actions,
split by action and then by conjunct, and a lemma for stuttering; temporal
reasoning is confined to the last step. The theorems hold for every value of
the constants under the assumptions that the modules name and TLC evaluates in
every run. What an invariant says beyond the property, and why, is told here.

### MethodCode

For every set of instructions, number of instructions, labels, cases and
handlers and every limit. The assumptions: the instructions are well typed, a
placeholder is one byte long, 0 is not a label, the bounds are numbers.

* `TypeCorrect`. `TypeOK` is not inductive: a branch may only be followed when
  it has been linked, frames on `work` must name nodes the client created, and
  widening must find its node in the list. `TypeInv` adds `LinksOK`, `InCode`
  and `WorkOK` for these.
* `NextSpellsCodeCorrect`: needs to know that a node occurs once in the list
  and that the two nodes of a conditional enter it only when the conditional
  is visited: `CodeInv` adds this to the chain of next pointers. The core is a
  lemma about `InsertAfter` (`ChainInserted`).
* `AddressesExactCorrect`: `AddressInv` says, for each phase, which prefix of
  the list is laid out: all of it while nothing moved, the first `idx - 1`
  nodes during the layout with `tmpPc` at its end, all of it afterwards. While
  the client appends, placeholders must also have the width that overwriting
  one subtracts.
* `OperandsExactCorrect`: `OperandInv` says of which nodes the offset is exact:
  of the visited ones while nothing moved, of the first `idx - 1` in the last
  loop. It rests on the addresses staying put between the loops.
* `SwitchWidthsExactCorrect`: `SwitchInv` says which switches are padded for
  their address, by the same prefixes.
* `TryBlocksKeptCorrect`: under `SwitchesFit`, that no switch of the finished
  method is longer than 255 bytes. A longer one wraps its `u1` width, possibly
  to 0, and two nodes then share an address; `TryBlocksKept` has instances that
  violate it there. `OrderInv` (insertions stand behind their conditional, the
  client's nodes in their order) and `WidthInv` (nothing else is empty) give
  ascending addresses, which is what a range of addresses needs.
* `SearchCorrect`: `Spec /\ []Resolved => SearchSpec`. `Resolved`, that a
  visited jump whose label is associated has a target, is what run `lostlabel`
  violates, and it fails only there: `LabelsResolvedCorrect` proves
  `LabelsResolved` as long as no conditional has been widened, `SearchUnwidened`
  the refinement for such methods, and `SearchUnlabelled` for every client
  that links jumps to instructions. `GraphInv` says what widening leaves of the
  client's control flow, `CasesInv` that the cases of a switch are walked from
  the least to the greatest, and `SearchInv` that each successor of a visited
  node is visited or promised by a frame of `work`, with nothing promised that
  cannot be reached.
* `DepthsExactCorrect`, `StackNotedCorrect`: `DepthInv` says that a frame
  carries the depth after the instruction it comes from and that every visited
  node has the depth of each assignment the verifier accepts. Both are about
  methods without switches and subroutines, where the code is right (section
  4); for a client that appends none (`PlainInstrs`) they become
  `StackDepthsExact` and `MaxStackSuffices`.

### ConstantPool

For every set of texts and numbers and every limit. The assumptions: converting
dots leaves none, and a class name that is passed unconverted is a text.

* `TypeCorrect`, `WellFormedCorrect`, `OperandsResolveCorrect`: `Inv` says that
  the pool is `Good` (indices count slots, and every entry whose index fits has
  a payload of its kind that refers backwards), that operands stand for what
  was asked for (`Stands`), and what `count` is. Meanings are stable: an entry
  refers backwards only, so what is added later changes none
  (`MeaningStable`). Each `Find...` has a lemma that says what it returns.
* `TableCorrect`: `NoDots => (Spec => TableSpec)`; `NoDots` says that clients
  pass converted names, without which a class gets two indices (section 4).
  `Tidy` adds that no two entries mean the same.

### PassByRef

For every set of units, scopes, COMMON blocks, files and statements. The
assumptions: units share no names, arguments are not in COMMON, a file holds
every unit once.

* `TypeCorrect`; `NoReentryCorrect`, for every call graph, cycles included. A
  frame may be pushed at any depth, so the invariant must say how the stack
  came about: `StackInv` gives each frame the call that pushed it, and
  `UnitsInv` what is known of units by the position the compiler is at.
* `WrapsWhatItMustCorrect`: that nothing is wrapped without need is `LeastInv`:
  what is wrapped is in every closed set. It is about all closed sets at once,
  since the least one grows with every statement read. That all that must be
  is wrapped holds without recursion, by `SettledInv`: a statement's demands
  have been met, or its callee is finished and its arguments agree, or a frame
  on the stack will still compare them; a finished unit's flags say what its
  variables are. Without recursion a unit that is being walked is not called
  by what it calls (`NotWalked`), so flags never change after they were read.
* `DescriptorsAgreeCorrect`, `NoPrimitiveArgsCorrect`, without recursion: a
  generated unit is finished with all its callees, so what it was generated
  from is what it is at the end (`GeneratedOK`).

### Equivalence

For every set of variables and types, lists of any length that are not empty,
and every hash function.

* `TypeCorrect`: no node is ever in two lists. While lists are read nodes carry
  the number of their statement, and during the second loop a list before
  `temp` has a token of its own, so that `temp` never moves (`MergeEffect`).
* `NoneLostNoneTiedCorrect`, for any number of lists. `TieInv` strengthens it
  to pairs: lists of one token are tied, although they need not have a variable
  in common, and every list of the statements is inside one list.
* `MismatchReportedCorrect`, for any number of lists: comparing neighbours finds
  every difference (`AllOneType`).
* `OneNamePerClassCorrect`, `AccessesDeclaredCorrect`, for at most three lists
  (`MaxGroups <= 3`), which is the truth: with four they fail (section 4).
  `TokensInv` says turn by turn which lists that share a variable have one token
  already, `ApartInv` that they all have when the second loop starts, and none
  share a variable when it ends; `InsertInv` follows `type_insert` through the
  chains of the hash table. `NamesCorrectIfApart` says, for any number of
  lists, that nothing but lists left sharing a variable can go wrong.

### ControlCode

For every set of families of lines, units of any length and every number of
locals not smaller than that. The assumptions: the lines of a family are well
formed (a GOTO names one label, an increment is not 0, ...), and a unit has no
more lines than the method may have locals; a line opens at most one loop, and
each open loop holds one local.

* `UnitIsLegal`: `UnitInv` says how lines, loops and blocks nest: the stack
  before every line (`StackOK`), what the line does to it (`Follows`), where
  each loop and block ends if it has (`LoopOK`, `BlockOK`, `ArmOK`), and that a
  unit that has been read is complete.
* `UnitIsTranslated`: `GenInv` is about the code of the lines before the
  current one: there is a place `P[j]` for each, where the instructions of its
  statement are (`StatementCode`), followed by the ends of the loops that it
  ends (`Chained`); the tests and gotos of a block branch to where the next arm
  or the end is as soon as that is known (`ArmEnd`), and until then they are on
  the generator's stacks (`Waits`), which hold exactly the open loops and
  blocks (`LoopStack`, `BlockStack`). There is one lemma for each kind of
  statement (`...Part`), one for the end of a loop, and one for a labelled
  line, which ends loops from the innermost on.
* `CodeIsComplete` follows: `CodeComplete` for every unit. The counts of open
  loops lie in different locals (`LocalsOK`), because locals are released in
  the order of the stack.

* `MachinesAreTyped`, `TypeCorrect`: `RunInv` types the two machines. Which
  loop a Fortran machine at the end of a line is about to decide on must be one
  that ends there (`FtnOK`), or it would go on from a line that is none.
* `MachinesMatch`, `SameStatementCorrect`: `SameStatement` speaks of the moments
  when both machines rest, and between two of them either may move first, the
  bytecode through counters, decisions and gotos, Fortran through line after
  line. `SimInv` therefore says of every moment that the Fortran machine gets,
  by steps that cannot be seen (`Leads`), to a state that the place in the
  bytecode stands for (`Match`). There it is about to do what can be seen
  (`Seen`), or the bytecode is at an instruction that cannot: at the end of a
  loop, before the decision, at the goto of a jump, among the comparisons of a
  selection or of signs, leaving an arm (`Unseen`). The local of each loop
  around the line holds what is left of its iterations (`Lives`). The core is
  `Lands`: machines that come to a line with the same state match there, shown
  from the last line to the first, since most lines without code of their own
  fall through to the next. A step of the bytecode alone keeps the match
  (`CodeStepMatches`), one of Fortran alone does since `Leads` is a chain of
  steps, and where both rest there is one lemma for each kind of statement.
  `NoneOwn` says that no parameter of a DO reads a DO variable: the code counts
  the iterations after it has set the variable (section 4), and without
  `NoneOwn` the machines part.

### Only model-checked

* The liveness properties `Ends`, `StructuredUnitsEnd` and `TraverseReturns`:
  the prover knows neither fairness nor ENABLED.
* `TypeOK` and `ReadsSource` of `Lexer`.
* The properties of `ExprCode`, `JavaStack` and `CallCode`, whose values are
  recursive operators over expressions: the prover cannot use such a definition.

Induction over numbers is available in the form of sets (`Least`, `UpTo` of
`Induction`), and folds over sequences by it (`FoldSteps`); the operators of the
community modules that the modules proved about use are those that can be
reasoned about this way.

## 6. Not modelled

* Lexer: FORMAT statements, Hollerith, character and real constants, the
  specifiers of I/O statements, text beyond column 72, the size of buffers. An
  INCLUDE without its closing quote, which is passed on as a comment, and, when
  it had to wait for comments, left in the buffer to be cut into tokens as well
  (`f2jlex.c:246`). A `!` that is not in column 1: behind a statement it is cut
  off with the rest of its line, but a line that has nothing before it goes
  through `check_continued_lines` as a statement, and is a comment only then
  (`f2jlex.c:1328`).
* Parser: declarations, DATA, PARAMETER, I/O statements; the grammar itself.
* Generator: DATA, I/O, functions called in expressions, procedures passed as
  arguments, SAVE, BLOCK DATA; the Java source that is written beside the
  bytecode and says the same.
* Method code: `gen_bytecode = FALSE`, `bc_set_stack_depth`, line number and
  local variable tables, stack effects computed from descriptors (given per
  instruction), the limit of the C stack, uninitialised fields.
* Pool: Fieldref and InterfaceMethodref, which differ from Methodref in the
  tag; failed allocations; byte order.
* Class writer, VCG output, memory wrappers, option handling: pure output or
  input. The goto transformers work on class files compiled from the Java
  source. Units and files of the run-time library. JLAPACK: data for the
  compiler.

## 7. Plan

1. Proofs about what exists: `IterationCounts` of `ControlCode`, then `Lexer`
   and its refinement of `FortranSource`.
2. `Descriptors` (`src/f2jmain.c`): reading descriptor files, including a last
   line without a newline.
3. `FortranUnits` (`util/`): the table of units and the files it holds.
4. `GotoTrans` (`goto_trans/`): the two passes over the code array.
5. Functions as values and procedures as arguments in `CallCode`.
