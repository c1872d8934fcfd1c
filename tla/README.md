# ASTeroids: a TLA+ model of the compiler

ASTeroids compiles a small C-like language to JavaScript. One process runs its
stages one after the other: scan and parse a file into a syntax tree, check its
scopes and types, build an intermediate representation (IR) of each function, and
print each IR function as JavaScript. This directory models all of them, from the
characters of the file to the execution of what was printed, and checks them with
TLC on small programs. For texts and programs of every size it proves with TLAPS that the
scanner leaves out nothing but blanks and comments, that the parser hands on trees of the
grammar, that the analyzer's stacks follow the program and the symbol table's hash chains
implement a map, that the builder's labels, values, scopes and names are in order and no function
is lost, and that the printed JavaScript takes the steps of its IR.

Paths are those of the repository; `PROJECT.json` prefixes them with `src/`.

## 1. Inventory

| Component | State | Operations | Interacts with |
|---|---|---|---|
| AST (`src/ast_base.c`, `ast_expr.c`) | nodes | one constructor per kind, `ast_block_add_stmt`, `ast_copy` | built by the parser, read by every later stage |
| Scanner (`src/scanner.l`) | start condition, column, rest of the text | one action per pattern | called by the parser, counts its own errors in `g_parse_errors` |
| Parser (`src/parser.y`) | LALR stack, `g_program_ast`, `g_parse_errors`, `g_params_buf` | one action per production, error recovery | calls the constructors |
| Syntax front end (`src/syntax_analyzer.c`) | the globals above | `syntax_parse_path` | called by the drivers |
| Symbol table (`src/symbol_table.c`) | hash chains, parent link | `st_insert`, `st_lookup*`, `st_remove`, `st_update*` | one per scope of the analyzer; owns values (`ast_free`) |
| Semantic analyzer (`src/semantic_analyzer.c`) | scope stack `g_scope`, signatures `g_funs`, return types `g_fun_ret_stack` | `check_*`, `infer*` | symbol table; decides whether the IR is built |
| IR (`src/ir.c`, `include/ir.h`) | per function: code, temporaries and labels allocated, locals | `ir_new_*`, `ir_emit_*`, `ir_register_local` | written by the builder, read by printer and generator |
| IR builder (`src/ir_builder.c`) | C call stack, `g_vars`, `g_scope_depth` | `irb_build_program`, `irb_emit_stmt`, `irb_emit_expr` | reads the AST, calls the `ir_*` operations |
| JavaScript generator (`src/codegen_js.c`) | `g_label_map`, `g_temps`, position in the code, two flags | `codegen_js_program`, `codegen_js_func`, `codegen_js_instr` | reads the IR, prints |
| AST and IR printers, `ast_free` | none | traversals | drivers |
| Drivers (`src/drivers/`) | none | `main` | run a prefix of the stages, stop at the first error |

Nothing runs concurrently and nothing is persisted. What is hard here is *state
kept across a recursive descent, and several encodings of the same fact that
must agree*:

* **Labels.** A compound statement allocates its labels, emits some, recurses
  into its parts, which do the same, and emits the rest afterwards. Correct: at
  the end of a function each label is placed exactly once and each branch
  reaches one.
* **Temporaries.** A value is a number an activation holds while others
  allocate more. Correct: every operand was computed further up (or is the
  placeholder of a variable nothing assigned).
* **Names.** A variable's current temporary is in `g_vars`, the names of
  temporaries in `locals`; the generator sees only the second. Correct: they agree.
* **Static state across functions.** `g_vars`, `g_scope_depth`, `g_label_map` and
  `g_temps` outlive a function. Correct: nothing of one function is seen by the next.
* **Control flow.** A function with labels becomes `while (true) { switch (pc)
  ... }`, with cases numbered apart from labels and a fall-through decided by two
  flags. Correct: it executes the IR, instruction for instruction, and returns when it does.
* **Declarations.** `let` on the first assignment of a printed name and no other.
* **Values.** Several names may stand for one temporary, a temporary is a
  JavaScript variable, and truth values are 0 and 1 in the IR and booleans in
  JavaScript. Correct: the variables end with the values the source gives them.
* **Semantic analyzer.** Scopes and signatures that mirror those of the builder,
  an error counter that every rejected program must raise, a bounded stack with
  asymmetric push and pop.
* **Symbol table.** Hash chains that must behave like a map; ownership of values.
* **Parser.** Precedences and the dangling `else`; one global buffer for
  parameters and functions that nest; error recovery that pops and discards.
* **Scanner.** A start condition for comments, longest match, a column moved by
  hand in every action, escapes rewritten into a buffer of the lexeme's length.
* **Stages.** The builder trusts the analyzer for the names it meets, the
  generator trusts the builder for calls and labels, the driver must stop at the
  first stage that fails.

`PROJECT.json` lists these and others under `hazards`, each at its line.

## 2. Plan

Done, in this order (the arrows are what each module uses):

1. `Ast`, `Ir` <- `Ast`: nodes, instructions, `ir_*` operations.
2. `IrBuilder` <- `Ir`, run `mc_builder`.
3. `CodegenJs` <- `Ir`; `JsMachine`; `IrMachine`; `Backend` <- the three, run `mc_backend`.
4. `Compiler` <- `IrBuilder`, `Backend`, run `mc_compiler`.
5. `IrBuilderProofs`: type correctness and the labels.
6. `SymbolTable`; `ScopeMap` (abstract), `Scopes` <- `SymbolTable`, run `mc_scopes`.
7. `SemanticAnalyzer` <- `SymbolTable`, against `Typing`, run `mc_semantics`.
8. `Parser` <- `Tokens`, against `Texts`, run `mc_parser`.
9. `Driver` <- `Parser`, `SemanticAnalyzer`, `IrBuilder`, `CodegenJs`, run `mc_driver`.
10. `Values` <- `Compiler`, against `Meaning`, run `mc_values`.
11. `Scanner`, run `mc_scanner`.
12. `StackTheorems`: lemmas on stacks, for the proofs about both descents.
13. `SymbolTableTheorems`, `ScopesProofs`: the chains, the ownership and the refinement.
14. `IrBuilderProofs`, second part: values, single assignment, scopes and names of the builder.
15. `SemanticProofs`: the stacks of the analyzer.
16. `BackendProofs`: jumps and declarations that are printed, and the simulation of the IR.
17. `CompilerProofs`: the same of builder and back end together.
18. `FrontEndProofs`: the scanner's properties, and the trees of the parser.
19. `IrBuilderProofs`, last part: the program that comes out.

What is left is in Section 5 under "Model-checked only".

## 3. Modules

**`Ast`.** A node is a record; its `kind` is the `NodeKind`. `ExprShape` and
`StmtShape` are the grammar: the shape of a node whose children are again in
given sets. The sets `Exprs` and `Stmts` are constants, so an assumption
(`AstAssumption`) says they hold well-shaped nodes only; TLC evaluates it for
the sets of each run and the proofs assume nothing else of programs. Literals
carry a number for their text, `NullNode` is `NULL`.

### Front end

**`Scanner`** works on a sequence of characters. `Initial` and `Comment` say
which pattern a string of characters matches in each start condition, `yyleng` is the
longest match, and every action of `scanner.l` is an action. Which words are
keywords and which characters operators are constants. `strtol` and the cast to
`int` keep their widths (`LongBits`, `IntBits`). A token remembers its place in
the text, which the properties need and the program does not keep. `Where` tells
from the characters and the tokens alone whether a character is in a comment, without the
start condition; the properties compare it with what the scanner did.

**`Parser`** starts from tokens (`Tokens`). The tables Bison makes are not in the
repository, so the automaton is modelled by what it does: a stack of symbols
with semantic values, one token of lookahead, `Shift`, and a reduction per
production, each with the code of its action in `parser.y`. Productions conflict
only in expressions and `if`; there `Waits` compares the precedence of the operator
below with the lookahead. The nonterminals from `Expr` to `Primary` differ only in the
operators they may hold and are one symbol. Error recovery is `SyntaxError`
(`yyerror`), `Kept` (the stack popped to where a statement may begin), `Discard`
and `Resume` (`error SEMICOLON`). `syntax_parse_path` is around it:
an unreadable file, the reset of the globals, `SyntaxResult`. `TokensAssumption` says that a
token carries the value its action in `scanner.l` gives it. `Texts` writes a tree as
tokens, with the parentheses `docs/gramatica.md` asks for; `BrokenTexts` damages texts.

**`SymbolTable`** has the operations of `symbol_table.c` as operators on a
table, a sequence of symbols for each bucket; the hash function is a constant.
**`Scopes`** is a client that calls them in any order on nested tables and keeps
the set `live` of value nodes that have not been freed. **`ScopeMap`** is the abstract
specification, a stack of maps, and `ImplementsMap` the refinement: a scope maps a
name to what the lookups of its table answer.

**`SemanticAnalyzer`** is a machine over the C call stack, like `IrBuilder`
below: `infer` and `check_*` are frames, `ret` the type the last `infer` returned, `g_scope`
a sequence of tables of `SymbolTable`, `g_funs` and `g_fun_ret_stack` (of capacity
`MAX_FUN_STACK`) the statics of the code. **`Typing`** is the reference: a judgement
on trees with environments that are functions, without stack or table.

### Middle and back end

**`Ir`.** An `IrFunc` is a record, an operation `ir_x(f, ...)` maps it to the record
after the call. What the C operation returns is `LastTemp` of the result.

**`IrBuilder`.** The C code is a recursive descent. Its call stack is the
variable `todo`: a frame names the point where its activation resumes (`k`), the
node (`n`), and the C locals still needed -- the first label of the block of
labels it allocated (`l`), a loop index (`i`), temporaries (`ts`: the left
operand, or `argv`). The head is the running activation; an action is the
straight-line code up to the next recursive call, and its result is in `ret`. The
action is named for the code: `EmitThen` resumes `emit_if` after its condition,
`EmitElse` after its then branch. `funcs` holds the functions that are complete
and `f` the one under construction (`ir_func_begin` links it into the program
right away, and nothing reads the program before the end). `g_vars` is a function
from names: `vt_get` inserts only names it does not find, so the C list holds
each at most once.

**`CodegenJs`.** One action per printed instruction. The text of a function is
a sequence of lines; a line keeps the jump, name, operator and `let` it prints, the
names it reads, and `src`, the IR instruction it belongs to. `g_temps` and
`g_label_map` are those of the code. The text of literals is left out.

**`IrMachine`** is the abstract specification: what IR code means by the
comments of `ir.h`. A `brfalse` may go either way. **`JsMachine`** is the
engine, external to the repository: `switch` enters the first matching case,
cases fall through, `break` leaves the switch, the end of the switch turns the loop.

**`Backend`** prints an IR program with `CodegenJs` and lets `JsMachine` call one
of its functions. `ImplementsIr` is `IrMachine`'s `Spec` under the refinement
mapping `code` <- the IR of the running function, `ip` <- `IpOf`, the `src` of the
line control is at, or of the case `pc` names when control is at the `switch`.

### Compositions

**`Compiler`** puts `IrBuilder` before `Backend`, with `funcs` as the program of
the generator. **`Values`** adds data to the engine: the values of the names of
the global code and the calls it makes. A call returns the number of its arguments,
in the engine and in **`Meaning`**, which evaluates the source tree directly.

**`Driver`** is `main` of `codegen_js_driver.c`: parser, analyzer, builder and
generator on one tree, the early exits between them and the exit code.

**`Programs`** and **`Nodes`** hold source programs and the nodes they are made of, `MC*` the
constants of each run. Operators called `Slip_*` are wrong variants of the
definition below them; the `mutants` of `PROJECT.json` use them to show that
each property can fail.

## 4. Runs

| Run | Inputs | What it shows |
|---|---|---|
| `mc_scanner` | two lexemes of every kind with every kind of blank or comment between them, three lexemes side by side, every text of up to 5 characters over those that begin and end comments, strings and numbers, also behind `/*` and `//` and between quotes | what was written is read, nothing else is dropped, columns, buffer of a string |
| `mc_parser` | texts of `SmallPrograms`, all pairs of operators, dangling `else`; six programs with one token lost, doubled, replaced or added anywhere; programs with a broken statement in between | the tree is the one that was written; recovery loses what is reported and only that; it ends |
| `mc_scopes` | any calls on 2 nested tables of 2 buckets, 3 names of which a chain can hold all, 2 types, 2 values | the chains are maps, values are owned once, searches agree |
| `mc_semantics` | every operator, assignment and call over operands of all types (also undeclared, `void`, ill-typed) in every place that asks for a type; all sequences of three statements that open scopes, declare, shadow, call and define | accepted iff `Valid` by `Typing`; stacks follow the descent; it ends |
| `mc_builder` | `SmallPrograms` | type and safety invariants, `Termination` |
| `mc_backend` | every well-formed code of up to 4 instructions over 2 labels and 2 temporaries, and 3-instruction codes with names | `JumpsLand`, `LetAtFirstAssignment`, `ImplementsIr` |
| `mc_compiler` | `SmallPrograms` | `LetAtFirstAssignment`, `StepsFollowIr` |
| `mc_driver` | texts of programs of 2 to 5 statements with and without type errors, a text with each token lost, unclosed comments, an unreadable file | exit code, calls that resolve, no invented names |
| `mc_values` | global code with conditions, loops in loops, calls and blocks that keeps to what the translation gets right | same values, same calls, it stops |

What the properties say (each is stated above its definition):

* `TokensRead`, `NothingSkipped`, `ColumnTracked`, `StringFits`: the lexemes of
  a text come out one by one with their values; every character is a blank, in a
  comment or in a token; the column is the distance from the last line break that counts; a
  rewritten string fits the buffer it is written to.
* `RoundTrip`, `NothingLost`, `LossIsLocal`: parse and print agree; a text accepted
  without an error is in the tree word for word; a broken statement costs only itself.
* `ChainsAreMaps`, `OwnedOnce`, `SearchesAgree`, `ImplementsMap`: above.
* `ScopesFollowDescent`, `ReturnTypesMatch`, `AcceptsIffValid`: at every step the
  tables and return types on the stacks are those of the open blocks and
  functions; the verdict is the typing rules'.
* `LabelsAccounted`: at every step of the descent a label that was allocated is
  placed once or owed by one suspended activation. `BranchesResolve` is what is
  left of it when a function is finished.
* `ValuesAvailable`, `SingleAssignment`: an activation that waits for a value
  gets a temporary, never the -1 of a `NULL` node, and code is in single
  assignment form.
* `ScopesBalanced`, `VariablesNamed`: depth counts the open blocks, bindings of
  closed blocks are gone, the current value of a variable has its name.
* `ProgramComplete`, `Termination`: the descent ends; then each function of the root block is there
  once, in source order among themselves, and one `_entry`, which returns. Where `_entry` stands is
  left open (see the divergences below).
* `JumpsLand`, `LetAtFirstAssignment`: cases are 0, 1, 2, ... and every jump names one;
  `let` is exactly on first assignments.
* `ImplementsIr`: the printed function takes the steps of its IR in order, and
  goes on whenever it does. It needs code whose control does not run past its
  end, which the builder does not guarantee (finding `find_void`);
  `StepsFollowIr` drops that restriction and with it progress: the one step that need not be one of
  the IR is the turn of the loop when control is behind the last instruction (`TurnsPastCode`). A
  `break` in the middle of a function, reached without `pc` being set, violates it.
* `ExitCode`: 0 exactly for correct programs, and then every function of the
  source is printed; otherwise nothing is.
* `CallsResolve`, `NoInventedNames`: what the analyzer establishes is what
  builder and generator rely on.
* `SameValues`, `SameCalls`, `Stops`: the printed code computes what the source says.

**Bounds.** A program of the builder's runs is one of `SmallPrograms`: every simple and compound
statement inside a function, compound statements around each simple one and around
compound ones, all pairs of simple statements, every operator over operands
that allocate labels or temporaries or change bindings themselves, and programs
with several functions, a nested one, and global code between them. An
activation of the builder sees its children only as the value they return and
what they add to `f` and `g_vars`, so that a hazard between two activations
shows at depth two; depth three is there. The proofs cover every depth. For the
generator, the case of an instruction depends on two flags and whether a label
precedes it: four instructions hold every pair of blocks, empty ones included.
A chain of three has a head, a middle and an end, and two tables an inner and an
outer one; a third adds no new pair. Three statements are enough for a declaration, one that shadows or
redeclares it and a use after the scope is closed. The scanner has no memory across lexemes but the
start condition and the column, so pairs of lexemes meet every case of what follows what.
`MAX_FUN_STACK` is 64 as in the code, which no program of the runs reaches.

**Fairness.** `WF_vars(Next)` where there is a liveness property: compiler and engine are single
threads that take their next step when there is one. In `IrMachine` only `Step` is fair: an
activation need not begin, but one that began goes on. Which way a conditional branch goes is not
fair: a loop may run for ever. In `Values` conditions have values, and there `Stops` holds
because the loops of the programs do.

**Deadlock** is checked in every run: a machine that is done stutters (`Finish`).

**Findings.** Three runs check statements of the repository's docs, comments and
golden files that the code does not meet; `PROJECT.json` quotes them.

| Run | Program | What happens |
|---|---|---|
| `find_copy` | `int x = 1; int y = x; x = 2;` | `y` is a second name of `x`'s temporary and changes with it |
| `find_names` | `int f(int x) { return x + x; }` | the parameter has no binding: its use reads a temporary nobody assigns |
| `find_void` | `void f() { int x = 1; if (x < 1) { x = 2; } }` | the printed call never returns |

**Other divergences.** The same properties fail on more programs, which the passing runs leave out.
They have no run of their own; adding the program to the inputs of the run shows each of them.

| Where | Program or behaviour | Property (run) |
|---|---|---|
| `ir_builder.c:106` | `int x = 1; { int x = 2; }`: the inner declaration overwrites the outer variable | `SameValues` (`mc_values`) |
| `ir_builder.c:308` | `b = !b`: truth values are compared with 0 by `===` | `SameValues` |
| `ir_builder.c:342` | the value of `&&` and `\|\|` is set on one path only | `SameValues` |
| `codegen_js.c:44` | `x - (x = 2)`: the operand read first changes | `SameValues` |
| `codegen_js.c:47` | a variable called `t2` is a temporary's name | `SameValues` |
| `ir_builder.c:317` | `a && f()`: the right operand is emitted before the branch and again behind it | `SameCalls` |
| `codegen_js.c:229` | `g(x)`: an argument is printed as `tN`, which nothing declares | `SameCalls` |
| `codegen_js.c:157` | `return;` in the global code is not printed | `SameCalls` |
| `codegen_js.c:258` | in a state machine named temporaries are assigned without `let` | seen in the lines of `CodegenJs` |
| `ir_builder.c:247` | a global variable read in a function has no binding there | `NamesBound` (`find_names`) |
| `ir_builder.c:502` | a function in a function is accepted and never printed | `CallsResolve` (`mc_driver`) |
| `parser.y:140` | a function in a function resets the parameters of the outer one | `RoundTrip` (`mc_parser`) |
| `parser.y:136` | `for (int i = 0; ...)` of `docs/gramatica.md:97-105` is rejected | `RoundTrip` |
| `syntax_analyzer.c:36` | a failed parse returns a tree (`include/syntax_analyzer.h:11`); the drivers look at `ok` as well | `result` of `Parser` |
| `semantic_analyzer.c:191` | an assignment used as a value counts its errors twice (`include/semantic_analyzer.h:9`) | `errors` of `SemanticAnalyzer` |
| `semantic_analyzer.c:147` | an ill-typed operator in an expression statement is accepted; `Typing` is as lax | `AcceptsIffValid` (`mc_semantics`) with strict rules |
| `semantic_analyzer.c:87` | beyond 64 nested functions the pops do not match the pushes | `ReturnTypesMatch` with a small `MAX_FUN_STACK` |
| `ir_builder.c:180` | `_entry` is built, and so printed, behind the functions; `tests/intermediate/ok/ok_030_simple_func.golden:1-4`, `ok_031_void_no_return.golden:1-4` and `ok_034_top_level_plus_function.golden:1-9` (and 032, 033) have it in front of them | none: `ProgramComplete` leaves its place open; JavaScript hoists functions, so the printed program is the same |
| `codegen_js.c:113` | `"a\"b"` is printed with the quote unescaped, a float with six digits (`%g`) | none: text of literals is not modelled |
| `scanner.l:50` | `"a\0b"` is `"a"` to every reader | the value of the token holds both |

## 5. Proofs

Everything here holds for every value of the constants that meets the named assumptions:
`NamesAssumption` (the names `""` and `_entry` exist), `AstAssumption` and `CheckedAssumption`
(trees have the shape the grammar gives them; `TreesAssumption` for `Compiler`), `IrAssumption`
(in the IR handed to the generator alone labels are placed once and branches go to them),
`ScannerAssumption` (letters are not digits, keywords are made of letters, no keyword or operator is
called `ERROR` or `STRING_LIT`), `TokensAssumption` (a token carries the value of its kind), `HashAssumption` and `ScopesAssumption` (there is a bucket, hashes are buckets, `NULL` is no
value). Texts, programs, trees, hash functions, capacities and depths are otherwise arbitrary.

| Module | Theorems | Property |
|---|---|---|
| `FrontEndProofs` | `Typing`, `Coverage`, `Columns`, `StringsFit` | `TypeOK`, `NothingSkipped`, `ColumnTracked`, `StringFits` of the scanner |
| `FrontEndProofs` | `ParserTypes`, `TreesHandedOn` | `TypeOK` of the parser; an accepted tree is one of the grammar |
| `IrBuilderProofs` | `TypeCorrect`, `LabelsCorrect`, `BranchesCorrect`, `ValuesCorrect`, `AssignmentCorrect`, `ScopesCorrect`, `NamesCorrect`, `ProgramCorrect` | `TypeOK`, `LabelsAccounted`, `BranchesResolve`, `ValuesAvailable`, `SingleAssignment`, `ScopesBalanced`, `VariablesNamed`, `ProgramComplete` |
| `ScopesProofs` | `TypeCorrect`, `ChainsCorrect`, `OwnershipCorrect`, `SearchesCorrect`, `Refinement` | `TypeOK`, `ChainsAreMaps`, `OwnedOnce`, `SearchesAgree`, `ImplementsMap` |
| `BackendProofs` | `JumpsCorrect`, `LetsCorrect`, `StepsCorrect`, `Refinement` | `JumpsLand`, `LetAtFirstAssignment`, `StepsFollowIr`, safety of `ImplementsIr` |
| `CompilerProofs` | `JumpsCorrect`, `LetsCorrect`, `StepsCorrect` | `JumpsLand`, `LetAtFirstAssignment`, `StepsFollowIr` of the whole compiler |
| `SemanticProofs` | `TypeCorrect`, `ScopesCorrect`, `ReturnsCorrect` | `TypeOK`, `ScopesFollowDescent`, `ReturnTypesMatch` |

**Scanner** (`FrontEndProofs`). The invariant is

    IInv == TypeOK /\ IsSeq(tokens) /\ Placed /\ NothingSkipped /\ ColumnTracked /\ StringFits

`NothingSkipped` is not inductive alone: whether the next character is in a comment is decided by
the start condition in the program and by `Where` in the property. `Placed` says that the two
agree at the point the scanner is at: in `INITIAL`, `Where` there is code, or the end of a comment;
in `COMMENT` it is a place of a block comment, and what is read does not end between "\*" and "/". It is kept because a
match is the longest one (`CodeAhead` and one lemma `*Advances` per pattern follow `Where` over it): a line comment
ends at the line break and not before, `//` is never two divisions, and in a comment "\*/" is never
read as two characters. The column follows from the last line break among the characters read.
`StringFits` is about `process_string_literal`: it never writes more characters than it reads
between the quotes, so the terminator fits.
`Where` and the decoded string are recursive functions. What is needed of them (that they exist and
unfold, that they do not change where the tokens do not) is shown by a least counterexample, since
the library's induction theorems cannot be used. The proof attempt showed that an earlier definition of
`Commented`, which asked for a comment that begins somewhere before, was too loose: it still
counted the carriage return behind `/*//*/`, or on the line below `///*`, as part of a comment, and no run
had such a text. They are among the inputs of `mc_scanner` now.

**Parser** (`FrontEndProofs`, second half). Its theorems are about the parser as an instance `P`,
because the module extends `Scanner`. The invariant `ParserInv` says that there are sets `E` and `S`
of expressions and statements that have the shapes of the grammar over one another (`Grammar`), and
that each symbol of the stack carries what its productions make of them (`Carries`): an `Expr` a
member of `E`, a `Stmt` one of `S` or `NULL`, a list a block whose elements are not `NULL`, a
`ParamList` declarations. A reduction adds at most one node to `E` or `S`; that nodes there
already keep their shape is `ExprGrows` and `StmtGrows`. A stack that is not empty has a `StmtList`
at the bottom (`Stacked`), which is why the tree is a block whatever error recovery has popped.
`ParserTypes` is the type invariant of run `mc_parser`. `TreesHandedOn` is what the later stages take
for granted: with `E`, `S` and an accepted tree for `Exprs`, `Stmts` and `Programs`, what
`AstAssumption`, `CheckedAssumption` and `TreesAssumption` say of them is true (for
`CheckedAssumption` the tree itself is added to `S`).

**Stacks** (`StackTheorems`). Builder and analyzer are recursive descents, and a step of either
replaces the head of a stack by a few frames. The *level* of a frame is the number of
frames of some kinds from it to the bottom; a step leaves the levels below it alone. Levels are
what ties a suspended activation to its entry in another stack: its table, its return type,
its depth. The module also has what the library lacks on counting in sequences.

**Labels of the builder** (`IrBuilderProofs`). The module begins with lemmas about
the `ir_*` operations: they keep the type of the function, and `Extends(f, h, new)` says that an
operation leads from `f` to `h` placing the labels `new` and no other. The invariant is

    IInv == TypeOK /\ Shape /\ LabelsAccounted /\ BranchesResolve

`BranchesResolve` is not inductive: when a function is appended to `funcs`, one must
know that no activation owes it a label. `LabelsAccounted` says who owes what.
It needs `Shape`: when `end` or `_entry` is running, nothing but frames of
`irb_build_program` is below it, and these owe nothing, so `Pending` is empty and
`Labels(f) = Placed(f)`. `TypeOK` carries the fact that makes each action
enabled on sensible data: a suspended activation works on a node of its kind.

Every action pops one frame and pushes a few, of which only the last owes
labels. `Advances` says what such a step owes: well-typed frames, and the balance
"placed now plus owed now = owed before plus newly allocated". One lemma per
action establishes it (`Step*`), `StepKeepsTypes`, `StepKeepsShape` and
`StepKeepsLabels` show that it suffices, the actions of `irb_build_program` are
treated one by one, and `NextIInv` puts the cases together.

**Values of the builder** (`IrBuilderProofs`). The four properties need one another: an
instruction reads what `irb_emit_expr` returned or what `g_vars` holds, so an operand is
defined further up only if those are temporaries of the function; the placeholder of a name
that has no binding stays undefined only because a destination is always fresh. The
invariant is `IInv /\ VInv` with

    VInv == Waits /\ Valued(g_vars, f) /\ Depths

`Waits` says that every activation that consumes a value has a producer right above it,
or the value in `ret`; `Valued` that the code is in single assignment form and each variable has a
registered temporary or one nobody assigns; `Depths` that `g_scope_depth` counts the frames
of blocks. Most steps are `Calm`: the function grows, the variables keep a value in
it, and no block begins or ends. A lemma per action shows it is one; blocks and the frames
at the bottom of the stack are treated apart.

**The program of the builder** (`IrBuilderProofs`, last part). `ProgramComplete` speaks of the
last state only. The invariant `Passes` says of every state that the functions among the root nodes
passed so far are in `funcs` in their order (`Translated`), except one whose frame `end` is on the
stack, whose name `f` bears (`InFunction`); and that in the second pass, over the global code, none
is under construction. At the end `_entry` is behind them, which is one place for it. The steps of the descent keep it because none of the `ir_*` operations renames
`f` (`NameStays`) and the last two frames of the stack stay (`BottomStays`).

**Generator and engine** (`BackendProofs`). `Follows(c, ls, p)` is what the lines `ls`
printed for the instructions in front of `p` have to do with the code `c`:

    Follows(c, ls, p) == Lined(c, ls, p) /\ Ordered(ls, p) /\ Covered(c, ls, p) /\ Numbered(c, ls, p)

Each line stands for an instruction of its kind (`Lined`), behind a line that control falls through is
the next instruction (`Ordered`), each label so far has its case (`Covered`), and the cases are
numbered as they come (`Numbered`). `AddLine` shows what one line more must meet for that, and
every action of the generator adds a line or two. For a function without labels `Sequential`
relates lines and instructions one by one. `JumpsLand` and `LetAtFirstAssignment` follow; the two
flags of `codegen_js_func` are tied to the last instruction by `InMachine`, which is why a case
that is left open is closed and one that was left is not. So no `break` is behind a line that
control falls through (`Sealed`), except the one `EndFunc` prints at the end (`SealedToEnd`).

For the engine, `Started` says that `pc` names a case of the function that runs. Each
of its steps but the end of the switch is then a step of `IrMachine` or none: `SwitchStays`, `FallsInMachine`,
`FallsInSequence`, `JumpsInMachine`, `ReturnsAtRet`, `CallStarts`. Of the end of the
switch `EndOfSwitchIsEnd` shows that control gets there behind the last instruction only,
because `Started` also says that a `break` it is at is the one of the end. `StepsCorrect` has the hypothesis
`AllStraight`: a function without labels has no `ret` without value in front of its end when it is
`_entry`, because `codegen_js_instr` prints nothing for it (line 157) and JavaScript goes on where
the IR returns. `Refinement` adds `AllLeave`: the code of every function ends with a `ret` or a
`br`. A function that does not, as a void one without `return`, turns for ever at the end of its
`switch` (finding `find_void`), so there the hypothesis is needed. The programs of run
`mc_backend` satisfy both, in all their states.

**Compiler** (`CompilerProofs`). The invariant says that the generator has not begun before
`irb_build_program` is done, and that `BInv` holds from then on: `BranchesResolve` and the types of
`funcs` are what the back end assumes of a program, so `IrAssumption` is not assumed of the
compiler. The module takes the proofs about the components as instances (`BuilderP`, `BackP`);
the `Same` lemmas say that these are the components `Compiler` is made of. `TreesAssumption` is
`AstAssumption` of the trees the parser hands over.

**Symbol table** (`SymbolTableTheorems`, `ScopesProofs`). Every operation replaces one
chain: by itself with a symbol in front, with one symbol changed or with one cut out
(`InsertMeans`, `UpdateMeans`, `RemoveMeans`). `Sound` is kept: each name at most once,
in the bucket of its hash, and as many symbols as `size` says. `Owning`, the rest of the
invariant of `Scopes`, says that the values held are those that are live and each is held once;
it is why `st_remove` and `st_update` free a value nobody else has. In
`SearchesCorrect` each search is a maximum of table numbers, and the table the search of values
stops at binds the name, so it is not below the one the search of types stops at. For `Refinement` a
table is read as the function from names to what its lookups answer; each call is shown to be
one step of `ScopeMap` on those functions (`CreateRefines` to `UpdateRecursiveRefines`), a
refused insertion or update a step that changes nothing.

**Analyzer** (`SemanticProofs`). The invariant is

    IInv == TypeInv /\ Shape /\ ParamsDeclared /\ ScopesFollowDescent

`ScopesFollowDescent` says nothing of the moment in which parameters are being inserted,
`ParamsDeclared` does: the newest table holds those inserted so far. `Shape` says that nothing
but a block runs directly above a frame of a function or of `check_semantics`, which is why the
injected table stays empty and the table of a function holds its parameters only. `QuietStep` and
`CalmStep` treat the steps at expressions and simple statements, `FrameStep` those that open or close
something. `ReturnsCorrect` has the hypothesis `[]Shallow`: no more than `MAX_FUN_STACK`
functions are open at once. Without it the property is false, since a push beyond the
capacity is dropped and its pop is not (see the divergence at `semantic_analyzer.c:87`).
With 64 entries every program but those with 65 functions inside one another meets it. The
other two theorems need no such hypothesis.

**Model-checked only.** Liveness is beyond the proof system: `Termination` of parser, analyzer and
builder, `Stops` and the fairness part of `ImplementsIr`. `AcceptsIffValid`, `RoundTrip`,
`ExitCode`, `SameValues` and `SameCalls` compare a component with a recursive reference on trees
(`Typing`, `Texts`, `Meaning`); in a module that reaches a `RECURSIVE` operator nothing can be proved,
and what such a definition computes for every tree needs induction over trees. (The two
recursive functions on numbers above were within reach because a least counterexample is a
number.) `TokensRead`, `NothingLost` and `LossIsLocal` are about texts that are written in a certain
way, which only the runs have. `CallsResolve` and `NoInventedNames` of `Driver` need an invariant that ties
the tables of the analyzer to the bindings of the builder, although one is gone when the other begins:
it would have to say what acceptance means for each tree, which is `Typing` again.

## 6. Not modelled

* Memory: `ast_free` of whole trees, growth of arrays, failed allocations. (Who
  owns the value of a symbol is modelled, in `Scopes`.)
* The printers of tree and IR, and the text of literals in the generator: pure output.
* A root that is no block (`ir_builder.c:198-206`): the parser always hands over a block
  (`TreesHandedOn`), so nothing reaches that branch.
* The line `_entry();` at the end of the output is no line of `CodegenJs`, which has the lines of
  functions: `has_entry` says whether it is printed, and `Values` begins to run where it calls. In
  `Backend` any function may be called, that one included.
* `ir_driver.c`, `syntax_driver.c` and `semantic_driver.c` run prefixes of the
  stages of `Driver`; `lexer_driver.c` runs the scanner alone (and prints the
  start column of a token one too high, line 58).
* Values of floats and strings: `Values` has numbers and truth values, and `strtod` is
  left out. Values in functions: only the global code is run with data, because
  parameters have none (finding `find_names`).
* Code nothing calls: `irb_emit_func`, `vt_clone_list`, `vt_restore_from`,
  `vt_insert_manual`, `ast_copy`, `ir_emit_cast` and the `IR_CAST` case of the generator.
* Line numbers (`yylineno`) and the wording of messages.
