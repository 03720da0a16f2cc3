# A TLA+ model of rx-compiler

This directory models the compiler of the Rx language (`src/` of the repository):
its front end from tokens to the syntax tree, the passes of its semantic analysis,
the lowering of function bodies to LLVM IR, the generated helper functions, and the
vectors of the C runtime under the code the compiler emits for them.  `PROJECT.json` lists components, runs, theorems,
known hazards, and for every definition the lines of the source it models.

The compiler is one sequential program.  Its hard parts are not threads but
passes that hand over unchecked assumptions: a grammar in four nearly equal copies, worklists and depth-first walks over
cyclic graphs, memo tables, a syntax tree that is judged twice (by the checker
and by the lowerer) and must be judged alike, basic blocks that are left open or
closed by jumps, and emitted code with 32-bit arithmetic over a heap.  A test
shows the outcome for one source file; the models take every small program.

## Inventory

The passes run in this order, each stopping the program with exit code 1 when it
has reported something (`main.rs`, `semantic_check` in `semantic.rs`).

| component | state it keeps | operations | what makes it correct | here |
|---|---|---|---|---|
| `RxLexer.g4`, `RxParser.g4` and the generated `rx_lexer.rs`, `rx_parser.rs` | lexer mode, active rule functions, viable alternatives | read a token, call a rule, predict, return | exactly the language is read, and grouped as Rust groups it | `RxGrammar`, `RxAutomata`, `RxParser`, `RustSyntax` |
| `lexer.rs`, `parser.rs`, `ast_builder.rs` | none (a tree walk) | one function per rule | no parse tree falls into an `unreachable!` | `RxParser`, `AstBuilder` |
| `def_collect.rs` | definitions, namespaces | collect structs, functions, consts; then impls | no name is defined twice; impls see every struct | `NameResolution` |
| `name_res.rs` | stack of scopes, current impl | enter and leave scopes, bind, look up | a name means what lexical scoping says | `NameResolution` |
| `type_res.rs`: constants | `node_const`, `resolving_consts` | evaluate an item, a length, a path | values are those of the source; cycles are reported | `ConstResolution` |
| `type_res.rs`: layouts | `resolving_structs` | depth-first walk | exactly the types of infinite size are reported | `StructRecursion` |
| `type_res.rs`: types, signatures | `node_ty` | resolve a type | - | not modelled (a fold) |
| `trait_check.rs` | dependency graph, derive bits, queue | build graph, propagate | the derives left are the greatest consistent set | `TraitRules`, `TraitCheck`, `DeriveFixpoint` |
| `body_check.rs`: jumps, blocks, operators | `node_info`, loop stack | check each expression form | types, jump targets and divergence agree with the lowering | `FlowCheck`, `FlowTyping` |
| `body_check.rs`: places | `PlaceInfo` and adjustments of a node | borrow, dereference, index, project, coerce, assign, select a receiver | a shared value is never changed through a borrow | `Places` |
| `body_check.rs`: calls, array and struct expressions | types, adjustments | look up, order operands | operands have the types of their parameters | not modelled |
| `entry_check.rs` | none | one condition | - | not modelled |
| `lower/function.rs`, `expr.rs`, `ir/builder.rs`: bodies | blocks, slots, loop targets | lower each expression form | the code computes what the source means | `FlowLower`, `FlowSource`, `ControlFlow`, `FlowAgreement` |
| `lower/equality.rs`, `clone.rs`: helpers | memo tables, pending stacks | declare, define | each helper once and with a body; an arm for every type that has the trait | `GeneratedHelpers` |
| `lower/ty.rs` | none | size, alignment, names | sizes agree with LLVM's; types have names of their own | the names, in `GeneratedHelpers` |
| `lower/function.rs`: places | slots, temporaries | follow an adjustment, borrow, load, store | a value is of the type the checker gave it | `Places` |
| `lower/function.rs`: arguments, array and struct expressions | temporaries | lower each form | evaluation order, no clobbered temporaries | not modelled |
| `ir/printer.rs` | none | print | what it prints is well formed | the assertions, in `ControlFlow` |
| `runtime.c`, `vec_ty.rs`, `clone.rs`: vectors | headers, buffers, heap | new, push, remove, index, clone, move | vectors behave like sequences; nothing outside a buffer is touched | `VecSpec`, `RuntimeVec` |
| `lower/box_ty.rs`, `lower/runtime.rs` | declared functions | one allocation per box; declarations | - | not modelled |
| `scripts/test.py` | counts | run a case, classify the outcome | a crash is never a pass | not modelled |

`PROJECT.json` has the same list with a note for each part, and the hazards at
their lines, those included that no property covers yet.

## Modules

### Parsing: `RxGrammar`, `RxAutomata`, `AstBuilder`, `RxParser`, `RustSyntax`

`RxGrammar` has the 147 rule functions of `rx_parser.rs` as rules in a BNF notation,
each a value: an alternative is ordered, an option and a repetition prefer to go on.
`RxAutomata` turns the rules into the states and transitions that the parser holds in
its serialized table.  `RxParser` reads the lexemes of a text one at a time
(`ReadLexeme`, with the lexer modes that part `>`, `>=` and `>>=`; `ReadSpace`; `ReadEnd`)
and keeps, after each token, every place in every rule where the parser may be: what the
adaptive prediction of the parser runtime finds viable when it looks at the full context.
No place left is a syntax error, which the parser reports without a tree.  At
the end of the text the tree is rebuilt decision by decision, a decision taking the
first alternative that the rest of the text allows (`Call`, `ReadToken`, `Predict`), and
`Build` hands it to `AstBuilder`, one operator per `build_` function; its
`unreachable!`s and `expect`s give `Panic`.  `RustSyntax` is the reference, written from
Rust's own rules and not from the grammar: binding strengths in one table, one condition
flag for struct expressions, what ends a statement, which `>` closes type arguments, how
far the operand of a jump reaches.

The parser runtime is a library: the map marks what stands for it as external.  Its
predictor falls back to the first viable alternative on an ambiguity, as here; that its
two lookahead stages agree is taken from it.  The tables are a constant, `ATN`, which
`MCRxParser` computes once (`Tables`); the assumption on it is checked by each run.

A text is `before`, up to `max` tokens of a small alphabet, and `after` (a *family*).
Left out of the families, because code and reference are known to differ or the language
does not settle them: jumps together with `<<`, `>>` or `<` (the finding below; a cast in the
operand, as in `break x as T < y`, is of the same kind), the operand of a jump in an argument
list, a suffix after a cast (`return x as T.f`) and an `if` whose condition contains a block with a
return of a struct expression.  Characters of tokens, comments between them, the five kinds
of invalid tokens the lexer reports, and error recovery, whose tree is never used, are not
modelled.

### Names: `NameResolution`

The collection of items, then of associated items, then the resolution of every use,
each pass entered only if the one before has reported nothing (`Gate`).  A crate is
a function from paths to nodes: a node is identified by its path from the root (`Tree`),
and `Grammar` says which nodes the parser puts where.  The recursion of `visitor.rs`
is a stack of tasks: `visit` a node, and what remains to be done after its children
(`leave` a struct or impl, `close` a scope, `bind` the name of a `let`).  `node_def`
is what `record_node_def` keeps, and its assertion that a node is bound once leads to
`panicked`, as does an unbound struct or impl.  Visits that only pass on to their
children are `Walk`.  The reference is stated on the tree alone: `Variable` is the
nearest preceding `let` of an enclosing block, else a parameter, else an item;
`ItemFaults`, `ImplFaults` and `UseFaults` are what may be reported, pass by pass.

### Derives: `TraitRules`, `TraitCheck`, `DeriveFixpoint`

`TraitRules` holds the two pieces of code that decide whether a type has a trait
and must agree: `field_requirement` of the trait checker, and `implements_trait`,
which every later pass calls and which trusts the derive bits of a struct.  A type
is a chain of constructors around a struct or a scalar.  `TraitCheck` is the pass:
it records for each derive what it depends on (`build_graph`: `VisitTrait`,
`CheckRequirement`), then clears unsupported bits backwards through the graph with
a queue (`propagate`: `UnsetInvalid`, `PopUnset`, `UnsetPredecessor`); the two
`expect`s of the code lead to `pc = "panic"`.  `DeriveFixpoint` says what the pass
promises without graph or queue: unsupported derives are withdrawn one at a time in
any order until the rest support each other.  `TraitCheck` implements it
(`ComputesFixpoint`, an `INSTANCE` with `derives <- traits`).

### Recursive layouts: `StructRecursion`

The depth-first walk of `check_recursive_structs`; the recursion is a stack of
frames, each a struct and the first field not yet looked at.  `StartRoot`,
`VisitTarget` and `FinishStruct` are the calls, the recursive calls and the returns;
the order of declaration is any.

### Constants and array lengths: `ConstResolution`

`resolve_const_item` and `resolve_const_value` as a machine: the stack holds the
nodes being evaluated, each named by the expression of the one before, and
`result` is what has been found for the top.  The negations around a literal or a
path are counted, not nested.  A literal that does not fit an i64, a path with
wrong type arguments and a path to anything but a constant are all `NoItem`: they
have no value.  A `const` of an array type evaluates the length in its type before
the type is refused, so a cycle can run through a type.  Every length is a question
of its own here; the code leaves out the length of an array whose element type has
been refused, which changes neither a value nor whether the crate is accepted.

### Control flow: `FlowSyntax`, `FlowCheck`, `FlowTyping`, `FlowLower`, `FlowSource`, `ControlFlow`, `FlowAgreement`

A function `fn f(mut x: bool) -> () or bool` is taken through three stages as the
compiler does, and then runs.  Its body (`FlowSyntax`) is the sequence of its nodes in
source order; a node names its children and the last node below it, and its place in the
sequence is its id, as `AstNodeId` is in the code.  `FlowCheck` is `body_check.rs` on
the fragment (types, coercion of `!`, jump targets, divergence), `FlowLower` is
`function.rs` with the builder (current block, slots in the entry block, exit blocks and
result slots made by the first `break`), `ControlFlow` the printer's assertions and the
execution of the blocks, one instruction a step, with the answers of `read()` chosen by
the environment.  Checking and lowering are recursive functions of the number of nodes
below a node: `c.expr` in both is the same function for the nodes further down.

Two modules say what the stages should do without saying how.  `FlowTyping` has the
rules of a well typed body, each about a node and its children alone: it is all the
lowering may rely on.  `FlowSource` is an interpreter of the body that knows nothing of
blocks and slots, and `FlowAgreement` compares: `Due` is what the source does with the
answers given so far.  The fragment has literals, the variable and its assignment, `let`
that shadows it, `!`, `^`, `==`, `&&`, `||`, `if`, `loop`, `while`, `break` and `return`
with and without value, `continue`, and blocks with and without tail.

The argument is known only when the emitted code is called (`EmitModule`), and the
checker's state is dropped there.

Three known defects would drown every run, so `SetAside` keeps the programs that
meet them out of the passing runs: `"lazy"` (a diverging right side of `&&` or
`||`), `"unit"` (a unit value stored or compared) and `"order"` (a `==` whose right
side assigns the variable on its left).  The first two are findings below; of
the last no document of the repository says what is right.

### Places: `Places`

A type is a chain of constructors around `i32`: `&`, `&mut`, `Box`, `Vec`, an array, a
struct with one field.  A statement (`let` with and without a type, `=`, `+=`, a call of a
`&mut self` method) is checked as `body_check.rs` does, with the two bits of `PlaceInfo`
carried along its path (`Followed`, `CheckIndex`, `CheckField`), the reborrow of a stored
`&mut` refused behind a shared step (`Coerces`), and receivers found by dereferencing
(`CheckMethod`).  If it is accepted, the lowered statement is executed on a memory of
cells that point to cells, following as many pointers as the checker recorded; a reference
remembers which borrow made it.  A rejected statement ends the function.
`Changeable` is the language's view, said of the whole path at once: nothing on it is
shared, and its root or one of its references is mutable; a vector indexed through an
immutable owner counts as shared.

The compiler knows neither moves nor lifetimes, so these are obligations of the program
(`MayMove`): only a whole binding is moved, while no reference points into what it owns,
and it is not used afterwards.  The compiler accepts `let y = *r` where `*r` is a `&mut` behind a shared
reference, which moves out of a borrow; the obligation excludes it.  Values are
`Box::new(0)` and what paths yield; there are no function calls, loops or lifetimes here.

### Helpers: `GeneratedHelpers`

The comparison and clone functions generated per type: bodies ask for them
(`LowerUse`), then `define_equalities` and `define_clones` empty the two stacks of
pending types (`Pop`), each definition asking for the helpers of its parts
(`LowerPart`).  `functions` is the module's list of functions, each with a name and
perhaps a body; `memo` and the stacks hold types with the index of their function, as
`equality_fns` and `pending_equality` do.  `Lower` has the arms of the two matches:
in place (`Inline`), by a call (`Called`), and `unreachable!`, which sets `panicked`.
A crate is given with the derives that hold, as the trait check leaves them.
`implements_trait` is written here a second time, independently of `TraitRules`, over
types that also end in unit.

A function is named by what `mangle_ty` writes of its type (`MangleTy`).  Each part is
written with its length, so that the text can be read back part by part, and the
sequence of the parts stands for it; what cannot be told apart is a user's struct and
a built-in type whose texts are equal.  `define_type` (`def_collect.rs:100`, `semantic.rs:783`) refuses a name that is taken
(`NameAssumption`), but no type called `unit` or `never` is defined, so a struct may
be called that.  `unit` stands for both `()` and `!`, as does `Unit` for the types.  That the names clash there
and nowhere else is `NamesClashOnlyAtUnit`; the clash itself is a defect, which no
document or assertion of the repository speaks of.

### Vectors: `VecSpec`, `RuntimeVec`

`VecSpec` says what vectors are: each variable that owns one holds a sequence; a
program may stop when it is out of memory.  `RuntimeVec` has the 12-byte headers,
the growth 4, 8, 16, ... with arithmetic modulo the word size, a heap that hands
out blocks until it is full, unchecked `malloc` and unchecked indices, and the
emitted code that copies a header when a vector is moved and calls the clone
helper when it is cloned.  Two variables never own the same vector in a program
that uses moved vectors no more; that is the program's obligation, as is an index
inside the vector.  `ImplementsVecSpec` maps the header and its buffer to the
sequence.  Elements are plain 4-byte values.

## Runs

| run | module | instance | shows |
|---|---|---|---|
| `rx_parser` | `MCRxParser` | 27 families of texts, up to nine tokens from an alphabet of five to fourteen | the parser reads exactly the language, each tree is grouped as Rust does, the builder can build every tree |
| `name_resolution` | `MCNameResolution` | functions with up to two statements, each a use, a `let` or a block of such; crates of up to three out of thirteen items, or of four beginning with `S` | each use means what lexical scoping says, exactly the faults are reported, accepted crates are completely bound, no node is bound twice |
| `trait_check` | `MCTraitCheck` | two structs, all four traits, every kind of field type; three structs in cycles | no lookup of the pass panics, each withdrawn derive is reported once and for a true reason, the rest is what `implements_trait` may trust, the pass computes the greatest fixpoint and ends |
| `struct_recursion` | `MCStructRecursion` | three structs, up to two inline fields, any order | every inline cycle has a reported member, only cycles are reported, the walk ends |
| `const_resolution` | `MCConstResolution` | two items and a length of every small form; three items naming each other; both source orders | values are those of the language, exactly what has none is reported, accepted crates are completely known |
| `control_flow` | `MCControlFlow` | all trees of up to 5 constructors over two sets of forms (`{a;}` and `true` up to 4); families of nested loops; 3 reads | accepted programs are lowered and printed without a failed assertion and compute what the source means, in its order; a loop the source leaves is left by the code |
| `places` | `MCPlaces` | two statements after a parameter of every type of up to two constructors or of three out of four, or after two parameters; three statements after a simple one | exactly the sound borrows, coercions, assignments and calls are accepted; what is immutable or lent never changes; every binding holds what its type says |
| `generated_helpers` | `MCGeneratedHelpers` | two structs, every way to hold each other and `()`, one perhaps called `unit`; up to two uses, of `()` too | a helper is declared once and defined before printing, names clash only at a struct called `unit`, no clone copies a `&mut`; without a `()` to compare or clone there is no panic and the stacks run empty |
| `runtime_vec` | `MCRuntimeVec` | two vectors, a heap in which a full buffer of four grows to eight, or which clones fill, 7 operations | no stray access, no shared buffer, vectors answer like sequences |

Three runs are expected to fail; each is a finding with the line it contradicts.

- `flow_lazy_divergence`: `{ x && { return x; x }; }` in a function that returns a bool is
  called diverging, and accepted without a value, although the left side of `&&` may
  skip the return.  The lowering goes on at the merge block, comes to the end of the
  body with `()`, and the function that returns `i1` ends in `ret void`.
- `flow_unit_operand`: `() == ()` passes the checker and makes the lowerer panic in
  the arm of `lower_equality` that it calls unreachable.
- `jump_operand`: `while return x << y {}` returns `x`: the operand of a jump ends at a
  shift, although the grammar says that it is greedy.

The second has relatives that no run of their own shows.  `implements_trait` gives `()`
every trait, and neither of the two matches of the lowering has an arm for it: a struct with a field
of type `()` may derive `Clone`, and its clone reaches the `unreachable!` of `lower_clone`
(`clone.rs:40`); comparing or cloning a vector or an array of `()` does the same.  That `()` is the
only such type is `SupportsWhatHasTheTrait`: the lowering panics only if a use, or
a field of a struct with the derive, arrives at a `()`, through any chain of constructors
(`HasUnitOperand`).  And `let x = ();` is lowered to a store of an operand without a
value, on which the printer panics (`printer.rs:35`); bodies with either are set aside as
`"unit"` in `control_flow`, whose properties say nothing of them.

**Why the bounds suffice.**  A family of texts is long enough for its two longest
constructs to follow and to contain each other: two binary operators and a cast, a block
before an operator, a `>>=` that closes two lists of type arguments, a struct expression in a
condition.  The operators that bind alike are tried in one representative per copy of the rules.
The trait pass and the layout walk treat structs alike,
and what distinguishes programs is the graph between them: three structs give
self-loops, cycles of two and three, shared members and tails into cycles, in every
order.  Names need a `let` before, after and around a use, shadowing in an inner block that
is closed again and a parameter and an item of the same name: two statements in two
levels of blocks.  The items are one of every kind used before and after its
definition, and one for every fault.  Constants need a cycle, a tail into it, a chain of two links and a type
mismatch, all of which three items and a length have.  `MaxInt = 3` is only the range
of literals; nothing adds.  Trees of five constructors contain every operator under
and beside every jump; a literal and a block without value take part up to four; what needs more (a jump under a condition in a loop under a
loop, a `break` with a value behind another one) is in the families.  `MaxReads`
bounds the environment's answers: three let a loop go round and take either branch
afterwards.  `Fuel = 6` ends the reference interpreter's silent loops: a
loop can change only the innermost variable outside it, one bit, so that its silent
rounds repeat after two; were it too small for nested loops, code that goes on would
violate `AgreesWithSource`.  The checker's place of a path depends on the last reference before and on all after it, so that
three constructors meet every case and two statements make a reference and use it; three
store it in between.  `MaxDepth = 4` leaves room for the reference a `let` adds.
The uses of helpers ask for types with and without references, in one and in two bodies,
and the chains of the fields put each constructor before a struct.
`WordSize = 128` stands for 2^32 and `HeapLimit = 63` for a heap smaller than
half of it, so that a capacity can be asked for that does not fit but no count of
live cells wraps, as with a 32-bit machine's heap.  In it a full buffer of four cells (16
bytes) can be copied to one of eight (32 bytes), and the next copy fails.  `MaxSteps = 7`
is enough to fill a buffer of four, grow it and change it.

**Fairness.**  Each pass is a function call that nothing interrupts: weak fairness of
its next-state relation says that it goes on while it can.  In `ControlFlow` only the
running code is fair (`Run`), including the environment's answers; nothing is assumed
of which answer is given.  `RxParser`, `NameResolution`, `Places`, `RuntimeVec` and `DeriveFixpoint` have no fairness and no
liveness properties.  Deadlock is not checked because every model ends: a pass has
finished, a function has returned, the bound on reads or steps is reached.

## Proofs

For every value of the constants, with TLAPS:

- `TraitCheckProofs`: types, `NoPanic`, `ReportedOnce`, `ReasonsHold`, the refinement
  of `DeriveFixpoint`, and that at the end the standing derives are the greatest
  consistent set.  The inductive invariant adds what the properties need in the
  middle of the pass: every edge of the graph is a genuine requirement
  (`EdgesGenuine`), the queue holds distinct cleared nodes whose edges are still there
  (`QueueInv`), and every reason of a standing derive is still to be visited, or known
  to be missing, or rests on derives that stand or wait in the queue and lead back to
  it (`CompleteInv`).  With `PhaseInv`, what is exhausted when, the last one makes the
  empty queue mean consistency.
  `RulesAgree`: the recursive `implements_trait`, a function of type and position in
  `TraitRules`, says of every type what `derive_requirements` demands for it, layer by
  layer; so whoever asks later trusts a derive that was validated (`TrustIsJustified`,
  which is `TrustedDerivesHold`).
  That `DeriveFixpoint`, whatever the order of its withdrawals, never loses a member of a
  consistent set is proved of the mapped abstract specification (`FixpointIsGreatest`);
  `GreatestDerives` is the refinement and this.
- `TypeResProofs`, of the layout walk: `VisitingIsActive`,
  `EveryCycleReported`, `OnlyCyclesReported`.  A cycle is stated as a set in which each struct holds another
  one inline, reachability as membership in every closed set; both avoid paths.  What
  an active struct holds is still to visit, settled or being visited
  (`ActiveAccounted`); the key conjunct is `DoneGrounded`: among finished structs of
  which none is reported, one holds none of the others.
- `EmittedCodeProofs`, of the helpers: `NamesClashOnlyAtUnit` (`NamesClashAsSpelled`) and
  `AllDefined` (`HelpersAreDefined`).  `Tables` is the invariant: an entry of `memo` has
  a function of its type's name, a type has one entry, and what has no body is pending; `Phases`, that
  a phase leaves nothing of its kind pending.  Equal names are then equal chains with
  equal texts at the end (`NameAssumption`).
  `NoMutableCopies` and `SupportsWhatHasTheTrait` are about all that is `Outstanding`: what
  bodies and helpers have still to lower, and what was declared.  A step adds only the operand of
  something outstanding or the parts of something declared (`NewlyAsked`).  All of it
  has its trait (`Justified`), because the derives were validated (`Derived`) and the trait
  survives the step into a field or an element (`PartsImplement`) unless the value is a
  reference; and nothing of it arrives at a `()` if nothing did (`UnitFree`,
  `PartsUnitFree`), so that there is an arm for it (`HasAnArm`).
- `TypeResProofs`, of the constants: types, `MemoIsStable`, `AcceptedAreKnown`,
  `LengthsAreNatural`, and that what is reported has no value while what is recorded
  has one (`Justified`).  "No value" is a set of nodes that is `Hopeless`: from each,
  the expression is unfit by itself or names another of the set; `MemoGrounded` keeps
  such sets out of the memo, and the stack shows that a cycle is one.
  `RecordedValuesAreMeant` (`ValuesAreMeant`) and `ReportsExactly`
  (`ReportsTheMeaningless`) compare with `Meaning`, a function of node and depth.  It
  grows with the depth, and what it has not given a value at a depth of as many steps
  as there are nodes it never will: the nodes without one are `Hopeless`, so it is a
  fixed point.  Recorded values satisfy the same equations, and two values of one node
  which both do agree, by induction on the depth at which `Meaning` has one.
- `EmittedCodeProofs`, of the vectors: `NoStrayAccess`, `BuffersApart` and that
  `RuntimeVec` implements `VecSpec`.  A living vector's header is `Sound`: its length is at most
  its capacity, its block has that many cells, and the block's bytes are among those
  handed out.  So a full buffer occupies at most `HeapLimit`, its double stays below
  2^32 (`Doubling`), and neither the capacity nor the byte count wraps.  The first
  buffer has nothing before it to bound it: the proof needs
  `4 * ElementSize < WordSize`, which the runtime does not check either.  The three
  ways a vector can change (`InPlace`, `Fresh`, `Moved`) leave the others' contents
  alone because of `BuffersApart`.

- `NameResolutionProofs`, for crates of any shape and depth: `NeverPanicsHolds`
  (`NeverPanics`), `NamesMeanWhatScopingSays` (`ResolvesLexically`),
  `CratesAreRejectedForTheirFaults` (`ReportsExactly`) and `AcceptedCratesAreBound`
  (`AcceptedAreBound`), all from one invariant, `Passes`.
  *The walk.*  Paths are ordered by `Left` and `Under`; the tasks of a pass are `Sorted`
  in that order, and whatever is right of the head is still to come (`RightPending`).  So a
  node has been dealt with exactly when it is not `Pending`, and a step of the walk
  deals with exactly the node at its head (`StepPending`).
  *The tables.*  Each pass is described by functions of what is no longer pending:
  `Collecting` and `Implementing` say which names a namespace binds and to which node
  (the first of that name), what is recorded and what reported; `Resolving` says that
  the nodes bound are the uses seen that mean something.
  *The scopes.*  `Scoped` makes the stack of scopes correspond to the functions and
  blocks around the head, one scope each: a name in it is the last bound `let` of that
  block before the head, or the parameter.  Innermost first, this is the nearest `let`
  (`VariableLookup`), although the reference knows of no stack.
  *The gates.*  A pass starts only with nothing reported, hence with tables that are
  complete and a function of the crate (`ItemTables`, `Base`).  That is why the later
  lookups cannot fail and faults are never consequences of other faults.
- `PlacesProofs`, for paths of any length and types of any depth, in three layers.
  *Paths.*  `PathInv` says what the two bits mean: after any path from a binding or a
  temporary, `mutable_access_blocked` is that something on the way is shared, and
  `writable` that nothing is and the root or a reference on the way is mutable; `Deep`,
  that the dereferences recorded for the path are the pointers its types crossed.  Then `TwoBitsSuffice` (`AcceptsTheSound`).
  *The heap is typed.*  `Typed` gives each cell a type such that every binding's cell
  has what its type holds and a pointer leads to a cell of the type it points to
  (`Heap`, `Bound`); each statement stores, along the recorded dereferences, a value
  of the type the cell has.  This is `MemoryIsTyped`, and level by level
  `PointersAreFollowed` (`ValuesFitTypes`).
  *Memory is kept apart.*  `NothingFrozenChanges` (`FrozenStays`) needs more than the
  frozen cells: `Apart` has two ghost sets, the garbage `G` (cells whose owner was moved
  away) and a set `F` of cells that nothing may change, which contains `Frozen`.
  Outside garbage, no pointer leads into garbage, no mutable reference leads into
  `F` unless it is itself lent for reading, no owner outside `F` leads into `F`
  (`Guarded`); `F` is closed under owning (`Closed`), each cell has one owner
  (`Single`), and a live binding is the only owner of its cell, which is in `F` exactly
  if the binding is immutable (`Root`).  A move turns its source into garbage and
  takes what it owns out of `F` (`LeaveApart`), which is how `let mut b = a` may make a
  frozen value changeable; an immutable binding it is stored in adds it again (`AddApart`,
  and `PutApart` for assignments).  A place
  which the two bits call changeable is never in `F` (`PlaceApart`), by walking the
  path through `Guarded`.  Without `G` the invariant is not inductive: what was moved
  from still holds the old pointer.
- `FlowCheckProofs`, for bodies of any size: `AcceptedIsWellTyped`, what `check_function`
  accepts is well typed (`Accepted`).  The promise of a check is `CheckPost`: every node
  from here to the last one below is settled and follows its rule, what was recorded of
  earlier nodes stays, and the loops around are as they were but for the breaks added.
  It goes by induction on the number of nodes below.  A rule about a jump cannot be
  kept when the jump is checked: a `break` gets its target and its value its type only
  when the loop is finished.  So the invariant carries the breaks that are `Waiting` in
  the loop stack, with what they already have, and `FinishLoop` is where
  their rules come true.
- `ControlFlowProofs`, for bodies of any size, runs of any length and any answers, if
  the two shapes of the findings are set aside (`{"lazy", "unit"} \subseteq SetAside`,
  without which `NeverPanics` and `DivergenceEndsTheCode` are false, as the runs show): `NoPanic` (`NeverPanics`), `DivergenceAgrees`
  (`DivergenceEndsTheCode`), `AnswersAsDeclared` (`ReturnsWhatItDeclares`) and
  `NothingReadUndefined` (`NoUndefinedRead`).
  *The certificate.*  A function `A` from blocks to sets says which registers have a
  value and which slots have been stored to at the start of a block, on every way
  there.  `CodeGood` makes it consistent: each instruction has its operands
  from what is available before it, and a jump goes only where no more is needed.  The
  set of a block that has no terminator yet is a promise to the jumps to come.
  *The lowering keeps it.*  `LPost` is the promise of a lowering step: either it is
  still in an open block, with its value and all that was available before, or it has
  `Halted`, with the block closed, and then only the blocks `W` of the callers wait.
  A node that the checker calls diverging always halts: `Yields`, the first case, excludes
  it.
  The blocks without terminator are the waiting ones and the exits of open loops
  (`Holding`): this is why nothing is closed twice, nothing stays open, and no
  instruction follows a terminator.  An open loop (`LoopGood`) relates what is
  available at its entry and at its exit, which differ by the result slot alone; merge
  block and slot of an `if` are the same between the two arms (`MergeOK`).
  *The code keeps it.*  While the code runs, what `A` says of the current block and
  what the block's instructions have given so far is really there (`Running`); a jump
  carries it over.
- `InductionLemmas`: what the proofs above need of induction and recursion.  A
  property of numbers is a set of numbers, so that no operator is passed: a subset of
  an interval that holds its first element and with a number the next is the interval
  (`UpwardInduction`), from the well-foundedness of `<`; and a step function has a
  function on the interval which follows it (`RecursionOnInterval`).  `Meaning`,
  `Deref`, `Owned`, `Held`, `Memory` and the folds along paths are reasoned about by
  citing these.

The assumptions are the named `ASSUME`s of the modules (what a program or crate
is, how large elements and heap are), which TLC evaluates on every run.

**Only model-checked:** liveness (termination of each pass, `AnswersIfSourceDoes`), which
is beyond the prover; `AgreesWithSource`, whose reference is the recursive
interpreter of `FlowSource`; and everything about `RxParser`, whose reader, builder and
reference are recursive operators over token sequences and trees.  The finding runs of `ControlFlow` show
what its theorems exclude by their hypothesis.

## Not modelled, and what could follow

Done: parsing, names, trait checking, layouts, constants, places, control flow, helpers,
vectors.  What could follow, in this order:

1. Array and struct expressions and arguments of `body_check.rs` and `function.rs`:
   the least common type of the elements (`check_array`, which can fail without a
   diagnostic), evaluation order and temporaries.
2. `Layout`: `size_of` and `align_of` modulo 2^32 against the layout of the printed
   types, and the truncation of lengths and constants.
3. `Pipeline`: the early exits of the passes after name resolution, composed.

Not modelled because nothing in them has state or order to get wrong: the driver
`main.rs`, diagnostics, the text of the printer, `entry_check.rs`, `type_res.rs`
for types and signatures (a fold that stores a type at each node), boxes, the test runner, and the
script that strips debug directives.  The C library is external.
