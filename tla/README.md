# A TLA+ model of the SWPP compiler

The repository is a compiler from LLVM IR to the assembly of the SWPP machine:
an LLVM module is read, optimized by a pipeline of custom passes, lowered by the
back end until every value fits a machine register, given registers, and printed.
This directory holds TLA+ specifications of it, TLC configurations that check
them, and TLAPS proofs. Every stage of the compiler that computes something is
modelled: the optimizer's own passes, lowering, the preparation of functions,
**register allocation** (the part with the most state and the longest chains of
reasoning), and the emission of assembly.

Paths below are relative to the repository; `lib/` is `src/lib/`.

## 1. Inventory

| Component | State | Operations | Interacts with | What is hard | Correct when |
|---|---|---|---|---|---|
| compiler driver, files (`main.cpp`, `args.cpp`, `lib.cpp`, `fs.cpp`) | a `std::expected` passed along | read, parse, optimize, emit, write | all stages | errors of one stage, file changing between check and open, unchecked write | one error is reported once; nothing is written after an error |
| parser, IR printer (`lib/parser.cpp`, `lib/print_ir.cpp`) | verbosity flag | wrap LLVM | driver | - | - |
| **optimizer pipeline** (`lib/opt.cpp`) | the module | 13 passes in order | all passes | what one pass leaves for the next | each pass preserves behaviour |
| **optimizer passes** (`lib/opt/*.cpp`) | per-pass work lists | rewriting rules, block merging, hoisting, equality propagation, vectorization | LLVM analyses | stale work lists and analyses, widths, aliasing | IR stays legal and does what it did, section 3 |
| back-end driver (`lib/backend.cpp`) | module, ConstMap, SymbolMap | two stages of rewriting, register allocation, the emitter | all back-end passes | exceptions in each stage | an error or assembly, never half of it |
| **freeze, constant expressions, GEP, globals, alloca** (`freeze_eliminate`, `const_expr_eliminate`, `gep_eliminate`, `gv_eliminate`, `alloca_eliminate`) | address accumulator | replace instructions by address arithmetic | the machine's `malloc` and stack | offsets against sizes, 64-bit wrap, index extension | variables are disjoint and inside what is reserved, addresses as LLVM defines them, section 3 |
| **constant combination** (`gep_const_combine`), **widths** (`trunc_adjust`, `sext_eliminate`) | an `updated` flag | rewriting rules | previous passes | termination, wrap-around | values are preserved; the loop ends |
| **phi preprocessing** (`phi_preprocess`) | set of values met | three passes of copies | allocator | a later pass undoing an earlier | see section 3 |
| **constant splitting** (`const_map`, `const_split`) | cache constant -> instruction | materialise, replace | allocator shares the cache | one insertion point for all uses | see section 3 |
| **register allocation** (`register_allocate`, `analysis`) | graph, order, colours, spill sets | nine steps and two restarts | ConstMap, SymbolMap, emitter | restarts, fixpoints, pointer order, slots | see section 3 |
| symbol map (`symbol.*`, `symbol/*`) | value -> symbol | add, get | allocator writes, emitter reads | duplicates | every operand the emitter meets has a symbol |
| **emitter, assembly** (`emitter.cpp`, `assembly/*`) | lines so far, the function whose end is still to be written | one method per opcode and intrinsic | symbol map | literal against register operands, labels, brackets of functions | text is a program of the machine with the IR's meaning |

Nothing here runs concurrently and nothing is persisted. What makes the program
hard are long sequences of rewriting steps that rely on each other's results,
fixpoint loops and restarts, and iteration in the order of memory addresses:
loops over a `std::map` keyed by pointers are nondeterministic choices in the model.
`PROJECT.json` lists each such hazard at its line.

## 2. Modules

```
SSAProgram                     functions: blocks, instructions, operands, edits + SSAProofs
 |- PhiPreprocess              phi_preprocess.cpp: what is done with one phi operand
 |- ConstMap - ConstantSplit   const_map.cpp, const_split.cpp: one instruction
 |- PrepareFunction            backend.cpp: the loops of the two, one after the other
 |                                                        + PrepareFunctionProofs
 |- InterferenceGraph          makeInterferenceGraph, PostOrderRegCollect; what is live,
 |                             by the paths of a function + InterferenceGraphProofs
 |- Spilling                   spillColors, insertLoadStore, insertVectorLoadStore
 `- RegisterMachine            the machine's registers and stack slots (external)
AllocationGraph                interference graph and order, shared by the next three
 |- Coalescing                 coalesceMovInsts, coalescePHINodes
 |- EliminationOrder           PerfectEliminationOrdering            + EliminationOrderProofs
 |- GreedyColoring             GreedyColoring                         + GreedyColoringProofs
 `- InterferenceColoring       run(): the three in sequence         + InterferenceColoringProofs
RegisterAllocate               run(): composes InterferenceGraph, Coalescing,
                               EliminationOrder, GreedyColoring, Spilling, ConstMap
AllocatedProgram               RegisterAllocate, then RegisterMachine on its result
                                                              + AllocatedProgramProofs

IRValues                       SSAProgram with values: types, operands, memory, execution
 |- AddressLowering            gep_eliminate, gv_eliminate, alloca_eliminate.cpp
 |- WidthLowering              freeze_, const_expr_, sext_eliminate, trunc_adjust.cpp
 |- ConstCombine               gep_const_combine.cpp
 |   `- LowerModule            backend.cpp, first stage: the three above, pass by pass
 |- AddressLayout              what laying out variables promises; LowerModule refines it
 |- Assembly                   assembly/inst.*: the instruction classes, and what
 |   |                         emitter.cpp parses before it calls them
 |   `- TextMachine            execution of assembly lines (external)
 |       `- Emitter            emitter.cpp, the visitors
 `- LoopInfo                   LLVM's loops and dominance (external)
     |- CFGOpt  ArithOpt  CompareOpt  MemoryOpt      opt/*.cpp
     `- Optimizer              opt.cpp: the four above, in their order

MCPrograms, MCValues           small functions for TLC, without and with values
MC...                          the initial states for TLC: InterferenceGraph,
                               PrepareFunction, InterferenceColoring, AllocatedProgram,
                               LowerModule, Emitter, Optimizer
```

How state and actions correspond to the code:

- **SSAProgram.** A function is a record: instruction lists per block, successors,
  and per instruction its opcode class, operands, incoming blocks and type. Seven
  opcode classes are kept, those `analysis.cpp` distinguishes. Operands are
  instructions, constants of a small `Pool`, or `NoValue` (arguments).
  `WellFormed` is what LLVM's verifier demands: phis match predecessors,
  definitions dominate uses, and terminators stand at the ends of blocks. `Root`/`isReg` are the loops over chains of moves.
- **PhiPreprocess.** `Prepare` is what one iteration of the inner loop makes of the function
  and of the set `visit`; `CopyOf` the copy of a value by its type.
- **ConstMap, ConstantSplit.** `resolve_constant` is a function from program to
  program; the cache is the field `cmap` (the code has one per function).
  `SplitInstruction` goes through all operands of one instruction.
- **PrepareFunction.** The two passes of the back end's second stage, one after the
  other for a function, with one cache of constants. `HandleOperand` is one iteration of the
  inner loop of pass `pass`, `NextPass` goes to the next of the three; the operands of a pass
  are those of the function as the pass finds it. `VisitInstruction` handles all operands of
  one instruction. `Preparable` says what the stage may be called with.
- **InterferenceGraph.** `Descend`, `Retreat`, `CollectUnreachable` are the
  recursion of `PostOrderRegCollect` with an explicit stack; `InitialSets`, `Visit`,
  `NextPass` the `while (updated)` loop, one instruction per step; `Connect` the
  final loops. The code compares set sizes where the model compares sets; the sets
  only grow.
- **Coalescing.** `Merge(I)` is one iteration over the map, in any order; `Erase`
  the loops after it.
- **EliminationOrder.** `Pick` is the call of `std::min_element` with an empty
  queue, `Dequeue` takes a vertex off the queue, `Relax` is one iteration over its
  neighbours. `MinElement` says what the misused comparison returns;
  `MinElementIsTheLoop` checks that against the loop of the C++ library.
- **GreedyColoring.** One action per vertex and bank.
- **InterferenceColoring.** What `run` does with a graph once no phi operand has to be
  copied: `Coalesce`, `OrderCoalesced`, `OrderVertices`, `ReverseOrder`, `ColorVertices`. It
  extends the three modules above, so each part is checked on what the part before
  hands it.
- **Spilling.** `SpillColors` is the rewriting done for one general and one vector
  colour. Stores go after definitions, loads before uses, addresses are computed
  from the stack pointer, as in the code. `frame` is the literal of the call of
  `$decr_sp` the pass made, -1 before.
- **RegisterAllocate.** `phase` is the position in the two nested `while (true)`
  loops. Coalescing is one step here, the `Quotient` graph: Coalescing checks
  and InterferenceColoringProofs proves that every order of merges ends in it. Which colour is
  the cheapest to spill depends on trip counts; the model keeps only whether a
  cost is zero, and lets `Spill` take any colour whose cost is not. `place` is what
  `insertSymbols` records.
- **RegisterMachine.** Execution of the result. A register holds names of SSA
  values, not values: `holds[r]` is the set of values r currently is the latest
  copy of. Moves and phis emit no code; they give what a register holds another
  name. `ReadsItsOperands` is then what correctness of allocation means: operands are in
  their registers (`OperandsInRegisters`), and the slot a reload reads holds the value it
  reloads (`ReloadsFindValues`).
- **IRValues.** A function as in SSAProgram, with widths, literals, arguments, globals
  and constant expressions as operands. Operands are integers with a tag, so that
  they can be compared; `Const("i8", 300)` is the constant modulo 2^8. `Behaviour`
  executes a function on an input: what it returns, which calls and visible
  operations it makes with which arguments, or that something undefined happened.
  `Refines(q, p, ..)` is the promise of every pass: q does what p does wherever p is
  defined. Memory is a set of blocks with a gap between variables, so that an
  access outside its variable is seen.
- **LowerModule.** One action per iteration of a pass's loop: `VisitFreeze`,
  `VisitConstExpr`, `VisitGEP`, `VisitGV`, `VisitAlloca`, `VisitBinaryOperator`,
  `VisitTrunc`, `VisitSExt`, and the ends of passes and rounds, where mallocs and frames
  are inserted and dead code is eliminated. `error` holds the name of the exception. The
  rewriting of one instruction is an operator of AddressLowering, WidthLowering or
  ConstCombine. The rules of ConstCombine are data: the pattern, what is required of
  its constants, what replaces it; in the code each is an `if` with a matcher.
- **Assembly, Emitter.** A line is a record: target, opcode, operands. Registers, literals
  and labels are pairs of a kind and a number, and `Error` is what the tables of the
  emitter refuse; a line with an `Error` in it is thrown. One action per visitor; the
  emission of one instruction is an operator named after the code's function.
- **TextMachine.** Runs the lines, with the machine's meaning of each. Calls and the
  intrinsics are observed, not executed. `Abbreviated` states for the IR side what
  an intrinsic means.
- **Optimizer.** One action per pass, and one per sweep of `ArithOptPass`. `error` is set
  where the compiler reads memory it must not read: the null pointer in `getInstCost`,
  and the erased instructions vectorization looks at again.

## 3. Runs

| Run | Question | Instance |
|---|---|---|
| `interference_graph` | Does the fixpoint end with exactly the values live on some path (`LivenessExact`, liveness defined on paths, not equations)? Are all registers live together adjacent (`GraphCoversLiveRanges`)? Do the numbers eliminate the registers perfectly (`NumberedPerfectly`), and is the graph chordal (`ChordalAsBuilt`)? Does it end (`EventuallyBuilt`)? | 8 500 states: seven control-flow shapes: self loops, if without else and with, two phis of one loop, three phis of which one is read, nested loops, unreachable blocks; operands range over what may stand there |
| `prepare_function` | Do all three promises of phi preprocessing hold at the end, also for copies of later passes and after constants are split (`PhisPrepared`)? Legal SSA throughout, the one instruction of a constant dominating all its uses (`StaysSSA`); phis and operands keep their values (`ValuesKept`); constants exist once (`NoDuplicateConstants`). | self loops, branches, two phis of one loop, nested loops, loops with every type, and straight-line code with repeated constants |
| `interference_coloring` | Is the merged graph independent of the order of merges (`IsQuotient`)? Is every register listed once (`NoVertexTwice`), are the counts safe (`CountsAreUpperBounds`) and the copy intact (`IsInducedSubgraph`), is `MinElement` what the library computes (`MinElementIsTheLoop`)? Is the colouring proper, lowest and gapless (`NoColorSkipped`), and optimal along perfect orders? Do values live together end up in different registers (`LiveValuesKeptApart`), all of them (`EventuallyColored`)? | all graphs with 5 vertices in one bank; with 4 in all banks; with 4 and every merge of some of them |
| `allocate` | Does each instruction of the allocated program find its operands along every path (`ReadsCorrectUnlessTolerated`)? Has every value a register the machine has, and have values needed together different ones (`RegistersKeptApart`)? Is the order perfect for functions without phis all of whose code can be reached (`PerfectWithoutPhis`), does each phi operand need at most one copy (`OneCopyPerOperand`)? | 607 functions, 32 and 16 registers |
| `spill` | Do spilled values come back, do slots stay apart (`SlotsDisjoint`), is the function legal SSA, its constants and stack pointer in place, whenever the graph is built again (`StaysAllocatable`), does every round leave less to spill (`SpillingProgresses`)? | 11 functions with 4 to 5 values live at once, 3 general and 2 vector registers |
| `lower` | Is the IR legal after every single rewriting, with one operand of a phi per edge (`StaysLegal`)? Does every pass keep what the function does for all inputs (`KeepsBehaviour`), also when executed on registers that conversions do not touch (`MovesNeedNoCode`)? Is nothing left that an earlier pass had to remove (`OnlyMachineOperations`)? Are globals laid out as AddressLayout says (`PlacesGlobals`, a refinement), and do the loops that repeat end (`RoundsBounded`)? | 70 000 states: all nests of two operations with constants and the trees that meet in a third, loops, chains of conversions, stack arrays of one and two dimensions, globals by name, expression and number, and what the passes refuse |
| `emit` | Does the text, run on the machine, do what the function does (`TextBehavesAsFunction`)? Is it at any moment a sequence of sections with unique labels and well-typed lines, and has every jump its label in the end (`WellFormedText`)? Does emission throw only where the earlier stages have not done their part (`PreparedIsEmitted`)? | 5 200 states: every opcode and intrinsic, scalars of 8 to 64 bits, vectors of both widths, loops, switches, frames, calls with 16 and 17 arguments, tail calls, several functions and declarations; each with registers handed out in three orders |
| `optimize` | Is the IR legal after every pass, with one operand of a phi per edge (`StaysLegal`), and does it do what the source did (`KeepsBehaviour`)? | 10 000 states: every rewriting rule, diamonds and loops to merge, shared conditions, hoisted loads, frees in loops, groups to vectorize |

Four further runs each end in a violation: places where the code does not do what
it, or its documentation, says. They are the `findings` of `PROJECT.json`:

| Run | Property | What happens |
|---|---|---|
| `lost_copy` | `ReadsCorrect` | A phi operand that is the last instruction of its block is never copied, even when the phi is read after it: `i = phi(.., j); j = f(i); br` with `i` read after the loop. Phi and operand share a register and `i` is overwritten. |
| `lost_globals` | `GlobalsKeepTheirMemory` | The malloc that reserves the memory of globals has no user, and the dead code elimination inside the combination of constants removes it. |
| `spilled_frame` | `TextBehavesAsFunction` | A frame made by spilling has a literal size. It is emitted as `sp = const N`, `sp = sub sp sp 64`. |
| `and_mask` | `KeepsBehaviour` | `and x, m` is replaced by x for every m that is 2^64 - 1 as a double. |

`tolerated` in RegisterAllocate collects, over all rounds, the phi operands left
interfering with their phi by the first finding; `ReadsCorrectUnlessTolerated` says
that nothing else goes wrong. It has to remember earlier rounds: spilling the
register a phi shares with such an operand makes them share a slot.

More things the models show about the code, without a run of their own. In the
allocator:

- With two phi operands of the kind of `lost_copy`, the copy for one separates the
  operand of the other from the terminator; it is copied, and so on for ever
  (`register_allocate.cpp:196`). Copying a vector operand of a phi dereferences a null
  `ConstantDataVector` (:201), and spilling in a function with allocas a null
  `ConstantInt` (:483). The asserted chordality holds of the graph as it is built
  (`ChordalAsBuilt`, for every function: section 4) and is lost by merging phis (:318),
  which answers the TODO in the code. The model makes each of these steps (`CopyVectorOperand`,
  `LiteralFrame`); the functions the runs start from do not meet them.
- `std::min_element` is given a comparison with state and ignores the counts
  (`MinElementIsTheLoop`), so the next vertex is the first by number. For functions
  without phis all of whose code can be reached the order is perfect all the same
  (`PerfectWithoutPhis`, proved in section 4); with phis it need not be, even where a
  perfect order exists, nor with moves in unreachable code: such a move may read a value
  whose definition does not dominate it, and hands it neighbours it is never live with.
- Spilling inserts code between a copied phi operand and its terminator, which the
  test in `resolvePHIInterference` takes for a reason to copy it again. One copy per
  operand is therefore asserted while nothing has been spilled. Whether the restarts
  end when spilling and copying come together is open: functions that need both have
  too many states for TLC here, and those of `spill` need no copies.
- When nothing is worth spilling any more and there still are more colours than
  registers, `spillColors` changes nothing and `run` repeats the same round for ever.
  A phi is never taken out of its register, so this takes more webs of phis live at
  once than there are registers (less those an address needs). `SpillingProgresses`
  is about all other rounds.

In lowering and emission:

- An alloca with more than one element gets its size in the frame, but not in the
  offsets (`alloca_eliminate.cpp:99`): what follows overlaps it. C compilers hardly
  write such allocas, and the functions of `lower` have none.
- A negative index of fewer than 64 bits is zero-extended (`gep_eliminate.cpp:65`). Casts
  in front of phis (`const_expr_eliminate`, `gv_eliminate` on a phi of addresses) break SSA.
  Initial values of globals are dropped.
- The machine has 16 vector registers, and `v7` is spelled `ve` in the table
  (`emitter.cpp:415`); the symbols the allocator gives out for it are refused. The
  colourings of `emit` leave it out. The jump of `unreachable` goes to the name of its
  block, which for a block without one is not its label. The width of `assert_eq` is
  checked and not written. An instruction without a visitor is passed by in silence.

In the optimizer:

- With `Family = "callees"` in `MCOptimizer.cfg`, `KeepsBehaviour` is violated: a load of
  a global leaves a loop that calls a function storing to it (`GVoptPass.cpp:46`); the
  comment at line 9 of the pass leaves loops with calls out. With `Family = "carried"` it
  is violated by the vectorization of `c[k+1] = c[k] + b[k]`: `checkDependencies` compares
  the stored value, not its address, with what is loaded (`vectorization_opt.cpp:22`).
  With `Family = "doubled"` it is `StaysLegal` that is violated: a branch whose targets are
  equal becomes a jump, and a phi there keeps an operand for both edges
  (`cfg_opt.cpp:140`). What the function does is not changed by it.
- The cost of a load through an argument or a global dereferences null
  (`cfg_opt.cpp:44`), `insertInstBeforeThis` does so for vector operations with two
  operands (`arith_opt.cpp:113`), and vectorization looks at instructions it has erased
  (`vectorization_opt.cpp:182`). The first and the last set `error` in the model.
- A division common to two blocks is moved in front of a branch that may have avoided
  it (`make_same_operand.cpp:66`), a shared compare is inverted for one of its users
  (`branch_opt.cpp:34`), loads of globals are hoisted over stores through computed
  addresses (`GVoptPass.cpp:33`), and vectorization ignores the indices and types of
  repeated groups. The functions of `optimize` leave these known cases out, and
  everything else about these passes holds on them.

**Bounds.** Functions have at most nine blocks and some twenty instructions before
rewriting. The shapes are chosen so that each clause of the algorithms is
exercised: critical edges, a block that is its own successor, phis that feed each
other, values live through a loop and after it, unreachable code, moves of moves,
every type. `MaxCopies` = 6 bounds only the endless run of copies: functions of
the other runs need fewer: those of `allocate` at most one per operand of a phi
(`OneCopyPerOperand`), those of `spill` none.
MAX_REGISTER is 32 and MAX_VECTOR_REGISTER 16 as in the code, except where spilling is
to happen, 3 and 2 (an address and its operands need registers themselves). Graph
algorithms run on all graphs of 4 or 5 vertices; two classes with two members are
enough for every kind of edge between merged vertices, and 5 vertices are enough
for a chordless cycle with a further vertex. One numbering of the vertices stands
for all, since all relabelled graphs are initial states.

In the modules with values, a byte has `ByteBits` = 2 bits, so that i64 is a word of 16
bits, i32 of 8, i16 of 4 and i8 of 2: all sizes in bytes are the real ones, widths keep
their ratios, every i1 is one bit, and wrap-around happens within TLC's integers. Offsets
and sizes are therefore the code's own; only literals of the code that name a width
(`QWORD`) are read through the type. `StackTop` and `START_ADDRESS` place stack and heap
so that no block of one is near the other. `MantissaBits` = 13 of the model's 16 stands for
the 53 of 64 bits a double keeps. Functions are compared for inputs that are zero, small, the
largest word, the smallest negative one and numbers with bits in every byte;
`MaxBlocks` bounds the blocks executed (loops of the programs end earlier for the inputs
that matter; a run that reaches the bound is not compared, status `slow`), `MaxLines` the
lines of text. `RoundsBounded` gives the loops of lowering one round per instruction.

**Fairness.** `EventuallyBuilt` and `EventuallyColored` are checked under weak fairness
of the whole next-state relation: the compiler is one thread that keeps running. No
particular choice is treated fairly. That the two outer loops of the allocator end is
not stated with `<>`, but by the bounds on copies and the shrinking set of
values to spill. `CHECK_DEADLOCK FALSE` is set because compilation ends.

## 4. Proofs

TLC checks functions and graphs of a few vertices. Proved for all of them are: the stage that
prepares a function for the allocator; in the
allocator, the construction of the interference graph for every function, coalescing,
ordering and colouring for every graph, what the last three do in a row, and what the
whole loop does for every function and every number of registers, up to the execution of
the result; in lowering: the layout of variables for every list of sizes.

**SSAProofs.** What all proofs about functions rest on. `IterateSteps`, `IterateWithin` and
`IterateClosed` are about iterating any function on subsets of a finite set, and make
reachability, dominance and `MovesEnd` least sets one can argue with. `RootSteps` unrolls the
recursion along chains of moves: `MovesEnd`, that repeatedly adding the copies of what is known
reaches every instruction, is what makes it one that can be reasoned about. `InsertionIsSound`:
a function in SSA form (`Sound`) stays in SSA form when an instruction is inserted that reads only what
can be read there (`Available`). `RewiringIsSound`: so it does when something that can be read there
(`Fits`) takes the place of operands. Preparation and allocation are sequences of these two
edits, on functions they ask different things of.

**PrepareFunctionProofs.** The stage before the allocator, for every function it may be called
with (`Preparable`: SSA form, typed, operands that are values or constants of `Pool`, an empty
cache; the functions of the run are, by an ASSUME that TLC evaluates): `StageTypes` (`[]TypeOK`), `StageStaysSSA`
(`[]StaysSSA`), `PhisArePrepared` (`[]PhisPrepared`), `ValuesAreKept` (`[]ValuesKept`),
`ConstantsAreShared` (`[]NoDuplicateConstants`), and `StagePreparesAllocation`: when the loops have
ended the function is `Ready`, which `PreparedIsAllocatable` (AllocatedProgramProofs) turns into
what the allocator's theorems ask for. None of the properties is inductive, and no pass can be
looked at alone:

- `PhiInv` holds while PHIPreprocess runs. For the operands a pass is done with (`Done`) it says
  what the pass gives them, for all operands what the passes before gave them (`Registered`,
  `Unshared`, `NoneIsPhi`). The second pass is the subtle one, since it keeps in `visit` the roots
  of operands and not the operands: `Separated` says that an operand done with shares its
  root only with operands still to come, and that root is in `visit`, so those will be copied. A
  copy has a fresh root, so a copy made by a later pass undoes none of this (`CopyRecopies`).
- `KeepsValues` says that under the inserted copies (`IsStrip`) the phis read what they read before. A
  copy has a higher number than what it copies, which is why the recursion of `Original` ends.
- `SplitInv` holds from the moment ConstantSplit is handed a function. `CacheInv` says that an entry of the
  cache stands in the entry block, in front of each instruction of that block still to be visited,
  and was made from the entry of a wider constant or of the element of a vector
  (`MaterialisedBy`). The order in which the loops come to instructions (`InOrder`, from
  `CodeInOrder`) is what makes one instruction dominate all uses: those before it in the entry
  block have been visited. `ReadsKept` and `SplitAll` say which operands have been
  replaced, `CacheComputes` that what replaces them computes the constant.
- What is needed of `FlattenSeq` and of the loop over the operands of an instruction comes from
  explicit sequences of intermediate results (`FlattenSteps`, `SplitSteps`).

**InterferenceGraphProofs.** Of every function `makeInterferenceGraph` can be called with:

- `LiveValuesFound`: `BuildSpec => []LivenessExact`. While the equations are iterated the sets
  hold live values only, and unless the pass has changed something, all instructions it went
  through satisfy the equations (`Solving`, the part of `BuildInv` for this phase). So after
  a pass without a change the sets solve the equations. The live values are the least
  solution: `LivePoints` is the least set that holds the reading points and is closed under
  going one step back (`LivePointsAreLeast`). While instructions
  are collected, `Collecting` says that every block visited is finished or on the stack,
  so that in the end all instructions have been collected (`AllCollected`).
- `LiveRangesCovered`: `[]GraphCoversLiveRanges`. `LiveTogether` says why it is enough to look
  behind definitions: were u and v live together at a reachable point, but neither after the
  definition of the other, then both would be live one step before, and so back to the
  entry, where nothing is live (`LiveOnlyBehind`: no value is live on a path that has
  not come to its definition).
- `DominatorsAreNumberedLast`: `[]NumberedAfterDominated`. The activations of the search are a
  path from the entry (`OnPath`), so they include every block that dominates the one
  being visited (`DominatorActive`), and those are collected later. Once the
  search from the entry is over only unreachable blocks are visited (`Behind`).
- `NumbersArePerfect`: `[]NumberedPerfectly`. A neighbour with a higher number is not dominated,
  so it is live after the definition, where all such neighbours are live together
  (`LaterNeighbour`, `LiveAfterAdjacent`). The exception are phis of one block that
  nothing reads: they are neighbours of what is live there, and not of each other. TLC found it.
- `GraphIsChordal`: `[]ChordalAsBuilt`. Such phis have neighbours that are all adjacent
  (`DeadPhiIsSimplicial`), and without them the register with the least number has
  (`LeastIsSimplicial`), so that taking away such vertices ends with none left. This
  is the comment "SSA-form should have chordal interference graph", with its proof.

`BuildInit` asks of the function that it is one (`IsFunction`) and that phis read
instructions that are no phis (`PhisReadRegisters`, which phi preprocessing establishes); the
theorems from `LiveRangesCovered` on also ask for `WellFormed`, the rules of LLVM's
verifier. That the allocator hands over such a function whenever a graph is built, also after
copies and spilling, is `StaysAllocatable`, checked by the run `spill` and proved below.

**EliminationOrderProofs.** `OrderSpec => []NoVertexTwice`, `[]IsInducedSubgraph`,
`[]CountsAreUpperBounds` and `[]FillsTheQueue`, for every finite undirected graph and every
numbering. The copy of the graph is only the induced subgraph between two vertices, so the
invariant says what it is in between (`Halfway`): the vertex dequeued last (`Latest`) has been
taken out of the sets of those neighbours the inner loop has passed. The counts are
never recomputed. `Counted` says that C[I] is at least the number of pairs of I's neighbours
in the copy that are not adjacent in the caller's graph, a number that does not change while
neighbours lose the vertex one after the other; `TakingOut` counts the pairs that go with a
vertex, and `RecountIsSafe` that the code subtracts no more, `Sized` saying what
`size` is while it does. `FillsTheQueue` is what keeps the outer loop from spinning: the
model's `MinElement` can only return a visited vertex when every vertex is visited,
and then the order, which has as many entries as there are visited vertices
(`LengthIsNumberOfEntries`), is already complete. `GoodNumbersGiveGoodOrder`: when the numbers
are a perfect elimination order of the graph, so is the order listed. `Perfecting` says that
what each listed or queued vertex leaves behind is a clique; for the one that is picked it is
because `MinElement` has the lowest number of all that are left (`PickLeavesClique`), for one
whose count reaches 0 because counts are upper bounds (`ReadyLeavesClique`).

**GreedyColoringProofs.** `ColorSpec => []ColorTypeOK`, `[]ProperColoring`, `[]NoColorSkipped` and
`[]OptimalOnPerfectOrder`, assuming what `Inputs` says of the arguments: an undirected graph
without loops with finite neighbour sets, an order without repetitions. The
properties are not inductive by themselves: a vertex coloured a second time could clash
with neighbours coloured since. `ColorInv` adds `ColoredBefore`: coloured vertices are
among those the loop has passed. `LowestFreeIsFree` shows that the search loop
ends at a free colour, by counting: 1..n+1 cannot be inside a set of n colours.
`PaintingIsSafe` is the heart, used for both banks. Along a perfect order the coloured
neighbours of a vertex are adjacent to each other; a vertex with colour c has neighbours of
the c - 1 colours below, one of each, and they form the clique (`PaintedInClique`).

**InterferenceColoringProofs.** First coalescing: `CoalesceSpec => []IsQuotient`, for every graph and every merging into
representatives that are not merged themselves. The invariant `HalfWay` describes
the graph between merges: J and K are adjacent exactly when some of the vertices
each stands for so far were. `MergingLinks` shows that a merge changes this relation
exactly as the code changes the graph; the erasure at the end drops self-edges.
Then coalescing, ordering and colouring in a row, on every finite
graph: `KeptApart` (`[]LiveValuesKeptApart`), `EveryValueColored` (`[]NothingLeftOut`, the safety
part of `EventuallyColored`) and `PartsHold`, that each keeps what it promises alone on what the
part before hands it. `PhaseInv` is the invariant of the algorithm at work, on the graph
`Handed` to it, with the others not begun or over. `QuotientIsGraph` shows that a merged graph
is an input for ordering, `OrderedListsAll` that a complete order lists every vertex,
`ReverseKeepsEntries` that reversing it is an input for colouring. The steps themselves are the
lemmas of the three modules, cited.

**AllocatedProgramProofs.** The loop of `run()`, for every function `Spec` allows. `Spec` asks for
`Allocatable(prog)`: legal SSA, phis prepared, chains of moves that end, the fields of the
record typed, cached constants and `$decr_sp` in the entry block. Preparation leaves such
functions (`StagePreparesAllocation` and `PreparedIsAllocatable`: with the allocator's empty records,
every function the stage can end with is one), those the run `spill` starts
from are such functions (`StaysAllocatable` holds of initial states too). The only assumption on constants is
`RegisterCounts`, that the numbers of registers are natural numbers.

- `DifferentRegisters`: `[]RegistersKeptApart`. `AllocInv` says for each phase what holds in it:
  `NumberInv` of InterferenceGraphProofs while the graph is built, then that the sets are the
  live values (`LiveKnown`) and the graph the quotient by the moves (`MovesMerged`), then the
  invariants of InterferenceColoringProofs, whose actions those of RegisterAllocate are shown
  to be (`OrderingIsIC`, `ColoringKeeps`), on inputs shown to be inputs
  (`MovesMergedInterfere`, `PhisAreCoalesced`). `PropagatedKeepApart` carries the colours to
  the registers: two values needed together are neighbours, so what they stand for is, so
  their colours differ.
- `LoopsBeginWithSSA`: `[]StaysAllocatable`, the longest proof here. The edits of the two ways back
  to the start of the loop (`CopyingKeepsAllocatable`, `SpillingKeepsAllocatable`) are taken
  apart into insertions in front of an instruction and operands redirected; each keeps the
  function legal if what the new instruction reads is defined before the place it stands
  at and dominates the uses it takes over. The folds over sets of spilled values are
  unrolled by `FoldSteps`, as all the sets are finite.
- `RegistersReadCorrectly`: `[](RM!ReloadsFindValues => ReadsCorrectUnlessTolerated)`. `Holding` says
  that wherever the program stands, each value live there is in its register. An
  instruction writes a register whose values are not live behind it (`Apart`, and
  `NoneTolerated` for phis), a move writes none, and what a register held before is no later
  copy of the same instruction's value, since the numbers follow dominance (`Numbered`).
  The hypothesis is about reloads alone. That a slot keeps its value would need an
  invariant that follows the values of one slot through every later round of spilling,
  renumbering and copying, which is not attempted; the run `spill` checks it.
- `PerfectColoringOrder`: `[]PerfectWithoutPhis`, and from it and `ColoringIsOptimal`
  `RegistersAreNeeded`: no register is wasted on a function without phis. The numbers are perfect
  for the graph as built (`NumbersArePerfect`). `MergedNumbersPerfect` says they still are when
  moves are merged: where two chains interfere, the pair of their members with the highest
  numbers is one of a first definition and what is live after it (`MergedNeighbour`), since a
  move that interferes with something hands that on to what it copies. Then
  `GoodNumbersGiveGoodOrder` applies, and reversing the order is what colouring wants.
- `SpillingShrinks`: `SpillingProgresses`, an action property. A spill adds no register that may
  be spilled: stores, the instructions that make addresses, loads and their moves all enter
  `noSpill` (`Settles`, followed through every edit beside `Legal`). It does take one away: in
  the phase `spill` every value has a colour (`AllColored`), so what makes a colour worth
  spilling is a value that is not in `noSpill` yet (`SomethingIsSpilled`).

**AddressLayout.** `Spec => []Disjoint`: variables laid out one after the other, each
rounded up to a multiple of eight, do not overlap, begin at multiples of eight, and end
inside the block that is asked for, whatever their sizes. The invariant adds that the
accumulator is a multiple of eight, and `Inside` is what makes `Apart` inductive.
`PlacesGlobals` (run `lower`) shows that GV elimination implements this module with
`sizes`, `offset` and `acc` its own; alloca elimination advances its offsets by the same rule.

Only model-checked, for lack of a prover: all liveness; the modules over IRValues, which recurse
over values and use the bit operations of a community module no proof may reach; and
`MinElementIsTheLoop`, which compares `MinElement` with a recursive definition of the
library's loop, so with what a recursion computes for every input. Only model-checked,
because it was not attempted: `ReloadsFindValues` and `SlotsDisjoint`, about spilling round after
round; `TypeOK` of AllocatedProgram. `OneCopyPerOperand` is not a
theorem: it holds of the functions of `allocate`, and a run of copies without end
(section 3) breaks it.

## 5. Not modelled, and abstractions

- In the allocator's models values are names: which instruction computes an operand.
  What instructions compute is the subject of the modules over IRValues.
- `unreachable` is a terminator without a register in the allocator's models; in the code
  `isReg` holds for it but it has no colour, so it gets none either way.
- Constants to be split are integers and splat vectors of a small pool; null pointers,
  undef and vectors that are no splats are left out.
- Structs, floating point, and vectors in lowering. Global initialisers. Modules of more
  than one function in lowering: GV elimination is modelled for the function that holds
  the uses, which has to be main when there are globals.
- Inside calls: a call is an event with its arguments, its result a number of its own; the
  one callee with an effect on memory, `setGlobal`, stores its argument in the first global.
- Costs of spilling beyond zero or not zero, and the costs of the machine.
- Spelling: names, numbers and lines of text. The tables that turn text into registers are
  modelled by what they accept.
- The stages are checked one by one, on functions chosen for each; no run compiles one
  function from the optimizer to its text.
- Loop unrolling and mem2reg are calls of LLVM; `ReassociationPass` and
  `InstructionCombinePass` change nothing; inlining and StackAlloc are not in the pipeline.
- Driver, files, option parsing, IR reader and printer: straight lines of calls to the
  operating system and LLVM without state of their own.

## 6. Plan

1. A run that takes functions through preparation, allocation and emission, with values:
   the allocator's registers instead of the first-fit ones of MCEmitter.
2. Modules of several functions in lowering: one layout of globals for all of them.
3. Proofs: that a reload finds its value, and `SlotsDisjoint`, by an invariant about the
   values that share a slot.
