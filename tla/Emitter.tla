------------------------------- MODULE Emitter -------------------------------
(***************************************************************************)
(* emitter.cpp: an InstVisitor that writes the lines of a module, with the *)
(* registers insertSymbols has entered into the symbol map.  One action    *)
(* per visitor; every instruction without a visitor is passed by silently. *)
(*                                                                         *)
(* A module is a sequence of functions, those of IRValues with             *)
(*   declared : it has no body                                             *)
(*   names    : of its blocks, <<"", 0>> for none                          *)
(*   tail     : its calls that are tail calls                              *)
(* Functions whose name ends in a type are called by the opcode            *)
(* "intrinsic"; their info holds the parts of the name: what they do, the  *)
(* type, and for comparisons the predicate.                                *)
(***************************************************************************)
EXTENDS TextMachine

CONSTANTS
  NULL_PTR,            \* where the null pointer points
  Inputs,              \* the arguments functions are compared for
  MaxBlocks, MaxLines  \* and the blocks and lines executed of each

ASSUME EmitterAssumption == NULL_PTR \in Nat

VARIABLES
  functions,           \* the module, in order
  colors,              \* for each function its values |-> registers
  next,                \* what is visited next: function, block (or 0), instruction (or 0)
  lines,               \* assembly_lines
  function_to_close,   \* the name of the function whose end is still to be written
  error                \* was something thrown?

vars == <<functions, colors, next, lines, function_to_close, error>>

-----------------------------------------------------------------------------
\* The symbol map.

\* A move has the symbol of what it copies, $decr_sp the stack pointer.
Symbol(p, color, v) ==
  LET root[w \in Int] ==
        IF IsInst(w) /\ p.kind[w] \in MoveOps THEN root[p.args[w][1]] ELSE w
      r == root[v]
  IN  CASE isConstantInt(r)                        -> <<"int", getZExtValue(r)>>
        [] isArgument(r)                           -> <<"arg", Payload(r)>>
        [] IsInst(r) /\ p.kind[r] = "call" /\ p.info[r] = "$decr_sp" -> SP
        [] IsInst(r) /\ r \in DOMAIN color         -> color[r]
        [] OTHER                                   -> Error

\* Blocks without a name are numbered on their own.
Unnamed == <<"", 0>>

LabelsNotNumbered(p, b) ==
  <<"label", IF p.names[b] = Unnamed THEN <<"_default", 1>> ELSE p.names[b]>>

BlockLabel(p, b) ==
  LET i == Cardinality({c \in 1..b : p.names[c] = Unnamed})
  IN  <<"label", IF p.names[b] = Unnamed THEN <<"_default", i>> ELSE p.names[b]>>

FunctionName(p) == <<"name", p.name>>

isNullPointer(v) == v < 0 /\ Tag(v) = 6

tryGetName(p, color, v) ==
  CASE isNullPointer(v)                                -> <<"int", NULL_PTR>>
    [] isConstantInt(v)                                -> <<"int", getZExtValue(v)>>
    [] OTHER                                           -> Symbol(p, color, v)

-----------------------------------------------------------------------------
\* What each visitor writes for instruction I of p.

ScalarArg(p, color, v) == ScalarRegister(tryGetName(p, color, v))
VectorArg(p, color, v) == VectorRegister(tryGetName(p, color, v))
ScalarTarget(p, color, v) == GeneralRegister(tryGetName(p, color, v))

ScalarArgs(p, color, I) == [k \in DOMAIN p.args[I] |-> ScalarArg(p, color, p.args[I][k])]
VectorArgs(p, color, I) == [k \in DOMAIN p.args[I] |-> VectorArg(p, color, p.args[I][k])]

emitICmp(p, color, I) ==
  LET x == ScalarArgs(p, color, I)
  IN  <<IntCompInst(ScalarTarget(p, color, I), IcmpCondition(p.info[I]),
                    BitWidth(TypeOf(p, p.args[I][1])), x[1], x[2])>>

emitLoad(p, color, I) ==
  LET ptr == ScalarArg(p, color, p.args[I][1])
  IN  IF AccessWidth(p.type[I]) = <<"width", 32>>
      THEN <<VectorLoadInst(VectorArg(p, color, I), ptr)>>
      ELSE <<LoadInst(ScalarTarget(p, color, I), AccessWidth(p.type[I]), ptr)>>

emitStore(p, color, I) ==
  LET value == p.args[I][1]
      ptr   == ScalarArg(p, color, p.args[I][2])
      aw    == AccessWidth(TypeOf(p, value))
  IN  IF aw = <<"width", 32>>
      THEN <<VectorStoreInst(VectorArg(p, color, value), ptr)>>
      ELSE <<StoreInst(aw, ScalarArg(p, color, value), ptr)>>

emitSelect(p, color, I) ==
  LET x == ScalarArgs(p, color, I)
  IN  <<SelectInst(ScalarTarget(p, color, I), x[1], x[2], x[3])>>

emitExtractElement(p, color, I) ==
  LET type == TypeOf(p, p.args[I][1])
  IN  <<VectorExtractInst(ScalarTarget(p, color, I), VectorArg(p, color, p.args[I][1]),
                          ScalarArg(p, color, p.args[I][2]),
                          IF isSupportedVectorType(type) THEN VectorWidth(type) ELSE Error)>>

emitInsertElement(p, color, I) ==
  LET type == p.type[I]
  IN  <<VectorUpdateInst(VectorArg(p, color, I), VectorArg(p, color, p.args[I][1]),
                         ScalarArg(p, color, p.args[I][2]), ScalarArg(p, color, p.args[I][3]),
                         IF isSupportedVectorType(type) THEN VectorWidth(type) ELSE Error)>>

\* The register file of the target decides which of the two a binary operator is.
emitScalarBinaryOperator(p, color, I) ==
  LET x == ScalarArgs(p, color, I)
  IN  IF p.kind[I] \in IntArithmetic \cup IntBitwise
      THEN <<IntBinaryOpInst(ScalarTarget(p, color, I), p.kind[I], x[1], x[2], BitWidth(p.type[I]))>>
      ELSE <<Line(Error, "", <<>>)>>

VectorMnemonic ==
  [add |-> "vadd", sub |-> "vsub", mul |-> "vmul", udiv |-> "vudiv", sdiv |-> "vsdiv",
   urem |-> "vurem", srem |-> "vsrem", and |-> "vand", or |-> "vor", xor |-> "vxor",
   shl |-> "vshl", lshr |-> "vlshr", ashr |-> "vashr"]

emitVectorBinaryOperator(p, color, I) ==
  LET x == VectorArgs(p, color, I)
  IN  IF p.kind[I] \in DOMAIN VectorMnemonic
      THEN <<VectorOpInst(VectorArg(p, color, I), VectorMnemonic[p.kind[I]], x[1], x[2],
                          VectorWidth(p.type[I]))>>
      ELSE <<Line(Error, "", <<>>)>>

emitBinaryOperator(p, color, I) ==
  LET file == tryGetName(p, color, I)[1]
  IN  CASE file = "r" -> emitScalarBinaryOperator(p, color, I)
        [] file = "v" -> emitVectorBinaryOperator(p, color, I)
        [] OTHER      -> <<Line(Error, "", <<>>)>>

emitReturn(p, color, I) ==
  IF p.args[I] = <<>> THEN <<ReturnVoidInst>>
                      ELSE <<ReturnInst(ScalarArg(p, color, p.args[I][1]))>>

emitBranch(p, color, I) ==
  LET label == [k \in DOMAIN p.succ[BlockOf(p, I)] |-> BlockLabel(p, p.succ[BlockOf(p, I)][k])]
  IN  IF p.args[I] = <<>> THEN <<JumpInst(label[1])>>
      ELSE <<BranchInst(ScalarArg(p, color, p.args[I][1]), label[1], label[2])>>

\* The first successor is the default, the others belong to the operands.
emitSwitch(p, color, I) ==
  LET label == [k \in DOMAIN p.args[I] |-> BlockLabel(p, p.succ[BlockOf(p, I)][k])]
      cases == [k \in 1..Len(p.args[I]) - 1 |->
                  <<<<"int", getZExtValue(p.args[I][k + 1])>>, label[k + 1]>>]
  IN  <<SwitchInst(ScalarArg(p, color, p.args[I][1]), cases, label[1])>>

\* The jump goes to the name of the block, not to its symbol.
emitUnreachable(p, color, I) ==
  <<CommentInst, ConstantInst(<<"r", 1>>, <<"int", 0>>),
    AssertEqInst(<<"r", 1>>, <<"int", 1>>),
    JumpInst(<<"label", p.names[BlockOf(p, I)]>>)>>

-----------------------------------------------------------------------------
\* Calls.

emitMalloc(p, color, I) ==
  <<MallocInst(ScalarTarget(p, color, I), ScalarArg(p, color, p.args[I][1]))>>

emitFree(p, color, I) == <<FreeInst(ScalarArg(p, color, p.args[I][1]))>>

\* A literal goes through the register of the result, which is the stack pointer.
emitDecrSP(p, color, I) ==
  LET arg == ScalarValue(tryGetName(p, color, p.args[I][1]))
      sub(by) == IntBinaryOpInst(SP, "sub", SP, by, <<"width", 64>>)
      dummy == ScalarTarget(p, color, I)
  IN  IF arg[1] = "int" THEN <<ConstantInst(dummy, arg), sub(dummy)>> ELSE <<sub(arg)>>

\* The arguments have the type of the result, an integer.
SameTypes(p, I, type) ==
  \A k \in DOMAIN p.args[I] : TypeOf(p, p.args[I][k]) = type

WidthIf(condition, width) == IF condition THEN width ELSE Error

emitAsyncLoad(p, color, I) ==
  <<AsyncLoadInst(ScalarTarget(p, color, I),
                  WidthIf(IsInteger(p.type[I]) /\ Len(p.args[I]) = 1 /\ SameTypes(p, I, "ptr"),
                          AccessWidth(p.type[I])),
                  ScalarArg(p, color, p.args[I][1]))>>

emitIntSum(p, color, I) ==
  <<IntSumInst(ScalarTarget(p, color, I), ScalarArgs(p, color, I),
               WidthIf(Len(p.args[I]) = 8 /\ SameTypes(p, I, p.type[I]), BitWidth(p.type[I])))>>

IncrDecrWidth(p, I) ==
  WidthIf(IsInteger(p.type[I]) /\ Len(p.args[I]) = 1 /\ SameTypes(p, I, p.type[I]), BitWidth(p.type[I]))

emitIntIncr(p, color, I) ==
  <<IntIncrInst(ScalarTarget(p, color, I), ScalarArg(p, color, p.args[I][1]), IncrDecrWidth(p, I))>>

emitIntDecr(p, color, I) ==
  <<IntDecrInst(ScalarTarget(p, color, I), ScalarArg(p, color, p.args[I][1]), IncrDecrWidth(p, I))>>

\* The type in the name is checked; the line does not say it.
emitIntAssertion(p, color, I) ==
  IF Len(p.args[I]) = 2 /\ SameTypes(p, I, p.info[I][2])
  THEN <<AssertEqInst(ScalarArg(p, color, p.args[I][1]),
                      ScalarValue(tryGetName(p, color, p.args[I][2])))>>
  ELSE <<Line(Error, "", <<>>)>>

emitIntConstant(p, color, I) ==
  <<ConstantInst(ScalarTarget(p, color, I), IntLiteral(tryGetName(p, color, p.args[I][1])))>>

\* Vector intrinsics: result and arguments have one type, the width is its element's.
CommonWidth(p, I, argc) ==
  WidthIf(Len(p.args[I]) = argc /\ SameTypes(p, I, p.type[I]), VectorWidth(p.type[I]))

emitVectorIncr(p, color, I) ==
  <<VectorUnaryInst(VectorArg(p, color, I), "vincr", VectorArg(p, color, p.args[I][1]), CommonWidth(p, I, 1))>>

emitVectorDecr(p, color, I) ==
  <<VectorUnaryInst(VectorArg(p, color, I), "vdecr", VectorArg(p, color, p.args[I][1]), CommonWidth(p, I, 1))>>

emitVectorComp(p, color, I) ==
  LET x == VectorArgs(p, color, I)
  IN  <<VectorCompInst(VectorArg(p, color, I), IcmpCondition(p.info[I][3]), x[1], x[2], CommonWidth(p, I, 2))>>

emitVectorSelect(p, color, I) ==
  LET x == VectorArgs(p, color, I)
  IN  <<VectorSelectInst(VectorArg(p, color, I), x[1], x[2], x[3], CommonWidth(p, I, 3))>>

emitParallelArithmetic(p, color, I) ==
  LET x == VectorArgs(p, color, I)
  IN  <<VectorOpInst(VectorArg(p, color, I), p.info[I][1], x[1], x[2], CommonWidth(p, I, 2))>>

emitParallelBitwise(p, color, I) ==
  LET x == VectorArgs(p, color, I)
  IN  <<VectorOpInst(VectorArg(p, color, I), p.info[I][1], x[1], x[2], CommonWidth(p, I, 2))>>

emitParallelComp(p, color, I) ==
  LET x == VectorArgs(p, color, I)
  IN  <<ParallelCompInst(VectorArg(p, color, I), IcmpCondition(p.info[I][3]), x[1], x[2], CommonWidth(p, I, 2))>>

emitParallelSelect(p, color, I) ==
  LET x == VectorArgs(p, color, I)
  IN  <<ParallelSelectInst(VectorArg(p, color, I), x[1], x[2], x[3], CommonWidth(p, I, 3))>>

\* Here the width comes from the name.
emitVectorBroadcast(p, color, I) ==
  <<VectorBroadcastInst(VectorArg(p, color, I), ScalarArg(p, color, p.args[I][1]), VectorWidth(p.info[I][2]))>>

emitRecursiveCall(p, color, I) ==
  <<RecursiveCallInst(IF p.type[I] = "void" THEN None ELSE ScalarTarget(p, color, I),
                      ScalarArgs(p, color, I))>>

emitCall(p, color, I) ==
  <<CallInst(IF p.type[I] = "void" THEN None ELSE ScalarTarget(p, color, I),
             <<"name", p.info[I]>>, ScalarArgs(p, color, I))>>

\* The first name that fits.
emitFromCall(p, color, I) ==
  LET name == IF p.kind[I] = "intrinsic" THEN p.info[I][1] ELSE p.info[I]
  IN  CASE name = "malloc"    -> emitMalloc(p, color, I)
        [] name = "free"      -> emitFree(p, color, I)
        [] name = "$decr_sp"  -> emitDecrSP(p, color, I)
        [] name = "aload"     -> emitAsyncLoad(p, color, I)
        [] name = "int_sum"   -> emitIntSum(p, color, I)
        [] name = "incr"      -> emitIntIncr(p, color, I)
        [] name = "decr"      -> emitIntDecr(p, color, I)
        [] name = "const"     -> emitIntConstant(p, color, I)
        [] name = "assert_eq" -> emitIntAssertion(p, color, I)
        [] name = "vincr"     -> emitVectorIncr(p, color, I)
        [] name = "vdecr"     -> emitVectorDecr(p, color, I)
        [] name = "vicmp"     -> emitVectorComp(p, color, I)
        [] name = "vselect"   -> emitVectorSelect(p, color, I)
        [] name \in ParallelArithmetic -> emitParallelArithmetic(p, color, I)
        [] name \in ParallelBitwise    -> emitParallelBitwise(p, color, I)
        [] name = "vpicmp"    -> emitParallelComp(p, color, I)
        [] name = "vpselect"  -> emitParallelSelect(p, color, I)
        [] name = "vbcast"    -> emitVectorBroadcast(p, color, I)
        [] name = p.name /\ I \in p.tail -> emitRecursiveCall(p, color, I)
        [] OTHER              -> emitCall(p, color, I)

-----------------------------------------------------------------------------
\* The visitor.

Init(module) ==
  /\ functions = module.functions /\ colors = module.colors
  /\ next = <<1, 0, 0>> /\ lines = <<>> /\ function_to_close = None /\ error = FALSE

Done    == next[1] = Len(functions) + 1
Current == functions[next[1]]
Color   == colors[next[1]]

\* After a function its blocks, after a block's label its instructions.
Advance ==
  LET f == next[1]   b == next[2]   k == next[3]
      nextFunction == <<f + 1, 0, 0>>
  IN  CASE Current.declared                         -> nextFunction
        [] b > 0 /\ k < Len(Current.body[b])        -> <<f, b, k + 1>>
        [] b < Len(Current.body)                    -> <<f, b + 1, 0>>
        [] OTHER                                    -> nextFunction

\* A visitor throws before it has written anything.
Push(ls) ==
  IF \E k \in DOMAIN ls : Failed(ls[k])
  THEN error' = TRUE /\ UNCHANGED <<lines, next>>
  ELSE lines' = lines \o ls /\ next' = Advance /\ UNCHANGED error

\* The function before is ended by the visit of the one after it.
Closed == IF function_to_close = None THEN <<>> ELSE <<FunctionEndInst(function_to_close), BlankInst>>

visitFunction ==
  /\ ~error /\ ~Done /\ next[2] = 0
  /\ LET start == FunctionStartInst(FunctionName(Current), Len(Current.params)) IN
     CASE Current.declared -> /\ lines' = lines \o Closed /\ next' = Advance
                              /\ function_to_close' = None /\ UNCHANGED error
       [] Failed(start)    -> /\ lines' = lines \o Closed /\ error' = TRUE
                              /\ function_to_close' = None /\ UNCHANGED next
       [] OTHER            -> /\ lines' = lines \o Closed \o <<start>> /\ next' = Advance
                              /\ function_to_close' = FunctionName(Current) /\ UNCHANGED error
  /\ UNCHANGED <<functions, colors>>

visitBasicBlock ==
  /\ ~error /\ ~Done /\ next[2] > 0 /\ next[3] = 0
  /\ Push(<<BasicBlockInst(BlockLabel(Current, next[2]))>>)
  /\ UNCHANGED <<functions, colors, function_to_close>>

VisitInst(opcodes, emit(_, _, _)) ==
  /\ ~error /\ ~Done /\ next[3] > 0
  /\ LET I == Current.body[next[2]][next[3]] IN
     Current.kind[I] \in opcodes /\ Push(emit(Current, Color, I))
  /\ UNCHANGED <<functions, colors, function_to_close>>

visitICmpInst           == VisitInst({"icmp"}, emitICmp)
visitLoadInst           == VisitInst({"load"}, emitLoad)
visitStoreInst          == VisitInst({"store"}, emitStore)
visitSelectInst         == VisitInst({"select"}, emitSelect)
visitExtractElementInst == VisitInst({"extractelement"}, emitExtractElement)
visitInsertElementInst  == VisitInst({"insertelement"}, emitInsertElement)
visitCallInst           == VisitInst({"call", "intrinsic"}, emitFromCall)
visitReturnInst         == VisitInst({"ret"}, emitReturn)
visitBranchInst         == VisitInst({"br"}, emitBranch)
visitSwitchInst         == VisitInst({"switch"}, emitSwitch)
visitBinaryOperator     == VisitInst(IntOps, emitBinaryOperator)
visitUnreachableInst    == VisitInst({"unreachable"}, emitUnreachable)

\* Phis, conversions and whatever else: InstVisitor calls the empty visitInstruction.
visitInstruction ==
  VisitInst({"phi", "freeze", "sext", "alloca", "getelementptr"} \cup MoveOps, LAMBDA p, color, I : <<>>)

getAssembly ==
  /\ Done /\ ~error /\ function_to_close # None
  /\ lines' = Append(lines, FunctionEndInst(function_to_close)) /\ function_to_close' = None
  /\ UNCHANGED <<functions, colors, next, error>>

Next ==
  \/ visitFunction \/ visitBasicBlock
  \/ visitICmpInst \/ visitLoadInst \/ visitStoreInst \/ visitSelectInst
  \/ visitExtractElementInst \/ visitInsertElementInst \/ visitCallInst \/ visitReturnInst
  \/ visitBranchInst \/ visitSwitchInst \/ visitBinaryOperator \/ visitUnreachableInst
  \/ visitInstruction \/ getAssembly

Spec(module) == Init(module) /\ [][Next]_vars

-----------------------------------------------------------------------------
Finished == Done /\ ~error /\ function_to_close = None

Defined == {f \in DOMAIN functions : ~functions[f].declared}

\* The text of every function, run with the registers the symbol map has given out,
\* does what the function does: results are in the registers their readers look in,
\* no operand is swapped, no width is lost, control goes where the IR says.
TextBehavesAsFunction ==
  Finished =>
    \A f \in Defined, input \in Inputs :
      Allows(Behaviour(Abbreviate(functions[f]), input, TRUE, MaxBlocks),
             RunText(lines, functions[f].name, input, MaxLines))

\* At any moment the text is a sequence of sections, all ended but the one being
\* written, with labels that are unique in their section; operands have the types the
\* classes of the instructions ask for; and in the end every jump has its label.
Opens(k)  == lines[k].op = "start"
Bounds(k) == lines[k].op \in {"start", "end"}
Ending(k) == {j \in k + 1..Len(lines) : Bounds(j)}
InSection(k, j) == k < j /\ \A i \in Ending(k) : j < i

WellFormedText ==
  /\ \A k \in DOMAIN lines : WellTyped(lines[k])
  /\ \A k \in {j \in DOMAIN lines : Opens(j)} :
       /\ IF Ending(k) = {} THEN function_to_close = lines[k].args[1]
          ELSE lines[Min(Ending(k))] = FunctionEndInst(lines[k].args[1])
       /\ LET labels == {j \in DOMAIN lines : InSection(k, j) /\ lines[j].op = "label"} IN
          /\ \A i, j \in labels : lines[i] = lines[j] => i = j
          /\ Finished => \A j \in {i \in DOMAIN lines : InSection(k, i)} :
               \A t \in Range(lines[j].args) :
                 t[1] = "label" => \E i \in labels : lines[i].args = <<t>>

\* What the earlier stages see to: constants are in registers except where a literal
\* is meant, and nothing is asked for that the machine has no instruction for.
Literals(p, I) ==
  CASE p.kind[I] = "switch" -> 2..Len(p.args[I])
    [] p.kind[I] = "intrinsic" /\ p.info[I][1] \in {"const", "assert_eq"} -> {Len(p.args[I])}
    [] OTHER -> {}

Prepared(p) ==
  /\ Len(p.params) <= 16
  /\ p.declared \/ \A I \in {J \in Insts(p) : p.kind[J] \notin MoveOps} :
       /\ \A k \in DOMAIN p.args[I] \ Literals(p, I) : ~isConstantInt(p.args[I][k])
       /\ p.kind[I] = "call" => Len(p.args[I]) <= 16
       /\ p.kind[I] \in {"load", "store"} => "i1" \notin {p.type[I], TypeOf(p, p.args[I][1])}
       /\ p.kind[I] \in {"select", "ret", "call", "icmp"} =>
            ~IsVector(p.type[I]) /\ \A v \in Range(p.args[I]) : ~IsVector(TypeOf(p, v))

\* Emission throws only for functions that are not prepared: no value the allocator
\* knows, no register it gives out and no argument is beyond the emitter's tables.
PreparedIsEmitted == error => \E f \in Defined : ~Prepared(functions[f])
=============================================================================
