------------------------------ MODULE Assembly -------------------------------
(***************************************************************************)
(* The assembly of the SWPP machine: tokens, the tables that read them,    *)
(* and one constructor per class of assembly/inst.h.                       *)
(*                                                                         *)
(* A token is a pair of a kind and a value.  Kinds are register files      *)
(* ("r", "sp", "arg", "v"), "int", "width", "cond", "label", "name", and   *)
(* "none" for no target.  An error is a token too: what the std::expected  *)
(* of a parser holds when there is no value.                               *)
(***************************************************************************)
EXTENDS Integers, Sequences, SequencesExt

None  == <<"none", 0>>
Error == <<"error", 0>>
SP    == <<"sp", 0>>

\* "target = op args", the order of the arguments being that of their tokens.
Line(target, op, args) == [target |-> target, op |-> op, args |-> args]

Failed(l) == l.target = Error \/ Error \in ToSet(l.args)

-----------------------------------------------------------------------------
\* What emitter.cpp makes of the name of a value.

GeneralRegister(t)  == IF t[1] = "sp" \/ (t[1] = "r" /\ t[2] \in 1..32) THEN t ELSE Error
ArgumentRegister(t) == IF t[1] = "arg" /\ t[2] \in 1..16 THEN t ELSE Error
ScalarRegister(t)   == IF GeneralRegister(t) # Error THEN t ELSE ArgumentRegister(t)
IntLiteral(t)       == IF t[1] = "int" THEN t ELSE Error
ScalarValue(t)      == IF ScalarRegister(t) # Error THEN t ELSE IntLiteral(t)

\* The table has "ve" where v7 should be.
VectorRegister(t)   == IF t[1] = "v" /\ t[2] \in 1..16 \ {7} THEN t ELSE Error

IntBits    == [i1 |-> 1, i8 |-> 8, i16 |-> 16, i32 |-> 32, i64 |-> 64]
VectorBits == [v8i32 |-> 32, v4i64 |-> 64, v2i64 |-> 64]     \* of an element

IsInteger(type) == type \in DOMAIN IntBits
IsVector(type)  == type \in DOMAIN VectorBits

BitWidth(type) ==
  CASE type = "ptr"    -> <<"width", 64>>
    [] IsInteger(type) -> <<"width", IntBits[type]>>
    [] OTHER           -> Error

AccessWidth(type) ==
  CASE type = "ptr"                      -> <<"width", 8>>
    [] IsInteger(type) /\ type # "i1"    -> <<"width", IntBits[type] \div 8>>
    [] IsVector(type)                    -> <<"width", 32>>
    [] OTHER                             -> Error

VectorWidth(type) == IF IsVector(type) THEN <<"width", VectorBits[type]>> ELSE Error

IcmpCondition(pred) ==
  IF pred \in {"eq", "ne", "ugt", "uge", "ult", "ule", "sgt", "sge", "slt", "sle"}
  THEN <<"cond", pred>> ELSE Error

isSupportedVectorType(type) == type \in {"v8i32", "v4i64"}       \* 256 bits

-----------------------------------------------------------------------------
\* Sections, control flow and memory.

max_argc == 16

StartBelowMax(name, argc) ==
  Line(None, "start", <<name, IF argc >= max_argc THEN Error ELSE <<"int", argc>>>>)
FunctionStartInst(name, argc) ==
  Line(None, "start", <<name, IF argc > max_argc THEN Error ELSE <<"int", argc>>>>)
FunctionEndInst(name) == Line(None, "end", <<name>>)
BasicBlockInst(label) == Line(None, "label", <<label>>)
CommentInst           == Line(None, ";", <<>>)
BlankInst             == Line(None, "", <<>>)

ReturnInst(value)             == Line(None, "ret", <<value>>)
ReturnVoidInst                == Line(None, "ret", <<>>)
JumpInst(label)               == Line(None, "br", <<label>>)
BranchInst(cond, true, false) == Line(None, "br", <<cond, true, false>>)

\* The cases are kept in a std::map: they come out by increasing value.
SwitchInst(cond, cases, default) ==
  LET sorted == SortSeq(cases, LAMBDA x, y : x[1][2] < y[1][2])
  IN  Line(None, "switch", <<cond>> \o FlattenSeq(sorted) \o <<default>>)

MallocInst(target, size)     == Line(target, "malloc", <<size>>)
FreeInst(ptr)                == Line(None, "free", <<ptr>>)
LoadInst(target, size, ptr)  == Line(target, "load", <<size, ptr>>)
StoreSwapped(size, value, ptr) == Line(None, "store", <<size, ptr, value>>)
StoreInst(size, value, ptr)  == Line(None, "store", <<size, value, ptr>>)

-----------------------------------------------------------------------------
\* Integers and calls.

IntArithmetic == {"add", "sub", "mul", "udiv", "sdiv", "urem", "srem"}
IntBitwise    == {"and", "or", "xor", "shl", "lshr", "ashr"}

IntBinaryOpInst(target, op, lhs, rhs, bw) == Line(target, op, <<lhs, rhs, bw>>)
IntCompInst(target, cond, bw, lhs, rhs)   == Line(target, "icmp", <<cond, lhs, rhs, bw>>)
SelectInst(target, cond, lhs, rhs)        == Line(target, "select", <<cond, lhs, rhs>>)

Arguments(args) == IF Len(args) > max_argc THEN <<Error>> ELSE args
CallInst(target, name, args)    == Line(target, "call", <<name>> \o Arguments(args))
RecursiveCallInst(target, args) == Line(target, "rcall", Arguments(args))

AssertEqInst(lhs, rhs)            == Line(None, "assert_eq", <<lhs, rhs>>)
AsyncLoadInst(target, size, ptr)  == Line(target, "aload", <<size, ptr>>)
IntSumInst(target, operands, bw)  ==
  Line(target, "sum", IF Len(operands) = 8 THEN operands \o <<bw>> ELSE <<Error>>)
IntIncrInst(target, arg, bw)      == Line(target, "incr", <<arg, bw>>)
IntDecrInst(target, arg, bw)      == Line(target, "decr", <<arg, bw>>)
ConstantInst(target, value)       == Line(target, "const", <<value>>)

-----------------------------------------------------------------------------
\* Vectors: elementwise operations, parallel ones (vp...), and lanes.

VectorLoadInst(target, ptr)  == Line(target, "vload", <<ptr>>)
VectorStoreInst(value, ptr)  == Line(None, "vstore", <<value, ptr>>)

VectorArithmetic == {"vadd", "vsub", "vmul", "vudiv", "vsdiv", "vurem", "vsrem"}
VectorBitwise    == {"vand", "vor", "vxor", "vshl", "vlshr", "vashr"}
ParallelArithmetic == {"vpadd", "vpsub", "vpmul", "vpudiv", "vpsdiv", "vpurem", "vpsrem"}
ParallelBitwise    == {"vpand", "vpor", "vpxor", "vpshl", "vplshr", "vpashr"}

VectorOpInst(target, op, vec1, vec2, bw)    == Line(target, op, <<vec1, vec2, bw>>)
VectorUnaryInst(target, op, vec, bw)        == Line(target, op, <<vec, bw>>)
VectorCompInst(target, cond, vec1, vec2, bw)   == Line(target, "vicmp", <<cond, vec1, vec2, bw>>)
VectorSelectInst(target, cond, vec1, vec2, bw) == Line(target, "vselect", <<cond, vec1, vec2, bw>>)
ParallelCompInst(target, cond, vec1, vec2, bw)   == Line(target, "vpicmp", <<cond, vec1, vec2, bw>>)
ParallelSelectInst(target, cond, vec1, vec2, bw) == Line(target, "vpselect", <<cond, vec1, vec2, bw>>)
VectorBroadcastInst(target, val, bw)        == Line(target, "vbcast", <<val, bw>>)
VectorExtractInst(target, vec, idx, bw)     == Line(target, "vextct", <<vec, idx, bw>>)
VectorUpdateInst(target, vec, val, idx, bw) == Line(target, "vupdate", <<vec, val, idx, bw>>)

-----------------------------------------------------------------------------
\* The operand types of the classes, which the compiler of the compiler checks:
\* for each operation a target and the shapes its operands may have.

General == {"r", "sp"}    Scalar == {"r", "sp", "arg"}    Vector == {"v"}    Nothing == {"none"}
Literal == {"int"}        Width  == {"width"}              Cond == {"cond"}   Label == {"label"}
Name    == {"name"}

ControlTypes ==
  [start |-> <<Nothing, {<<Name, Literal>>}>>,
   end   |-> <<Nothing, {<<Name>>}>>,
   label |-> <<Nothing, {<<Label>>}>>,
   ret   |-> <<Nothing, {<<>>, <<Scalar>>}>>,
   br    |-> <<Nothing, {<<Label>>, <<Scalar, Label, Label>>}>>]
MemoryTypes ==
  [malloc |-> <<General, {<<Scalar>>}>>,        free  |-> <<Nothing, {<<Scalar>>}>>,
   load   |-> <<General, {<<Width, Scalar>>}>>, store |-> <<Nothing, {<<Width, Scalar, Scalar>>}>>]
BinaryTypes == [op \in IntArithmetic \cup IntBitwise |-> <<General, {<<Scalar, Scalar, Width>>}>>]
ScalarTypes ==
  [icmp   |-> <<General, {<<Cond, Scalar, Scalar, Width>>}>>,
   select |-> <<General, {<<Scalar, Scalar, Scalar>>}>>,
   aload  |-> <<General, {<<Width, Scalar>>}>>,
   sum    |-> <<General, {[k \in 1..9 |-> IF k < 9 THEN Scalar ELSE Width]}>>,
   incr   |-> <<General, {<<Scalar, Width>>}>>,
   decr   |-> <<General, {<<Scalar, Width>>}>>,
   const  |-> <<General, {<<Literal>>}>>,
   assert_eq |-> <<Nothing, {<<Scalar, Scalar \cup Literal>>}>>]
VectorTypes == [op \in VectorArithmetic \cup VectorBitwise |-> <<Vector, {<<Vector, Vector, Width>>}>>]
ElementTypes ==
  [vincr   |-> <<Vector, {<<Vector, Width>>}>>,
   vdecr   |-> <<Vector, {<<Vector, Width>>}>>,
   vicmp   |-> <<Vector, {<<Cond, Vector, Vector, Width>>}>>,
   vselect |-> <<Vector, {<<Vector, Vector, Vector, Width>>}>>]
ParallelTypes == [op \in ParallelArithmetic \cup ParallelBitwise |-> <<Vector, {<<Vector, Vector, Width>>}>>]
LaneTypes ==
  [vpicmp   |-> <<Vector, {<<Cond, Vector, Vector, Width>>}>>,
   vpselect |-> <<Vector, {<<Vector, Vector, Vector, Width>>}>>,
   vbcast   |-> <<Vector, {<<Scalar, Width>>}>>,
   vextct   |-> <<General, {<<Vector, Scalar, Width>>}>>,
   vupdate  |-> <<Vector, {<<Vector, Scalar, Scalar, Width>>}>>]
VectorMemoryTypes == [vload |-> <<Vector, {<<Scalar>>}>>, vstore |-> <<Nothing, {<<Vector, Scalar>>}>>]

OperandTypes ==
  ControlTypes @@ MemoryTypes @@ BinaryTypes @@ ScalarTypes
    @@ VectorMemoryTypes @@ VectorTypes @@ ElementTypes @@ ParallelTypes @@ LaneTypes

Fits(args, shape) == /\ Len(args) = Len(shape)
                     /\ \A k \in DOMAIN args : args[k][1] \in shape[k]

AllScalar(args, from) == \A k \in from..Len(args) : args[k][1] \in Scalar

WellTyped(l) ==
  CASE l.op \in DOMAIN OperandTypes ->
         /\ l.target[1] \in OperandTypes[l.op][1]
         /\ \E shape \in OperandTypes[l.op][2] : Fits(l.args, shape)
    [] l.op = "call"   -> l.target[1] \in General \cup Nothing /\ l.args[1][1] \in Name /\ AllScalar(l.args, 2)
    [] l.op = "rcall"  -> l.target[1] \in General \cup Nothing /\ AllScalar(l.args, 1)
    [] l.op = "switch" ->
         /\ Len(l.args) % 2 = 0 /\ l.args[1][1] \in Scalar /\ Last(l.args)[1] \in Label
         /\ \A k \in 2..Len(l.args) - 1 : l.args[k][1] \in (IF k % 2 = 0 THEN Literal ELSE Label)
    [] OTHER           -> l.op \in {"", ";"}
=============================================================================
