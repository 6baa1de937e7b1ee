------------------------------- MODULE IRValues ------------------------------
(***************************************************************************)
(* LLVM functions with values.  Where SSAProgram keeps what the register   *)
(* allocator looks at, the passes before it change what is computed, so    *)
(* here the field `kind' holds the opcode and two fields are added:        *)
(*                                                                         *)
(*   info   : what else an instruction says, by opcode: a predicate, a     *)
(*            callee, the type of an alloca or getelementptr               *)
(*   name, params, gvs, ces : name, parameter types, global variables      *)
(*            (type and initial value) and constant expressions            *)
(*                                                                         *)
(* Operands that are no instructions are numbers below zero that hold a    *)
(* tag (a type of the constant, or one of the tags below) and a payload.   *)
(*                                                                         *)
(* Widths are scaled down: a byte has ByteBits bits, so an i64 has eight   *)
(* times as many.  Everything is computed modulo 2^width.                  *)
(***************************************************************************)
EXTENDS SSAProgram, Bitwise

CONSTANTS
  ByteBits,          \* bits of a byte
  StackTop,          \* where the stack of the machine begins, growing down
  START_ADDRESS      \* where its heap begins (gv_eliminate.cpp)

ASSUME IRValuesAssumption ==
  /\ ByteBits \in 1..2                      \* products of i64s fit TLC's integers
  /\ StackTop \in 0..START_ADDRESS - 1 /\ START_ADDRESS < 2^(8 * ByteBits)

-----------------------------------------------------------------------------
\* Types.

TypeSize == [i1 |-> 1, i8 |-> 1, i16 |-> 2, i24 |-> 3, i32 |-> 4, i64 |-> 8, ptr |-> 8]

\* Vectors, whose values are sequences of i64s.
VectorLanes == [v2i64 |-> 2, v3i64 |-> 3, v4i64 |-> 4]

Bits(type) == IF type = "i1" THEN 1 ELSE ByteBits * TypeSize[type]

\* An aggregate type: arrays nested as deep as dims is long.
Array(dims, elem) == [dims |-> dims, elem |-> elem]

\* analysis.cpp: the size in bytes of a type the machine has.
hasSize(ty)          == ty.elem \in DOMAIN TypeSize \ {"i24"}
tryCalculateSize(ty) == FoldLeft(LAMBDA x, y : x * y, TypeSize[ty.elem], ty.dims)

\* (size + 7) & (UINT64_MAX - 7)
Unaligned(size) == size
alignUp(size) == 8 * ((size + 7) \div 8)

-----------------------------------------------------------------------------
\* The verifier counts edges where WellFormed compares sets of predecessors: a phi has one
\* operand for each edge into its block, two for a block that goes there both ways.
OneEntryPerEdge(p) ==
  \A b, c \in Blocks(p) : \A phi \in Phis(p, b) :
    Cardinality({k \in DOMAIN p.from[phi] : p.from[phi][k] = c})
      = Cardinality({k \in DOMAIN p.succ[c] : p.succ[c][k] = b})

-----------------------------------------------------------------------------
\* Operands.

Types == <<"i1", "i8", "i16", "i32", "i64", "ptr">>
ExprTag == 13   ArgTag == 14   GVTag == 15
Operand(tag, n) == -(16 * n + tag)
Tag(v)          == (-v) % 16
Payload(v)      == (-v) \div 16

Const(type, n) == Operand(CHOOSE k \in DOMAIN Types : Types[k] = type, n % 2^Bits(type))
Arg(n)  == Operand(ArgTag, n)
GV(n)   == Operand(GVTag, n)
Expr(n) == Operand(ExprTag, n)

isConstantInt(v)  == v < 0 /\ Tag(v) \in 1..5
isConstantExpr(v) == v < 0 /\ Tag(v) = ExprTag
isArgument(v)     == v < 0 /\ Tag(v) = ArgTag

TypeOf(p, v) ==
  CASE IsInst(v)         -> p.type[v]
    [] isConstantExpr(v) -> p.ces[Payload(v)].type
    [] isArgument(v)     -> p.params[Payload(v)]
    [] Tag(v) = GVTag    -> "ptr"
    [] OTHER             -> Types[Tag(v)]

Signed(x, w) == IF x >= 2^(w - 1) THEN x - 2^w ELSE x

getZExtValue(v) == Payload(v)
getSExtValue(v) == Signed(Payload(v), Bits(Types[Tag(v)]))

-----------------------------------------------------------------------------
\* Edits.

\* Insert a new instruction before t; it gets the number FreshInst(p).
Insert(p, t, kind, type, args, info) ==
  LET I == FreshInst(p)
  IN  [InsertBefore(p, t, I, kind, args, type) EXCEPT !.info = Extended(@, I, info)]

replaceAllUsesWith(p, old, new) ==
  [p EXCEPT !.args = [I \in Insts(p) |-> ReplaceAll(@[I], old, new)]]

setOperand(p, I, k, v) == [p EXCEPT !.args[I][k] = v]

eraseInsts(p, S) ==
  LET keep(f) == [I \in Insts(p) \ S |-> f[I]]
  IN  [p EXCEPT !.body = [b \in Blocks(p) |-> SelectSeq(@[b], LAMBDA I : I \notin S)],
                !.kind = keep(@), !.args = keep(@), !.type = keep(@),
                !.from = keep(@), !.info = keep(@)]

Users(p, v) == {I \in Insts(p) : v \in Range(p.args[I])}

InstSeq(p) == FlattenSeq(p.body)

SideEffects == {"store", "call", "br", "ret", "switch", "unreachable"}

\* What DCEPass removes (external): the unused instructions without side effects,
\* then those only they used.  An unused malloc counts as one (isRemovableAlloc).
MayRemove(p, I) == p.kind[I] \notin SideEffects \/ p.info[I] = "malloc"
DCE(p) ==
  LET gone[k \in 0..Cardinality(Insts(p))] ==
        IF k = 0 THEN {}
        ELSE LET before == gone[k - 1]
             IN  {I \in Insts(p) : MayRemove(p, I) /\ Users(p, I) \subseteq before}
  IN  eraseInsts(p, gone[Cardinality(Insts(p))])

-----------------------------------------------------------------------------
\* What instructions compute.  `copies' tells how conversions are executed: as the
\* language defines them, or as the machine does after the emitter has written
\* nothing for them, which leaves the register as it was.

IntOps == {"add", "sub", "mul", "udiv", "sdiv", "urem", "srem", "shl", "lshr", "ashr",
           "and", "or", "xor"}

\* Undefined: division by zero, and shifts by more than the width.
UndefinedOp(op, y, w) ==
  \/ op \in {"udiv", "sdiv", "urem", "srem"} /\ y = 0
  \/ op \in {"shl", "lshr", "ashr"} /\ y >= w

Quotient(x, y) ==   \* truncated towards zero
  IF x < 0 THEN (IF y < 0 THEN (-x) \div (-y) ELSE -((-x) \div y))
           ELSE (IF y < 0 THEN -(x \div (-y)) ELSE x \div y)

Compute(op, x, y, w) ==
  LET sx == Signed(x, w)   sy == Signed(y, w)
      r  == CASE op = "add"  -> x + y
              [] op = "sub"  -> x - y
              [] op = "mul"  -> sx * sy
              [] op = "udiv" -> x \div y
              [] op = "sdiv" -> Quotient(sx, sy)
              [] op = "urem" -> x % y
              [] op = "srem" -> sx - sy * Quotient(sx, sy)
              [] op = "shl"  -> (x % 2^(w - y)) * 2^y
              [] op = "lshr" -> x \div 2^y
              [] op = "ashr" -> sx \div 2^y
              [] op = "and"  -> x & y
              [] op = "or"   -> x | y
              [] op = "xor"  -> x ^^ y
  IN  r % 2^w

Compare(pred, x, y, w) ==
  LET sx == Signed(x, w)   sy == Signed(y, w)
      holds == CASE pred = "eq"  -> x = y     [] pred = "ne"  -> x # y
                 [] pred = "ugt" -> x > y     [] pred = "uge" -> x >= y
                 [] pred = "ult" -> x < y     [] pred = "ule" -> x <= y
                 [] pred = "sgt" -> sx > sy   [] pred = "sge" -> sx >= sy
                 [] pred = "slt" -> sx < sy   [] pred = "sle" -> sx <= sy
  IN  IF holds THEN 1 ELSE 0

MoveOps == {"zext", "trunc", "bitcast", "ptrtoint", "inttoptr"}

Convert(op, x, from, to, copies) ==
  CASE op = "sext"                  -> Signed(x % 2^Bits(from), Bits(from)) % 2^Bits(to)
    [] op \in MoveOps /\ copies      -> x
    [] OTHER                         -> x % 2^Bits(to)

-----------------------------------------------------------------------------
\* Execution, as an operator: a state s holds the values of the instructions (env),
\* memory by byte, the blocks of memory that may be accessed, stack pointer and end of
\* the heap, what was written (out), the block to execute (at, entered from `from'),
\* and the status: "run", "ret" (with the result in val), or
\*   "ub"    something undefined happened: any behaviour is allowed
\*   "trap"  memory outside all blocks was accessed
\*   "slow"  the bound on blocks was reached

Gap == 64                 \* variables are apart: no address is in reach of two
Undefined == -1           \* contents of a byte never written
GVArea    == 2^(8 * ByteBits - 1)    \* where globals live as long as there are any

gvAddress(p, n) ==
  GVArea + FoldLeft(LAMBDA x, y : x + y, 0,
                    [k \in 1..n - 1 |-> alignUp(tryCalculateSize(p.gvs[k]))])

Start(p) ==
  [env |-> <<>>, mem |-> <<>>, sp |-> StackTop, heap |-> START_ADDRESS, out |-> <<>>,
   blocks |-> {<<gvAddress(p, n), gvAddress(p, n) + tryCalculateSize(p.gvs[n])>> :
                 n \in DOMAIN p.gvs},
   at |-> 1, from |-> 0, status |-> "run", val |-> 0]

Stop(s, status) == [s EXCEPT !.status = status]

Accessible(s, a, n) == \E block \in s.blocks : block[1] <= a /\ a + n <= block[2]

LoadBytes(s, a, n) == [k \in 1..n |-> IF a + k - 1 \in DOMAIN s.mem THEN s.mem[a + k - 1]
                                                                   ELSE Undefined]

FromBytes(bytes) ==
  FoldLeft(LAMBDA x, y : x + y, 0, [k \in DOMAIN bytes |-> bytes[k] * 2^(ByteBits * (k - 1))])

StoreBytes(s, a, n, x) ==
  [s EXCEPT !.mem = [b \in a..a + n - 1 |-> (x \div 2^(ByteBits * (b - a))) % 2^ByteBits] @@ @]

\* A new block of memory, with undefined contents.
Reserve(s, a, n) ==
  [s EXCEPT !.blocks = @ \cup {<<a, a + n>>},
            !.mem = [b \in a..a + n - 1 |-> Undefined] @@ @]

Load(s, a, n, Result(_, _)) ==
  IF ~Accessible(s, a, n) THEN Stop(s, "trap")
  ELSE LET bytes == LoadBytes(s, a, n)
       IN  IF Undefined \in Range(bytes) THEN Stop(s, "ub") ELSE Result(s, FromBytes(bytes))

Store(s, a, n, x) == IF Accessible(s, a, n) THEN StoreBytes(s, a, n, x) ELSE Stop(s, "trap")

\* The address of getelementptr: indices are signed, the first counts whole
\* objects of the source type, each further one goes into an array.
gepAddress(base, ty, indices) ==
  FoldLeft(LAMBDA a, k :
      a + indices[k] * tryCalculateSize([ty EXCEPT !.dims = SubSeq(@, k, Len(@))]),
      base, [k \in DOMAIN indices |-> k]) % 2^Bits("ptr")

Evaluate(p, s, input, copies, v) ==
  LET val[w \in Int] ==
        CASE IsInst(w)     -> s.env[w]
          [] isArgument(w) -> input[Payload(w)]
          [] w < 0 /\ Tag(w) = GVTag -> gvAddress(p, Payload(w))
          [] isConstantExpr(w) ->
               LET e == p.ces[Payload(w)]   x == val[e.args[1]]
               IN  CASE e.kind = "getelementptr" ->
                          gepAddress(x, e.info, [k \in 1..Len(e.args) - 1 |->
                            Signed(val[e.args[k + 1]], Bits(TypeOf(p, e.args[k + 1])))])
                     [] e.kind \in MoveOps ->
                          Convert(e.kind, x, TypeOf(p, e.args[1]), e.type, copies)
                     [] OTHER -> Compute(e.kind, x, val[e.args[2]], Bits(e.type))
          [] OTHER -> Payload(w)
  IN  val[v]

\* Effects of the functions the compiler knows, and of one of the program's own that
\* stores its argument in the first global.  Every other call is output.
Call(p, s, I, args) ==
  LET result(t, x) == [t EXCEPT !.env = (I :> x) @@ @]
      callee == p.info[I]
  IN  CASE callee = "$decr_sp" ->
             LET sp == s.sp - args[1]
             IN  result([Reserve(s, sp, args[1]) EXCEPT !.sp = sp], sp)
        [] callee = "malloc" ->
             result([Reserve(s, s.heap, args[1]) EXCEPT !.heap = @ + alignUp(args[1])], s.heap)
        [] callee = "free" ->
             IF \E block \in s.blocks : block[1] = args[1]
             THEN [s EXCEPT !.blocks = {block \in @ : block[1] # args[1]}]
             ELSE Stop(s, "ub")
        [] callee = "incr" -> result(s, (args[1] + 1) % 2^Bits(p.type[I]))
        [] callee = "decr" -> result(s, (args[1] - 1) % 2^Bits(p.type[I]))
        [] callee = "setGlobal" -> Store(s, gvAddress(p, 1), TypeSize["i64"], args[1])
        [] OTHER -> result([s EXCEPT !.out = Append(@, <<callee, args>>)], Len(s.out))

\* A conditional br is taken, as a machine does it, unless its condition is zero.
Branch(p, s, I, args) ==
  LET succ == p.succ[s.at]
      next == CASE p.kind[I] = "br" /\ args = <<>> -> succ[1]
                [] p.kind[I] = "br"                -> IF args[1] # 0 THEN succ[1] ELSE succ[2]
                [] p.kind[I] = "switch"            ->
                     LET hit == {k \in 2..Len(args) : args[k] = args[1]}
                     IN  IF hit = {} THEN succ[1] ELSE succ[Min(hit)]
  IN  CASE p.kind[I] = "ret" ->
             [Stop(s, "ret") EXCEPT !.val = IF args = <<>> THEN 0 ELSE args[1]]
        [] p.kind[I] = "unreachable" -> Stop(s, "ub")
        [] OTHER -> [s EXCEPT !.at = next, !.from = s.at]

\* Loads, stores and operations of vectors, lane by lane.
OnLanes(p, I) ==
  \/ p.type[I] \in DOMAIN VectorLanes
  \/ p.kind[I] = "store" /\ TypeOf(p, p.args[I][1]) \in DOMAIN VectorLanes

ExecuteLanes(p, s, I, args) ==
  LET lanes == 1..VectorLanes[IF p.kind[I] = "store" THEN TypeOf(p, p.args[I][1]) ELSE p.type[I]]
      w == Bits("i64")
      word(k) == 8 * (k - 1)
      result(v) == [s EXCEPT !.env = (I :> v) @@ @]
  IN  CASE p.kind[I] = "load" ->
             Load(s, args[1], 8 * Max(lanes), LAMBDA t, x :
               result([k \in lanes |-> FromBytes(LoadBytes(t, args[1] + word(k), 8))]))
        [] p.kind[I] = "store" ->
             FoldLeft(LAMBDA t, k : IF t.status = "run" THEN Store(t, args[2] + word(k), 8, args[1][k]) ELSE t,
                      s, [k \in lanes |-> k])
        [] OTHER ->
             IF \E k \in lanes : UndefinedOp(p.kind[I], args[2][k], w) THEN Stop(s, "ub")
             ELSE result([k \in lanes |-> Compute(p.kind[I], args[1][k], args[2][k], w)])

ExecuteOn(p, s, copies, I, args) ==
  LET op   == p.kind[I]
      type == p.type[I]
      w    == Bits(IF op \in {"icmp", "store"} THEN TypeOf(p, p.args[I][1]) ELSE type)
      x    == args[1] % 2^w
      y    == args[2] % 2^w
      result(t, n) == [t EXCEPT !.env = (I :> n) @@ @]
  IN  CASE op # "event" /\ OnLanes(p, I) -> ExecuteLanes(p, s, I, args)
        [] op \in IntOps ->
             IF UndefinedOp(op, y, w) THEN Stop(s, "ub") ELSE result(s, Compute(op, x, y, w))
        [] op = "icmp"   -> result(s, Compare(p.info[I], x, y, w))
        [] op = "select" -> result(s, IF args[1] # 0 THEN args[2] ELSE args[3])
        [] op = "freeze" -> result(s, args[1])
        [] op = "sext" \/ op \in MoveOps ->
             result(s, Convert(op, args[1], TypeOf(p, p.args[I][1]), type, copies))
        [] op = "alloca" ->
             LET n == tryCalculateSize(p.info[I]) * args[1]
                 a == s.sp - alignUp(n) - Gap
             IN  result([Reserve(s, a, n) EXCEPT !.sp = a], a)
        [] op = "getelementptr" ->
             result(s, gepAddress(args[1], p.info[I], [k \in 1..Len(args) - 1 |->
               Signed(args[k + 1], Bits(TypeOf(p, p.args[I][k + 1])))]))
        [] op = "load"   -> Load(s, args[1], TypeSize[type], result)
        [] op = "store"  -> Store(s, args[2], TypeSize[TypeOf(p, p.args[I][1])], x)
        [] op = "call"   -> Call(p, s, I, args)
        [] op = "event"  ->      \* an operation that is observed, not computed
             LET e == p.info[I]
             IN  result([s EXCEPT !.out = Append(@, <<e[1], e[3] \o args, e[2]>>)], Len(s.out))
        [] OTHER         -> Branch(p, s, I, args)

Execute(p, s, input, copies, I) ==
  ExecuteOn(p, s, copies, I, [k \in DOMAIN p.args[I] |-> Evaluate(p, s, input, copies, p.args[I][k])])

\* The phis of a block take their values together.
EnterBlock(p, s, input, copies) ==
  IF s.from = 0 THEN s
  ELSE [s EXCEPT !.env =
         [phi \in Phis(p, s.at) |-> Evaluate(p, s, input, copies, Incoming(p, phi, s.from))] @@ @]

RunBlock(p, s, input, copies) ==
  FoldLeft(LAMBDA t, I : IF t.status # "run" \/ IsPhi(p, I) THEN t
                         ELSE Execute(p, t, input, copies, I),
           EnterBlock(p, s, input, copies), p.body[s.at])

\* What a caller can observe of a function called with input.
Observed(end) ==
  [status |-> IF end.status = "run" THEN "slow" ELSE end.status,
   val |-> end.val, out |-> end.out]

Behaviour(p, input, copies, maxBlocks) ==
  Observed(FoldLeft(LAMBDA s, k : IF s.status = "run" THEN RunBlock(p, s, input, copies) ELSE s,
                    Start(p), [k \in 1..maxBlocks |-> k]))

\* A program that behaves like this is allowed anything, or this.
Allows(original, behaviour) ==
  original.status \in {"ub", "trap", "slow"} \/ behaviour = original

\* Program q may stand for p: it does what p does wherever p is defined.
Refines(q, p, inputs, copies, maxBlocks) ==
  \A input \in inputs :
    Allows(Behaviour(p, input, FALSE, maxBlocks), Behaviour(q, input, copies, maxBlocks))
=============================================================================
