------------------------------- MODULE ArithOpt -------------------------------
(***************************************************************************)
(* arith_opt.cpp: instructions are replaced by cheaper ones of the         *)
(* machine, one kind of instruction at a time, in sweeps over the function *)
(* until a sweep changes nothing.                                          *)
(***************************************************************************)
EXTENDS IRValues

CONSTANT MantissaBits       \* of a double

ASSUME ArithOptAssumption == MantissaBits \in Nat \ {0}

isSameConstant(v, w) == isConstantInt(v) /\ isConstantInt(w) /\ getZExtValue(v) = getZExtValue(w)

isValueInRange(v, min, max) ==
  IF getSExtValue(v) < 0 THEN getSExtValue(v) > min ELSE getSExtValue(v) < max

\* An integer as a double: rounded to the nearest, to even in the middle.
Double(n) ==
  LET unit == CHOOSE k \in 0..30 : n < 2^(k + MantissaBits) /\ (k = 0 \/ n >= 2^(k + MantissaBits - 1))
      q == n \div 2^unit
      twice == 2 * (n % 2^unit)
  IN  IF twice > 2^unit \/ (twice = 2^unit /\ q % 2 = 1) THEN (q + 1) * 2^unit ELSE q * 2^unit

\* c2Val == pow(2, bitWidth) - 1, computed with doubles.
IsAllOnes(c, w) == Double(c) = Double(Double(2^w) - 1)

-----------------------------------------------------------------------------
\* A rewriting is what I is replaced by: a value, or instructions put before it, the
\* last of which is the value.
Value(v)       == [value |-> v, code |-> <<>>]
Code(c)        == [value |-> NoValue, code |-> c]
Instruction(op, type, args, info) == [op |-> op, type |-> type, args |-> args, info |-> info]
Keep           == Value(NoValue)
Single(op, type, args, info) == Code(<<Instruction(op, type, args, info)>>)

\* IRBuilder folds what has constant operands only.
CreateMul(type, v, n) ==
  IF isConstantInt(v) THEN Value(Const(type, getZExtValue(v) * n))
                      ELSE Single("mul", type, <<v, Const(type, n)>>, "")

\* A chain of calls; an operand 0 stands for the instruction before.
Steps(callee, type, v, n) ==
  Code([k \in 1..n |-> Instruction("call", type, <<IF k = 1 THEN v ELSE NoValue>>, callee)])

Apply(p, I, r) ==
  LET add(q, c) ==
        LET before == FreshInst(q) - 1
        IN  Insert(q, I, c.op, c.type, [k \in DOMAIN c.args |-> IF c.args[k] = NoValue THEN before ELSE c.args[k]],
                   c.info)
      q == FoldLeft(add, p, r.code)
      v == IF r.code = <<>> THEN r.value ELSE FreshInst(q) - 1
  IN  IF r = Keep THEN p ELSE eraseInsts(replaceAllUsesWith(q, I, v), {I})

-----------------------------------------------------------------------------
SelectOfConstant(p, I) ==
  LET x == p.args[I]
  IN  CASE ~isConstantInt(x[1])       -> Keep
        [] getZExtValue(x[1]) = 1     -> Value(x[2])
        [] OTHER                      -> Value(x[3])

\* Both operands are the same value.
SameOperands(p, I, op, type, v) ==
  CASE op = "add"                                     -> CreateMul(type, v, 2)
    [] op \in {"sub", "urem", "srem", "xor"}          -> Value(Const(type, 0))
    [] op \in {"udiv", "sdiv"}                        -> Value(Const(type, 1))
    [] op \in {"and", "or"}                           -> Value(v)
    [] op = "icmp" -> Value(Const("i1", IF p.info[I] \in {"eq", "sge", "uge", "sle", "ule"} THEN 1 ELSE 0))
    [] OTHER                                          -> Keep

AddOf(type, v, w) ==
  LET c == IF isConstantInt(v) THEN v ELSE w
      x == IF c = v THEN w ELSE v
      n == getSExtValue(c)
  IN  CASE ~isConstantInt(c) \/ ~isValueInRange(c, -5, 5) -> Keep
        [] n = 0 -> Value(x)
        [] n < 0 -> Steps("decr", type, x, -n)
        [] OTHER -> Steps("incr", type, x, n)

SubOf(type, v, w) ==
  LET n == getSExtValue(w)
  IN  CASE ~isConstantInt(w) \/ ~isValueInRange(w, -5, 5) -> Keep
        [] n = 0 -> Value(v)
        [] n < 0 -> Steps("incr", type, v, -n)
        [] OTHER -> Steps("decr", type, v, n)

ShiftOf(op, type, v, w) ==
  LET n == getZExtValue(w)
  IN  CASE ~isConstantInt(w)                   -> Keep
        [] n = 0                               -> Value(v)
        [] op = "ashr"                         -> Keep
        [] n >= Bits(type)                     -> Value(Const(type, 0))
        [] op = "shl"                          -> CreateMul(type, v, 2^n)
        [] op = "lshr"                         -> Single("udiv", type, <<v, Const(type, 2^n)>>, "")

AndOf(type, v, w) ==
  LET c == getZExtValue(w)
  IN  CASE type = "i1"                         -> Single("mul", type, <<v, w>>, "")
        [] ~isConstantInt(w)                   -> Keep
        [] c = 0                               -> Value(w)
        [] IsAllOnes(c, Bits(type))            -> Value(v)
        [] (c + 1) & c = 0                     -> Single("urem", type, <<v, Const(type, c + 1)>>, "")
        [] OTHER                               -> Keep

TwoOperands(op, type, v, w) ==
  CASE isConstantInt(v) /\ isConstantInt(w)    -> Keep
    [] op = "add"                              -> AddOf(type, v, w)
    [] op = "sub"                              -> SubOf(type, v, w)
    [] op \in {"shl", "lshr", "ashr"}          -> ShiftOf(op, type, v, w)
    [] op = "and"                              -> AndOf(type, v, w)
    [] op = "or" /\ type = "i1"                -> Single("select", type, <<v, Const(type, 1), w>>, "")
    [] op = "xor" /\ type = "i1"               -> Single("icmp", type, <<v, w>>, "ne")
    [] OTHER                                   -> Keep

Rewriting(p, I) ==
  LET op == p.kind[I]
      x  == p.args[I]
      type == TypeOf(p, x[1])
  IN  CASE op \in Terminators \cup {"phi", "call"} -> Keep
        [] op = "select"                           -> SelectOfConstant(p, I)
        [] Len(x) # 2 \/ type = "ptr"              -> Keep
        [] x[1] = x[2] \/ isSameConstant(x[1], x[2]) -> SameOperands(p, I, op, type, x[1])
        [] OTHER                                   -> TwoOperands(op, type, x[1], x[2])

insertInstBeforeThis(p, I) == Apply(p, I, Rewriting(p, I))

\* One sweep; what it inserts is looked at in the next.
ArithSweep(p) == FoldLeft(insertInstBeforeThis, p, InstSeq(p))
=============================================================================
