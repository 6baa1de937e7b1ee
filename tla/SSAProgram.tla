----------------------------- MODULE SSAProgram -----------------------------
(***************************************************************************)
(* LLVM functions as the last back-end stages see them: lists of           *)
(* instructions grouped in basic blocks, whose operands are instructions,  *)
(* constants or values that never live in an allocatable register, and phi *)
(* nodes with one incoming value per predecessor edge.  Opcodes are kept   *)
(* only as far as analysis.cpp tells them apart:                           *)
(*                                                                         *)
(*   "phi"   llvm::PHINode                                                 *)
(*   "move"  the MoveInsts set: bitcast, ptrtoint, inttoptr, zext, trunc   *)
(*   "noreg" a store: no result, not a terminator                          *)
(*   "term"  br, switch, ret: no result, ends its block                    *)
(*   "sp"    the call of $decr_sp, which lives in the stack pointer        *)
(*   "const" a call of const_i64 with a literal operand                    *)
(*   "op"    every other instruction; it defines a register                *)
(*                                                                         *)
(* An operand is an instruction (a positive number), NoValue for a         *)
(* function argument, or -k for the k-th constant of Pool.                 *)
(*                                                                         *)
(* A program is a record                                                   *)
(*   body  : the instructions of every block, in order; block 1 is entry   *)
(*   succ  : the successors of every block                                 *)
(*   kind, args, type : opcode class, operands and type of an instruction  *)
(*   from  : for a phi, the incoming block of each operand; else <<>>      *)
(*   cmap  : what ConstMap has materialised in it: constant |-> instruction*)
(***************************************************************************)
EXTENDS Integers, Sequences, FiniteSets, Functions, SequencesExt

NoValue   == 0
IsInst(v) == v > 0

\* The constants operands may name. The copies the passes insert multiply by 1.
Pool == <<[type |-> "i64", value |-> 1], [type |-> "i32", value |-> 1],
          [type |-> "v4i64", value |-> 1], [type |-> "v8i32", value |-> 1],
          [type |-> "i64", value |-> 16], [type |-> "i32", value |-> 16]>>

One(type) == -(CHOOSE k \in DOMAIN Pool : Pool[k] = [type |-> type, value |-> 1])

Insts(p)  == DOMAIN p.kind
Blocks(p) == DOMAIN p.body

BlockOf(p, I) == CHOOSE b \in Blocks(p) : Contains(p.body[b], I)

IndexOf(p, I) ==
  LET b == p.body[BlockOf(p, I)] IN CHOOSE k \in DOMAIN b : b[k] = I

getTerminator(p, b) == Last(p.body[b])

\* llvm::Instruction::getNextNode: the next instruction of the same block.
getNextNode(p, I) ==
  LET b == p.body[BlockOf(p, I)]
      k == IndexOf(p, I)
  IN  IF k < Len(b) THEN b[k + 1] ELSE NoValue

IsPhi(p, I)  == p.kind[I] = "phi"
PhiSeq(p, b) == SelectSeq(p.body[b], LAMBDA I : IsPhi(p, I))
Phis(p, b)   == {I \in Range(p.body[b]) : IsPhi(p, I)}

getFirstNonPHI(p, b) ==
  p.body[b][CHOOSE k \in DOMAIN p.body[b] :
              ~IsPhi(p, p.body[b][k]) /\ \A j \in 1..(k - 1) : IsPhi(p, p.body[b][j])]

Operands(p, I) == {v \in Range(p.args[I]) : IsInst(v)}

\* PHINode::getIncomingValueForBlock: the first operand that arrives from b.
Incoming(p, phi, b) ==
  p.args[phi][Min({k \in DOMAIN p.from[phi] : p.from[phi][k] = b})]

isMoveInst(p, v) == v \in Insts(p) /\ p.kind[v] = "move"

\* The value a chain of moves copies: every client of analysis.cpp repeats the
\* loop  while (isMoveInst(v)) v = v->getOperand(0).
Root(p, v) ==
  LET root[w \in Int] == IF isMoveInst(p, w) THEN root[p.args[w][1]] ELSE w
  IN  root[v]

\* Does v occupy an allocatable register, itself or through a chain of moves?
isReg(p, v) ==
  LET r == Root(p, v) IN r \in Insts(p) /\ p.kind[r] \in {"op", "const", "phi"}

Regs(p) == {I \in Insts(p) : isReg(p, I)}

-----------------------------------------------------------------------------
\* Edits of a function.

Newest(p)    == Max(Insts(p))
FreshInst(p) == Max(Insts(p)) + 1

\* f with x for one more element of its domain.
Extended(f, I, x) == [J \in DOMAIN f \cup {I} |-> IF J \in DOMAIN f THEN f[J] ELSE x]

\* Insert a new instruction before t.
InsertBefore(p, t, I, kind, args, type) ==
  LET b == BlockOf(p, t)
  IN  [p EXCEPT !.body[b] = InsertAt(@, IndexOf(p, t), I),
                !.kind  = Extended(@, I, kind),
                !.args  = Extended(@, I, args),
                !.type  = Extended(@, I, type),
                !.from  = Extended(@, I, <<>>)]

setIncomingValue(p, phi, i, v) == [p EXCEPT !.args[phi][i] = v]

-----------------------------------------------------------------------------
\* Control flow.

\* f applied n times to x.
Iterate(f, x, n) ==
  LET iterate[k \in 0..n] == IF k = 0 THEN x ELSE f[iterate[k - 1]]
  IN  iterate[n]

\* The blocks control can come to from the blocks in S, S included.
Forward(succ) ==
  [S \in SUBSET DOMAIN succ |-> S \cup UNION {Range(succ[b]) : b \in S}]

Reached(succ, S) == Iterate(Forward(succ), S, Cardinality(DOMAIN succ))

ReachableFrom(p, S) == Reached(p.succ, S)

\* llvm::isPotentiallyReachable(entry, b)
isPotentiallyReachable(p, b) == b \in ReachableFrom(p, {1})

\* The edges of the control-flow graph but for those that leave block a.
NotThrough(p, a) == [c \in Blocks(p) |-> IF c = a THEN <<>> ELSE p.succ[c]]

\* a dominates b: no path of the control-flow graph reaches b without a.
Dominates(p, a, b) == a = b \/ a = 1 \/ b \notin Reached(NotThrough(p, a), {1})

\* The definition of v is executed on every path that reaches instruction I.
DefDominates(p, v, I) ==
  IF BlockOf(p, v) = BlockOf(p, I) THEN IndexOf(p, v) < IndexOf(p, I)
                                   ELSE Dominates(p, BlockOf(p, v), BlockOf(p, I))

\* "term" stands for all of them where their differences do not matter.
Terminators == {"term", "br", "switch", "ret", "unreachable"}

\* The SSA rules LLVM's verifier enforces on everything the back end is given:
\* no edge leads into the entry block and no phi stands in it, a phi has exactly
\* one operand per predecessor, phis head their blocks, terminators end them and
\* stand nowhere else, and definitions dominate their uses.
WellFormed(p) ==
  /\ Phis(p, 1) = {} /\ \A b \in Blocks(p) : 1 \notin Range(p.succ[b])
  /\ \A b \in Blocks(p) :
       /\ p.kind[getTerminator(p, b)] \in Terminators
       /\ \A k \in 1..(Len(p.body[b]) - 1) : p.kind[p.body[b][k]] \notin Terminators
       /\ \A k \in DOMAIN p.body[b] : IsPhi(p, p.body[b][k]) =>
            \A j \in 1..k : IsPhi(p, p.body[b][j])
       /\ \A phi \in Phis(p, b) :
            Range(p.from[phi]) = {c \in Blocks(p) : b \in Range(p.succ[c])}
  /\ \A I \in Insts(p) :
       IF IsPhi(p, I)
       THEN \A k \in DOMAIN p.args[I] :
              LET v == p.args[I][k] IN
              \/ ~IsInst(v)
              \/ ~isPotentiallyReachable(p, p.from[I][k])
              \/ BlockOf(p, v) = p.from[I][k]
              \/ Dominates(p, BlockOf(p, v), p.from[I][k])
       ELSE \A v \in Operands(p, I) :
              DefDominates(p, v, I) \/ ~isPotentiallyReachable(p, BlockOf(p, I))

\* The representation: every instruction stands at one place of one block, every block
\* ends with an instruction that is no phi and has its phis in front, successors are
\* blocks and operands instructions of the function, and a phi has an operand for every
\* edge into its block.
IsFunction(p) ==
  /\ IsFiniteSet(Insts(p)) /\ \A I \in Insts(p) : I \in Nat /\ IsInst(I)
  /\ p.body \in Seq(Seq(Insts(p))) /\ p.body # <<>>
  /\ p.succ \in [Blocks(p) -> Seq(Blocks(p))]
  /\ \A I \in Insts(p) : \E b \in Blocks(p) : \E k \in DOMAIN p.body[b] : p.body[b][k] = I
  /\ \A b, c \in Blocks(p) : \A j \in DOMAIN p.body[b], k \in DOMAIN p.body[c] :
       p.body[b][j] = p.body[c][k] => b = c /\ j = k
  /\ \A b \in Blocks(p) :
       /\ p.body[b] # <<>> /\ ~IsPhi(p, getTerminator(p, b))
       /\ \A k \in DOMAIN p.body[b] : IsPhi(p, p.body[b][k]) =>
            \A j \in 1..k : IsPhi(p, p.body[b][j])
  /\ \A I \in Insts(p) : Operands(p, I) \subseteq Insts(p)
  /\ \A b \in Blocks(p) : \A phi \in Phis(p, b) :
       /\ p.from[phi] \in Seq(Blocks(p)) /\ DOMAIN p.args[phi] = DOMAIN p.from[phi]
       /\ \A c \in Blocks(p) : b \in Range(p.succ[c]) => c \in Range(p.from[phi])

\* Every chain of moves ends, also in blocks that cannot be reached, where LLVM's verifier
\* does not ask that definitions dominate their uses: from the instructions that are no
\* moves, one gets to all moves by going from what a move copies to the move.
CopiesOf(p) ==
  [S \in SUBSET Insts(p) |->
     S \cup {I \in Insts(p) : isMoveInst(p, I) /\ p.args[I][1] \notin Insts(p) \ S}]

MovesEnd(p) ==
  /\ \A I \in Insts(p) : isMoveInst(p, I) => p.args[I] # <<>> /\ p.args[I][1] \in Int
  /\ Iterate(CopiesOf(p), {I \in Insts(p) : ~isMoveInst(p, I)}, Cardinality(Insts(p))) = Insts(p)

\* The fields of the record; what is in a register has a type of values.
ValueTypes == {"i32", "i64", "ptr", "v4i64", "v8i32"}

HasFields(p) ==
  /\ {"body", "succ", "kind", "args", "from", "type", "cmap"} \subseteq DOMAIN p
  /\ DOMAIN p.args = Insts(p) /\ DOMAIN p.from = Insts(p) /\ DOMAIN p.type = Insts(p)
  /\ \A I \in Insts(p) : p.args[I] \in Seq(Int)
  /\ \A I \in Regs(p) : p.type[I] \in ValueTypes

\* A function in SSA form.
Sound(p) == IsFunction(p) /\ WellFormed(p) /\ MovesEnd(p) /\ HasFields(p)

-----------------------------------------------------------------------------
\* What phi_preprocess.cpp establishes before registers are allocated, in the
\* words of its comments.

AllPhis(p) == {I \in Insts(p) : IsPhi(p, I)}

\* "All incoming values of phi node becomes a register instruction."
IncomingInRegisters(p) == \A phi \in AllPhis(p) : \A v \in Range(p.args[phi]) : isReg(p, v)

\* "No two phi nodes share operands": no value reaches phis by two operands,
\* be it through moves.
NoSharedOperands(p) ==
  \A phi, psi \in AllPhis(p) : \A i \in DOMAIN p.args[phi], j \in DOMAIN p.args[psi] :
    Root(p, p.args[phi][i]) = Root(p, p.args[psi][j]) => <<phi, i>> = <<psi, j>>

\* "No incoming value of phi node is phi node."
NoPhiFeedsPhi(p) ==
  \A phi \in AllPhis(p) : \A v \in Range(p.args[phi]) : ~IsPhi(p, Root(p, v))

\* The two that concern operands rather than what they copy.
PhisReadRegisters(p) ==
  \A phi \in AllPhis(p) : \A v \in Range(p.args[phi]) : v \in Insts(p) /\ ~IsPhi(p, v)

\* What is in the cache of constants stands where every block can have it.
ConstantsAtHand(p) ==
  \A c \in DOMAIN p.cmap : LET I == p.cmap[c] IN
    I \in Insts(p) /\ BlockOf(p, I) = 1 /\ I # getTerminator(p, 1)

\* What registers are allocated for.
Ready(p) ==
  /\ Sound(p) /\ ConstantsAtHand(p)
  /\ PhisReadRegisters(p) /\ IncomingInRegisters(p) /\ NoSharedOperands(p) /\ NoPhiFeedsPhi(p)
=============================================================================
