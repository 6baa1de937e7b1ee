--------------------------- MODULE PrepareFunction --------------------------
(***************************************************************************)
(* The second stage of emitAssembly for one function: PHIPreprocess, then  *)
(* ConstantSplit with the cache of constants the allocator will go on      *)
(* using.  A step handles one operand of one phi in one of the three       *)
(* passes of the former, or one instruction in the latter.                 *)
(***************************************************************************)
EXTENDS PhiPreprocess, ConstantSplit

VARIABLES
  given,      \* the function the stage starts with; for the properties
  prog,       \* the function being rewritten
  pass,       \* of PHIPreprocess: 1, 2, 3; 4 when it is done
  operands,   \* operands <<phi, i>> the current pass has still to look at
  visit,      \* the values pass 2 has met
  handed,     \* the function ConstantSplit starts with; <<>> before it does
  todo        \* the instructions its loops have still to visit

stageVars == <<given, prog, pass, operands, visit, handed, todo>>

Start(p) ==
  /\ given = p /\ prog = p
  /\ pass = 1 /\ operands = PhiOperands(p) /\ visit = {}
  /\ handed = <<>> /\ todo = <<>>

HandleOperand ==
  /\ pass <= 3 /\ operands # <<>>
  /\ LET r == Prepare(pass, prog, visit, operands[1][1], operands[1][2])
     IN  prog' = r[1] /\ visit' = r[2]
  /\ operands' = Tail(operands)
  /\ UNCHANGED <<given, pass, handed, todo>>

NextPass ==
  /\ pass <= 3 /\ operands = <<>>
  /\ pass' = pass + 1
  /\ operands' = IF pass < 3 THEN PhiOperands(prog) ELSE <<>>
  /\ UNCHANGED <<given, prog, visit, handed, todo>>

\* MPM.addPass(ConstantSplitPass(CM)). Instructions are inserted before the one being
\* visited, so the loops see those the function had to begin with.
BeginSplit ==
  /\ pass = 4 /\ handed = <<>>
  /\ handed' = prog
  /\ todo' = FlattenSeq(prog.body)
  /\ UNCHANGED <<given, prog, pass, operands, visit>>

VisitInstruction ==
  /\ todo # <<>>
  /\ prog' = SplitInstruction(prog, Head(todo))
  /\ todo' = Tail(todo)
  /\ UNCHANGED <<given, pass, operands, visit, handed>>

StageNext == HandleOperand \/ NextPass \/ BeginSplit \/ VisitInstruction

\* What the stage may be called with: a function in SSA form whose values have types of
\* values and whose operands are values or constants of the pool, and an empty cache.
Constants == {-k : k \in DOMAIN Pool}

Preparable(p) ==
  /\ Sound(p) /\ DOMAIN p.cmap = {}
  /\ \A I \in Insts(p) :
       /\ p.kind[I] \in {"phi", "move", "op", "const"} => p.type[I] \in ValueTypes
       /\ \A k \in DOMAIN p.args[I] :
            LET v == p.args[I][k]
            IN  IF IsInst(v) THEN p.kind[v] \notin Terminators ELSE v = NoValue \/ v \in Constants

Spec == Preparable(given) /\ Start(given) /\ [][StageNext]_stageVars

Splitting == handed # <<>>

-----------------------------------------------------------------------------
\* Properties.

\* The variables keep their types: the operands still to be looked at are operands of
\* phis, both passes only add instructions to the function they were given, and the cache
\* only maps constants to instructions ConstantSplit inserted.
TypeOK ==
  /\ pass \in 1..4
  /\ \A k \in DOMAIN operands :
       IsPhi(prog, operands[k][1]) /\ operands[k][2] \in DOMAIN prog.args[operands[k][1]]
  /\ visit \subseteq Insts(prog)
  /\ Insts(given) \subseteq Insts(prog)
  /\ DOMAIN prog.type = Insts(prog) /\ DOMAIN prog.args = Insts(prog)
  /\ Splitting =>
       /\ Range(todo) \subseteq Insts(handed) /\ Insts(handed) \subseteq Insts(prog)
       /\ DOMAIN prog.cmap \subseteq Constants
       /\ Range(prog.cmap) \subseteq Insts(prog) \ Insts(handed)

\* Every intermediate function is legal SSA: a copy sits where the value it copies is
\* defined and on the edge that feeds the phi, and although one instruction serves
\* every use of a constant in the function, it dominates them all.
StaysSSA == WellFormed(prog)

\* When the three passes over the phis are over, what each of their comments promises
\* holds, also for the copies the later passes made, and ConstantSplit leaves it so:
\* every incoming value is in a register, no two phi operands share one (seen
\* through moves), and none is a phi.
PhisPrepared ==
  pass = 4 => IncomingInRegisters(prog) /\ NoSharedOperands(prog) /\ NoPhiFeedsPhi(prog)

\* The value v, undoing the copies and casts PHIPreprocess inserted.
Original(v) ==
  LET strip[w \in Int] ==
        IF w \in Insts(prog) \ Insts(given) THEN strip[prog.args[w][1]] ELSE w
  IN  strip[v]

\* A phi still receives, along every edge, the value it received before.
PhisKeepValues ==
  \A phi \in AllPhis(given) : \A i \in DOMAIN given.args[phi] :
    /\ Original(prog.args[phi][i]) = given.args[phi][i]
    /\ IsInst(prog.args[phi][i]) /\ prog.args[phi][i] \notin Insts(given)
         => prog.type[prog.args[phi][i]] = given.type[phi]

\* The constant an instruction ConstantSplit inserted computes: the literal of const_i64,
\* cut to the type of the truncation or broadcast to the lanes of the vector.
Computes(I) ==
  LET literal[J \in Insts(prog) \ Insts(handed)] ==
        IF prog.kind[J] = "const" THEN Pool[-prog.args[J][1]].value ELSE literal[prog.args[J][1]]
  IN  [type |-> prog.type[I], value |-> literal[I]]

\* Each operand visited so far still has its value: instructions and arguments
\* are kept, a constant is replaced by an instruction that computes it.
OperandsKeepValues ==
  \A I \in Insts(handed) : \A k \in DOMAIN handed.args[I] :
    LET was == handed.args[I][k]
        is  == prog.args[I][k]
    IN  \/ is = was /\ (IsConstant(was) => Contains(todo, I) \/ handed.kind[I] = "const")
        \/ /\ IsConstant(was) /\ ~Contains(todo, I)
           /\ is \in Insts(prog) \ Insts(handed)
           /\ Computes(is) = Pool[-was]

\* A phi still receives, along every edge, the value it received before; and each
\* operand ConstantSplit has visited still has its value: a constant is replaced by an
\* instruction that computes it, at its type.
ValuesKept == IF Splitting THEN OperandsKeepValues ELSE PhisKeepValues

\* The constants of the copies and of the function itself share their instructions:
\* none is materialised twice.
NoDuplicateConstants ==
  Splitting => \A I, J \in Insts(prog) \ Insts(handed) : Computes(I) = Computes(J) => I = J
=============================================================================
