---------------------------- MODULE RegisterMachine -------------------------
(***************************************************************************)
(* What the emitted program does with its registers, as far as the choice  *)
(* of registers can break it.  The machine has no values, only the names   *)
(* of the SSA values each place holds at the moment: executing v makes     *)
(* v's register hold v and nothing else.  The emitter writes no code for   *)
(* moves and phis -- a move has its operand's register (recursivelyInsert- *)
(* Symbols) and a phi the registers of its operands (propagatePHINode-     *)
(* Colors) -- so here they only give what a place holds another name.      *)
(***************************************************************************)
EXTENDS SSAProgram

VARIABLES
  prog,      \* the function after register allocation
  place,     \* its values |-> their registers, <<>> for values in none
  at,        \* the instruction to be executed next; phis belong to edges
  holds      \* the values each register and spill slot holds

Slot(n) == <<"slot", n>>

Places == {place[I] : I \in {J \in Insts(prog) : place[J] # <<>>}}
            \cup {Slot(prog.slot[I]) : I \in DOMAIN prog.slot}

StartMachine == at = NoValue /\ holds = <<>>

Enter ==
  /\ at = NoValue
  /\ at' = getFirstNonPHI(prog, 1)
  /\ holds' = [q \in Places |-> {}]

\* After I the values in `names' are in q; a copy of I left anywhere is an old one.
Write(I, q, names) ==
  holds' = [r \in Places |-> IF r = q THEN names ELSE holds[r] \ {I}]

\* A move gives the value v another name, wherever v is.
ExecuteMove ==
  /\ at # NoValue /\ prog.kind[at] = "move"
  /\ at' = getNextNode(prog, at)
  /\ LET v == prog.args[at][1] IN
     holds' = [r \in Places |-> IF v \in holds[r] THEN holds[r] \cup {at} ELSE holds[r] \ {at}]

ExecuteDefinition ==
  /\ at # NoValue /\ prog.kind[at] \in {"op", "const"}
  /\ at' = getNextNode(prog, at)
  /\ Write(at, place[at], {at})

\* Stores, of which only those to spill slots matter, and $decr_sp.
ExecuteStore ==
  /\ at # NoValue /\ prog.kind[at] \in {"noreg", "sp"}
  /\ at' = getNextNode(prog, at)
  /\ IF at \in DOMAIN prog.slot
     THEN Write(at, Slot(prog.slot[at]), holds[place[prog.args[at][1]]])
     ELSE UNCHANGED holds

\* On the edge from b to s the phis of s become names of their incoming values.
ExecuteBranch ==
  /\ at # NoValue /\ prog.kind[at] = "term"
  /\ LET b == BlockOf(prog, at) IN
     \E s \in Range(prog.succ[b]) :
       /\ at' = getFirstNonPHI(prog, s)
       /\ holds' = [r \in Places |->
            (holds[r] \ Phis(prog, s))
              \cup {phi \in Phis(prog, s) : Incoming(prog, phi, b) \in holds[r]}]

MachineNext == Enter \/ ExecuteMove \/ ExecuteDefinition \/ ExecuteStore \/ ExecuteBranch

\* Every register the next instruction reads holds the operand the instruction names.
OperandsInRegisters ==
  at # NoValue /\ prog.kind[at] # "move" =>
    \A v \in Operands(prog, at) : place[v] # <<>> => v \in holds[place[v]]

\* A reload finds the spilled value in its slot.
ReloadsFindValues ==
  at # NoValue /\ at \in DOMAIN prog.reload => prog.reload[at] \in holds[Slot(prog.slot[at])]

ReadsItsOperands == OperandsInRegisters /\ ReloadsFindValues
=============================================================================
