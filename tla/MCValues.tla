------------------------------- MODULE MCValues ------------------------------
(***************************************************************************)
(* How functions with values are written for TLC.  An instruction is       *)
(* <<opcode, type, operands, info>>, a phi <<"phi", type, values, blocks>>.*)
(***************************************************************************)
EXTENDS IRValues

\* A function from its blocks, their successors and its instructions.
Function(name, params, body, succ, code) ==
  LET isPhi(I) == code[I][1] = "phi"
  IN  [name |-> name, params |-> params, gvs |-> <<>>, ces |-> <<>>, body |-> body, succ |-> succ,
       kind |-> [I \in DOMAIN code |-> code[I][1]],
       type |-> [I \in DOMAIN code |-> code[I][2]],
       args |-> [I \in DOMAIN code |-> code[I][3]],
       from |-> [I \in DOMAIN code |-> IF isPhi(I) THEN code[I][4] ELSE <<>>],
       info |-> [I \in DOMAIN code |-> IF isPhi(I) THEN "" ELSE code[I][4]]]

\* One block.
Straight(name, params, code) ==
  Function(name, params, <<[I \in DOMAIN code |-> I]>>, <<<<>>>>, code)

With(p, gvs, ces) == [p EXCEPT !.gvs = gvs, !.ces = ces]

Op(op, type, a, b)   == <<op, type, <<a, b>>, "">>
Conv(op, type, v)    == <<op, type, <<v>>, "">>
Icmp(pred, a, b)     == <<"icmp", "i1", <<a, b>>, pred>>
Select(type, c, a, b) == <<"select", type, <<c, a, b>>, "">>
AllocaOf(ty, n)      == <<"alloca", "ptr", <<n>>, ty>>
GEP(ty, v, indices)  == <<"getelementptr", "ptr", <<v>> \o indices, ty>>
LoadFrom(type, v)    == <<"load", type, <<v>>, "">>
StoreTo(v, q)        == <<"store", "void", <<v, q>>, "">>
CallOf(f, type, args) == <<"call", type, args, f>>
Ret(v)               == <<"ret", "void", <<v>>, "">>
Br                   == <<"br", "void", <<>>, "">>
BrIf(c)              == <<"br", "void", <<c>>, "">>
Phi(type, args, from) == <<"phi", type, args, from>>

Expression(kind, type, args, info) == [kind |-> kind, type |-> type, args |-> args, info |-> info]
=============================================================================
