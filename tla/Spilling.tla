------------------------------- MODULE Spilling -----------------------------
(***************************************************************************)
(* spillColors, insertLoadStore and insertVectorLoadStore of               *)
(* register_allocate.cpp, as functions of the program being allocated: all *)
(* values of one colour get one stack slot, each is stored after its       *)
(* definition and loaded in front of each use.                             *)
(*                                                                         *)
(* Besides the fields of SSAProgram the program has                        *)
(*   frame  : the literal operand of the $decr_sp spillColors made; -1 when*)
(*            it has not made one                                          *)
(*   slot   : store or load of a spilled value |-> offset of its slot      *)
(*   reload : load of a spilled value |-> that value                       *)
(*   noSpill: the set not_spill                                            *)
(***************************************************************************)
EXTENDS SSAProgram

\* Insert an instruction that is never spilled itself before t.
EmitSpillable(p, t, kind, args, type) == InsertBefore(p, t, FreshInst(p), kind, args, type)
Emit(p, t, kind, args, type) ==
  LET I == FreshInst(p)
  IN  [InsertBefore(p, t, I, kind, args, type) EXCEPT !.noSpill = @ \cup {I}]

\* Users read v through an operand; phis and moves do not count.
Users(p, v) ==
  {u \in Insts(p) : v \in Operands(p, u) /\ p.kind[u] \notin {"phi", "move"}}

\* Is a value of the set worth something to spill? The cost of a colour weighs its
\* stores and loads by trip counts; all that matters here is that it is not 0.
Stored(p, I) == I \notin p.noSpill /\ p.kind[I] \notin {"move", "phi"}
HasCost(p, S) == \E I \in S \ p.noSpill : Stored(p, I) \/ Users(p, I) # {}

\* The $decr_sp of the entry block, made when there is none.
StackPointers(p) == {I \in ToSet(p.body[1]) : p.kind[I] = "sp"}
StackPointerLast(p) ==
  IF StackPointers(p) # {} THEN p
  ELSE [Emit(p, getTerminator(p, 1), "sp", <<>>, "i64") EXCEPT !.frame = 0]
WithStackPointer(p) ==
  IF StackPointers(p) # {} THEN p
  ELSE [Emit(p, getFirstNonPHI(p, 1), "sp", <<>>, "i64") EXCEPT !.frame = 0]
StackPointer(p) == p.body[1][Min({k \in DOMAIN p.body[1] : p.kind[p.body[1][k]] = "sp"})]

\* dyn_cast<ConstantInt>(SP->getArgOperand(0)) is null for a $decr_sp that comes
\* from alloca elimination: ConstantSplit has replaced its literal.
LiteralFrame(p) == p.frame >= 0

\* The address SP + acc, computed before t; it is the newest instruction.
Address(p, t, acc) ==
  LET sp == StackPointer(p)
      c  == Emit(p, t, "const", <<>>, "i64")
      a  == Emit(c, t, "op", <<sp, Newest(c)>>, "i64")
  IN  IF acc = 0 THEN Emit(p, t, "move", <<sp>>, "ptr")
                 ELSE Emit(a, t, "move", <<Newest(a)>>, "ptr")

\* The width a spilled value has in memory: a vector its own, all else 64 bits.
IsWide(type) == type \in {"i64", "v4i64", "v8i32"}

StoreAfter(p, I, acc) ==
  LET t == getNextNode(p, I)
      q == Address(p, t, acc)
      w == IF IsWide(p.type[I]) THEN q ELSE Emit(q, t, "move", <<I>>, "i64")
      V == IF IsWide(p.type[I]) THEN I ELSE Newest(w)
      s == Emit(w, t, "noreg", <<V, Newest(q)>>, "void")
  IN  [s EXCEPT !.slot = Extended(@, Newest(s), acc)]

LoadBefore(p, u, k, acc) ==
  LET I == p.args[u][k]
      q == Address(p, u, acc)
      l == Emit(q, u, "op", <<Newest(q)>>, IF IsWide(p.type[I]) THEN p.type[I] ELSE "i64")
      w == IF IsWide(p.type[I]) THEN l ELSE Emit(l, u, "move", <<Newest(l)>>, p.type[I])
  IN  [w EXCEPT !.slot = Extended(@, Newest(l), acc),
                !.reload = Extended(@, Newest(l), I),
                !.args[u][k] = Newest(w)]

\* The operands that read a value of the set, as user and operand number.
Uses(p, S) ==
  UNION {{<<u, k>> : k \in {j \in DOMAIN p.args[u] : p.args[u][j] \in S}} :
           u \in UNION {Users(p, v) : v \in S}}

\* insertLoadStore and insertVectorLoadStore for the values in S; bytes is the size
\* each of them adds to the frame. Every store and every load has a place of its own,
\* so that it is all one in which order the stores and then the loads are made.
InsertLoadStore(p, S, bytes) ==
  LET chosen == S \ p.noSpill
      stores == {I \in chosen : Stored(p, I)}
      loads  == Uses(p, chosen)
      acc    == p.frame
      q1 == [p EXCEPT !.noSpill = @ \cup chosen, !.frame = acc + bytes * Cardinality(stores)]
      q2 == FoldSet(LAMBDA I, q : StoreAfter(q, I, acc), q1, stores)
  IN  FoldSet(LAMBDA x, q : LoadBefore(q, x[1], x[2], acc), q2, loads)

\* spillColors once the colours are chosen: the values of one general colour and
\* those of one vector colour.
NarrowSlots(p, general, vector) ==
  InsertLoadStore(InsertLoadStore(WithStackPointer(p), general, 4), vector, 8)
FrozenFrame(p, general, vector) ==
  InsertLoadStore(InsertLoadStore(WithStackPointer(p), general, 0), vector, 0)
SpillColors(p, general, vector) ==
  InsertLoadStore(InsertLoadStore(WithStackPointer(p), general, 8), vector, 32)
=============================================================================
