------------------------------- MODULE MCEmitter -----------------------------
(***************************************************************************)
(* Emitter for TLC: small modules for each visitor, with registers handed  *)
(* out first-fit, in several orders, to what is live together.             *)
(***************************************************************************)
EXTENDS Emitter, MCValues

CONSTANT Family

-----------------------------------------------------------------------------
\* Registers.  The copies that feed a phi share its register: together they are a web.
RootOf(p, v) ==
  LET root[w \in Int] == IF IsInst(w) /\ p.kind[w] \in MoveOps THEN root[p.args[w][1]] ELSE w
  IN  root[v]

Web(p, v) ==
  LET r == RootOf(p, v)
      phis == {phi \in Insts(p) : p.kind[phi] = "phi" /\ r \in {RootOf(p, w) : w \in Range(p.args[phi])}}
  IN  IF phis = {} THEN r ELSE CHOOSE phi \in phis : TRUE

InRegister(p, I) ==
  /\ p.type[I] # "void" /\ p.kind[I] \notin MoveOps
  /\ ~(p.kind[I] = "call" /\ p.info[I] = "$decr_sp")

Webs(p) == {Web(p, I) : I \in {J \in Insts(p) : InRegister(p, J)}}

Following(p, I) ==
  LET n == getNextNode(p, I)
  IN  IF n # NoValue THEN {n} ELSE {p.body[c][1] : c \in Range(p.succ[BlockOf(p, I)])}

Reads(p, I, w) ==
  p.kind[I] \notin {"phi"} /\ w \in {Web(p, v) : v \in {u \in Range(p.args[I]) : IsInst(u)}}
Writes(p, I, w) == p.kind[I] # "phi" /\ InRegister(p, I) /\ Web(p, I) = w

\* The instructions before which w is live.
LiveAt(p, w) ==
  LET live[k \in 0..Cardinality(Insts(p))] ==
        IF k = 0 THEN {I \in Insts(p) : Reads(p, I, w)}
        ELSE LET later == live[k - 1]
             IN  later \cup {I \in Insts(p) : ~Writes(p, I, w) /\ Following(p, I) \cap later # {}}
  IN  live[Cardinality(Insts(p))]

Apart(p, u, w) ==
  \E I \in Insts(p) : \/ Writes(p, I, u) /\ Following(p, I) \cap LiveAt(p, w) # {}
                      \/ Writes(p, I, w) /\ Following(p, I) \cap LiveAt(p, u) # {}

\* Registers in the order in which they are tried; the machine has the ones from 16 on
\* for scalars only.
Orders == {<<1, 2, 3, 4, 5, 6, 8, 9>>, <<16, 2, 15, 3, 14, 4, 13, 5>>, <<9, 1, 16, 8, 2, 12, 3, 11>>}
Numbering(p, order) == IF \E I \in Insts(p) : IsVector(p.type[I]) THEN order
                       ELSE [k \in DOMAIN order |-> 2 * order[k]]

Coloring(p, order) ==
  LET file(w) == IF IsVector(p.type[w]) THEN "v" ELSE "r"
      give(c, w) ==
        LET taken == {c[u] : u \in {x \in DOMAIN c : Apart(p, x, w)}}
            free == SelectSeq(Numbering(p, order), LAMBDA r : <<file(w), r>> \notin taken)
        IN  c @@ (w :> <<file(w), free[1]>>)
      webs == FoldLeft(give, <<>>, SetToSortSeq(Webs(p), <))
  IN  [I \in {J \in Insts(p) : InRegister(p, J)} |-> webs[Web(p, I)]]

Colorings(p) == {Coloring(p, order) : order \in Orders}

-----------------------------------------------------------------------------
\* Modules.

Body(p)      == p @@ [declared |-> FALSE, tail |-> {}, names |-> [b \in Blocks(p) |-> Unnamed]]
Named(p, names) == [p EXCEPT !.names = names]
Declaration(name) == [name |-> name, params |-> <<>>, declared |-> TRUE]

One64 == Const("i64", 1)
I64(n) == <<"intrinsic", "i64", <<Const("i64", n)>>, <<"const", "i64">>>>
Copy(v, one) == Op("mul", "i64", v, one)
Intrinsic(name, type, args) == <<"intrinsic", type, args, name>>

A == Arg(1)   B == Arg(2)
Two == <<"i64", "i64">>
Words2 == <<"ptr", "i64">>

Scalars ==
  {Straight("f", <<t, t>>,
     <<Op(op, t, A, B), Op("sub", t, B, 1), Icmp(pred, 1, B), Select(t, 3, 2, A), Ret(4)>>) :
     op \in IntOps, t \in {"i8", "i64"}, pred \in {"eq", "sgt"}}
    \cup {Straight("f", Two, <<Icmp(pred, A, B), Ret(1)>>) :
            pred \in {"ne", "ugt", "uge", "ult", "ule", "sge", "slt", "sle"}}

Conversions ==
  {Straight("f", Two, <<Op("add", "i64", A, B), Conv("trunc", "i32", 1), Op("udiv", "i32", 2, 2),
                        Conv("zext", "i64", 3), Conv("bitcast", "i64", A), Op("sub", "i64", 4, 5), Ret(6)>>)}

Branching ==
  {Function("f", Two, <<<<1, 2, 3>>, <<4, 5>>, <<6, 7>>, <<8, 9>>>>, <<<<2, 3>>, <<4>>, <<4>>, <<>>>>,
     <<I64(1), Icmp("ult", A, B), BrIf(2), Copy(A, 1), Br, Copy(B, 1), Br,
       Phi("i64", <<4, 6>>, <<2, 3>>), Ret(8)>>)}

Looping ==
  {Function("f", Two, <<<<1, 2, 3>>, <<4, 5, 6, 7, 8>>, <<9>>>>, <<<<2>>, <<2, 3>>, <<>>>>,
     <<I64(1), Copy(A, 1), Br, Phi("i64", <<2, 7>>, <<1, 2>>),
       Intrinsic(<<"incr", "i64">>, "i64", <<4>>), Icmp("ult", 5, B), Copy(5, 1), BrIf(6), Ret(5)>>)}

Switches ==
  {Function("f", Two, <<<<1>>, <<2>>, <<3>>, <<4, 5>>>>, <<<<4, 2, 3>>, <<>>, <<>>, <<>>>>,
     <<<<"switch", "void", <<A, Const("i64", m), Const("i64", n)>>, "">>, Ret(A), Ret(B),
       Op("add", "i64", A, B), Ret(4)>>) : m \in {0, 5}, n \in {3}}

Stops ==
  {Function("f", Two, <<<<1, 2>>, <<3>>, <<4>>>>, <<<<2, 3>>, <<>>, <<>>>>,
     <<Icmp("eq", A, B), BrIf(1), <<"unreachable", "void", <<>>, "">>, Ret(A)>>)}

Memory ==
  {Straight("f", Two,
     <<I64(16), CallOf("malloc", "ptr", <<1>>), StoreTo(A, 2), Conv("trunc", t, B), StoreTo(4, 2),
       Intrinsic(<<"aload", "i64">>, "i64", <<2>>), LoadFrom(t, 2), CallOf("free", "void", <<2>>),
       Conv("zext", "i64", 7), Op("sub", "i64", 6, 9), Ret(10)>>) : t \in {"i8", "i16", "i32", "ptr"}}
  \cup
  {Straight("f", Two,
     <<I64(16), CallOf("$decr_sp", "ptr", <<1>>), I64(8), Op("add", "i64", 2, 3), Conv("inttoptr", "ptr", 4),
       StoreTo(A, 2), StoreTo(B, 5), LoadFrom("i64", 2), Op("sub", "i64", 8, A), Ret(9)>>)}

Eight == <<A, 1, B, A, 1, B, A, 1>>
Calls(n) ==
  {[Body(Straight("f", Two,
     <<CallOf("g", "i64", <<A, B>>), CallOf("h", "void", <<1>>), CallOf(self, "i64", <<B, 1>>),
       Intrinsic(<<"int_sum", "i64">>, "i64", <<A, 1, B, A, 3, B, A, 1>>),
       Intrinsic(<<"assert_eq", "i64">>, "void", <<4, IF literal THEN Const("i64", 7) ELSE 1>>),
       Intrinsic(<<"decr", "i64">>, "i64", <<4>>),
       CallOf("k", "void", [k \in 1..n |-> IF k % 2 = 0 THEN A ELSE 6]), CallOf("f", "void", <<A, 6>>), Ret(3)>>))
     EXCEPT !.tail = tail] :
     self \in {"f", "g"}, literal \in BOOLEAN, tail \in {{}, {3, 8}, {1, 3}}}

\* One operation on vectors that come from memory and go there.
VectorFunction(t, op, extra) ==
  Straight("f", Words2, <<LoadFrom(t, A), LoadFrom(t, A)>> \o op \o <<StoreTo(3, A)>> \o extra)

Vectors(t) ==
  {VectorFunction(t, <<Op(op, t, 1, 2)>>, <<Ret(B)>>) : op \in IntOps}
    \cup {VectorFunction(t, <<Intrinsic(<<op, t>>, t, <<1, 2>>)>>, <<Ret(B)>>) :
            op \in ParallelArithmetic \cup ParallelBitwise}
    \cup {VectorFunction(t, <<Intrinsic(<<op, t, "slt">>, t, <<1, 2>>)>>, <<Ret(B)>>) : op \in {"vicmp", "vpicmp"}}
    \cup {VectorFunction(t, <<Intrinsic(<<op, t>>, t, <<1, 2, 1>>)>>, <<Ret(B)>>) : op \in {"vselect", "vpselect"}}
    \cup {VectorFunction(t, <<Intrinsic(<<op, t>>, t, <<2>>)>>, <<Ret(B)>>) : op \in {"vincr", "vdecr"}}
    \cup {VectorFunction(t, <<Intrinsic(<<"vbcast", t>>, t, <<B>>)>>, <<Ret(B)>>),
          VectorFunction(t, <<<<"insertelement", t, <<1, B, B>>, "">>>>,
                         <<<<"extractelement", IF t = "v4i64" THEN "i64" ELSE "i32", <<2, B>>, "">>, Ret(5)>>)}

\* What earlier stages should have removed, or the machine cannot do.
Unprepared ==
  {Straight("f", Two, code) : code \in
     {<<Op("add", "i64", A, One64), Ret(1)>>, <<Ret(One64)>>, <<StoreTo(One64, A), Ret(A)>>,
      <<Icmp("eq", A, B), StoreTo(1, A), Ret(A)>>, <<CallOf("g", "void", <<One64>>), Ret(A)>>,
      <<LoadFrom("v4i64", A), Icmp("eq", A, B), Select("v4i64", 2, 1, 1), Ret(A)>>,
      <<LoadFrom("v4i64", A), Ret(1)>>, <<CallOf("g", "v4i64", <<A>>), Ret(A)>>}}
  \cup {Straight("f", [k \in 1..17 |-> "i64"], <<Ret(Arg(17))>>)}

PlainFunctions ==
  <<Scalars, Conversions, Branching, Looping, Switches, Memory, Vectors("v4i64"), Vectors("v8i32"), Unprepared,
    {Straight("f", [k \in 1..16 |-> "i64"], <<Op("add", "i64", Arg(16), Arg(1)), Ret(1)>>),
     Straight("f", <<>>, <<<<"ret", "void", <<>>, "">>>>)}>>

Labelled ==
  {[Body(p) EXCEPT !.names = <<<<"entry", 0>>, Unnamed, <<"exit", 0>>, Unnamed>>] : p \in Branching}
  \cup {[Body(p) EXCEPT !.names = <<Unnamed, <<"dead", 0>>, Unnamed>>] : p \in Stops}

\* $decr_sp as spillColors calls it.
Spilled ==
  {Body(Straight("f", Two,
     <<CallOf("$decr_sp", "ptr", <<Const("i64", 16)>>), StoreTo(A, 1), CallOf("g", "void", <<A>>),
       LoadFrom("i64", 1), Ret(4)>>))}

Alone(p) == \E order \in Orders : Init([functions |-> <<p>>, colors |-> <<Coloring(p, order)>>])

\* Several functions, some of them only declared.
Together(p, q) ==
  \E order \in Orders :
    \/ Init([functions |-> <<p, Declaration("g"), [q EXCEPT !.name = "h"]>>,
             colors |-> <<Coloring(p, order), <<>>, Coloring(q, order)>>])
    \/ Init([functions |-> <<Declaration("g"), [q EXCEPT !.name = "h"], p, Declaration("k")>>,
             colors |-> <<<<>>, Coloring(q, order), Coloring(p, order), <<>>>>])

InitPlain ==
  \/ \E k \in DOMAIN PlainFunctions : \E p \in PlainFunctions[k] : Alone(Body(p))
  \/ \E p \in Labelled : Alone(p)
  \/ \E n \in {16, 17} : \E p \in Calls(n) : Alone(p)
  \/ \E p \in Branching : \E q \in Looping : Together(Body(p), Body(q)) \/ Together(Body(q), Body(p))

Words == {w % 2^Bits("i64") : w \in {0, 3, -1, 300}}
MCInputs == {[k \in 1..16 |-> IF k = 1 THEN a ELSE IF k = 2 THEN b ELSE k] : a \in Words, b \in {1, 2^15 + 5}}

MCSpec ==
  /\ IF Family = "plain" THEN InitPlain ELSE \E p \in Spilled : Alone(p)
  /\ [][Next]_vars
=============================================================================
