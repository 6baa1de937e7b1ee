------------------------------ MODULE MCOptimizer -----------------------------
(***************************************************************************)
(* Optimizer for TLC: small functions for each of its passes.              *)
(***************************************************************************)
EXTENDS Optimizer, MCValues

CONSTANT Family

A == Arg(1)   B == Arg(2)
Two == <<"i64", "i64">>
c64(n) == Const("i64", n)
Scalar(t) == Array(<<>>, t)
Out(v) == CallOf("out", "void", <<v>>)

-----------------------------------------------------------------------------
\* Operations with a constant, or the same operand twice; then used by another one.
Constants(t) == {Const(t, n) : n \in {0, 1, 2, 3, 7, -1, -4, -6}}

\* Masks so near to all ones that they are taken for them are left to their own family.
Exact(op, v) == ~(op = "and" /\ v = c64(-4))

Arithmetic ==
  {Straight("f", <<t, t>>, <<Op(op, t, IF swap THEN c ELSE A, IF swap THEN A ELSE c), Op(op2, t, 1, 1), Ret(2)>>) :
     op \in IntOps, op2 \in {"add"}, t \in {"i1", "i8"}, c \in Constants("i1") \cup Constants("i8") \cup {A, B},
     swap \in BOOLEAN}

Typed(p) == \A I \in Insts(p) : p.kind[I] \in IntOps =>
              \A v \in Range(p.args[I]) : TypeOf(p, v) = p.type[I]

Narrow == {p \in Arithmetic : Typed(p)}

Wide ==
  {Straight("f", Two, <<Op(op, "i64", A, c), Op(op2, "i64", 1, 1), Icmp("ule", 2, 2), Select("i64", 3, 2, B), Ret(4)>>) :
     op \in IntOps, op2 \in {"add", "xor", "or"}, c \in Constants("i64") \cup {A, B}}

Unaffected(ps) == {p \in ps : \A I \in Insts(p) : p.kind[I] = "and" => Exact("and", p.args[I][2])}

Masks == {Straight("f", Two, <<Op("and", "i64", A, c64(n)), Ret(1)>>) : n \in {-1, -2, -4}}

-----------------------------------------------------------------------------
\* Two ways that meet again.
Operations == {"add", "sub", "mul", "udiv"}
Diamonds ==
  {Function("f", Two, <<<<1, 2>>, <<3, 4>>, <<5, 6>>, <<7, 8, 9, 10>>>>, <<<<2, 3>>, <<4>>, <<4>>, <<>>>>,
     <<Icmp(pred, A, v), BrIf(1), Op(op1, "i64", A, B), Br, Op(op2, "i64", x, IF x = A THEN B ELSE A), Br,
       Phi("i64", <<3, 5>>, <<2, 3>>), Op("add", "i64", B, v), Op("sub", "i64", 7, 8), Ret(9)>>) :
     pred \in {"eq", "ne", "ult"}, v \in {B, c64(3)}, op1 \in Operations, op2 \in Operations, x \in {A, B}}

\* One way around a block with a load, and with what keeps it from being merged.
Triangles ==
  {Function("f", Two, <<<<1, 2, 3, 4>>, <<5, 6, 7, 8>>, <<9, 10, 11>>>>,
            IF last THEN <<<<2, 3>>, <<3>>, <<>>>> ELSE <<<<3, 2>>, <<3>>, <<>>>>,
     <<AllocaOf(Scalar("i64"), c64(1)), StoreTo(A, 1), Icmp(pred, A, B), BrIf(3),
       LoadFrom("i64", 1), extra, Op("sub", "i64", 5, B), Br,
       Phi("i64", <<7, B>>, <<2, 1>>), Op("add", "i64", 9, A), Ret(10)>>) :
     pred \in {"eq", "ne"}, last \in BOOLEAN,
     extra \in {Op("mul", "i64", A, A), StoreTo(B, 1), Out(5), Op("urem", "i64", A, B), Op("add", "i64", A, B)}}

\* Chains of jumps, branches and switches that go one way only.
Chains ==
  {Function("f", Two, <<<<1, 2>>, <<3, 4>>, <<5, 6, 7>>, <<8, 9>>>>, <<succ, <<3>>, <<4>>, <<>>>>,
     <<Icmp("eq", A, B), IF Len(succ) = 3 THEN <<"switch", "void", <<A, c64(1), c64(2)>>, "">> ELSE BrIf(1),
       Op("add", "i64", A, B), Br, Phi("i64", <<3>>, <<2>>), Out(5), Br, Op("sub", "i64", 5, A), Ret(8)>>) :
     succ \in {<<2, 2>>, <<2, 2, 2>>}}

\* Two branches on the same equality, written differently, that lead to one block.
Ladders ==
  {Function("f", Two, <<<<1, 2>>, <<3, 4>>, <<5, 6>>, <<7, 8, 9, 10>>, <<11>>>>,
            <<<<2, 3>>, <<4, 5>>, IF other = "eq" THEN <<4, 5>> ELSE <<5, 4>>, <<>>, <<>>>>,
     <<Icmp("ult", A, c64(3)), BrIf(1), Icmp("eq", A, v), BrIf(3), Icmp(other, w[1], w[2]), BrIf(5),
       Phi("i64", <<B, A>>, <<2, 3>>), Op("mul", "i64", B, v), Op("sub", "i64", 7, 8), Ret(9), Ret(A)>>) :
     other \in {"eq", "ne"}, v \in {B, c64(3)}, w \in {<<A, B>>, <<B, A>>, <<A, c64(3)>>}}

-----------------------------------------------------------------------------
\* A counting loop, tested at its head, and what it calls.
CountingLoops ==
  {Function("f", Two, <<<<1>>, <<2, 3, 4, 5>>, <<6, 7, 8>>, <<9, 10>>>>,
            <<<<2>>, IF stay THEN <<3, 4>> ELSE <<4, 3>>, <<2>>, <<>>>>,
     <<Br, Phi("i64", <<c64(0), 7>>, <<1, 3>>), Op("add", "i64", 2, A), Icmp(pred, 2, c64(3)), BrIf(4),
       IF call THEN Out(3) ELSE Op("mul", "i64", 3, 3), Op("add", "i64", 2, c64(1)), Br,
       Op("sub", "i64", 2, B), Ret(9)>>) :
     stay \in BOOLEAN, pred \in {"ne", "eq", "ult", "sge"}, call \in BOOLEAN}

\* Globals in loops: only read, also stored to, read twice, in a loop inside.
GlobalLoops ==
  {With(Function("f", Two, <<<<1, 2, 3>>, <<4, 5, 6>>, <<7, 8, 9, 10, 11, 12, 13>>, <<14, 15, 16>>>>,
                 <<<<2>>, <<3, 4>>, <<2>>, <<>>>>,
     <<StoreTo(A, GV(1)), StoreTo(B, GV(2)), Br,
       Phi("i64", <<c64(0), 12>>, <<1, 3>>), Icmp("ult", 4, c64(n)), BrIf(5),
       Out(4), LoadFrom("i64", GV(1)), StoreTo(8, GV(stored)), LoadFrom("i64", GV(2)), Out(10),
       Op("add", "i64", 4, c64(1)), Br,
       Out(4), LoadFrom("i64", GV(2)), Ret(15)>>),
     <<Scalar("i64"), Scalar("i64"), Scalar("i64")>>, <<>>) :
     stored \in {2, 3}, n \in {0, 2}}

\* A block that loads from an argument: nothing of it is compiled.
ArgumentLoads ==
  {Straight("f", <<"ptr", "i64">>, <<LoadFrom("i64", A), Ret(1)>>)}

-----------------------------------------------------------------------------
\* Memory from malloc, and recursion.
Mallocs ==
  {Function("f", Two, <<<<1, 2, 3>>, <<4, 5, 6, 7, 8>>, <<9, 10>>>>, <<<<2>>, <<2, 3>>, <<>>>>,
     <<CallOf("malloc", "ptr", <<c64(8)>>), StoreTo(A, 1), Br,
       IF inner THEN CallOf("malloc", "ptr", <<c64(8)>>) ELSE Op("sub", "i64", B, A),
       IF inner THEN CallOf("free", "void", <<4>>) ELSE Out(4), LoadFrom("i64", 1),
       Icmp("ne", 6, A), BrIf(7), CallOf("free", "void", <<1>>), Ret(6)>>) : inner \in BOOLEAN}

Recursive ==
  {Straight("f", Two, <<CallOf("f", "i64", <<B, A>>), Op("add", "i64", 1, A), CallOf("g", "i64", <<2>>), Ret(3)>>)}

\* c[k] = a[k] op b[k] for k < n; afterwards c is read in two other blocks.
Element(v, k) == GEP(Array(<<4>>, "i64"), v, <<c64(0), c64(k)>>)

Filled(n) ==
  FlattenSeq([k \in 1..n |-> <<Element(1, k - 1), StoreTo(IF k % 2 = 1 THEN A ELSE B, 4 * k),
                               Element(2, k - 1), StoreTo(IF k = 2 THEN A ELSE c64(k), 4 * k + 2)>>])

Combined(n, op) ==
  FlattenSeq([k \in 1..n |->
     LET I == 4 + 4 * n + 7 * (k - 1)
     IN  <<Element(1, k - 1), LoadFrom("i64", I), Element(2, k - 1), LoadFrom("i64", I + 2),
           Op(op, "i64", I + 1, I + 3), Element(3, k - 1), StoreTo(I + 4, I + 5)>>])

\* After code, an element of v is returned: the k-th or, with other output, the first.
ThenRead(code, v, k) ==
  LET m == Len(code)
  IN  Function("f", Two, <<[j \in 1..m + 2 |-> j], <<m + 3, m + 4, m + 5, m + 6>>, <<m + 7, m + 8, m + 9, m + 10>>>>,
               <<<<2, 3>>, <<>>, <<>>>>,
        code \o <<Icmp("ult", A, B), BrIf(m + 1), Out(A), Element(v, k), LoadFrom("i64", m + 4), Ret(m + 5),
                  Out(B), Element(v, 0), LoadFrom("i64", m + 8), Ret(m + 9)>>)

Frame(n) == [k \in 1..n |-> AllocaOf(Array(<<4>>, "i64"), c64(1))]

Arrays ==
  {ThenRead(Frame(3) \o Filled(n) \o Combined(n, op) \o (IF tail THEN <<Element(3, 0)>> ELSE <<>>), 3, n - 1) :
     n \in 1..4, op \in {"add", "sub", "udiv", "shl"}, tail \in BOOLEAN}

\* c[k + 1] = c[k] + b[k] for k < 2: every value is made from the one before.
Carried ==
  LET filled == FlattenSeq([k \in 1..4 |->
                  <<Element(IF k < 3 THEN 1 ELSE 2, k % 2), StoreTo(IF k = 2 THEN A ELSE B, 1 + 2 * k)>>])
      group(k, I) == <<Element(2, k), LoadFrom("i64", I), Element(1, k), LoadFrom("i64", I + 2),
                       Op("add", "i64", I + 1, I + 3), Element(2, k + 1), StoreTo(I + 4, I + 5)>>
  IN  {ThenRead(Frame(2) \o filled \o group(0, 11) \o group(1, 18), 2, 2)}

\* A loop that reads a global and calls a function that stores to it.
Callees ==
  {With(Function("f", Two, <<<<1, 2>>, <<3, 4, 5>>, <<6, 7, 8, 9, 10, 11>>, <<12>>>>, <<<<2>>, <<3, 4>>, <<2>>, <<>>>>,
     <<StoreTo(A, GV(1)), Br, Phi("i64", <<c64(0), 10>>, <<1, 3>>), Icmp("ult", 3, c64(2)), BrIf(4),
       Out(3), LoadFrom("i64", GV(1)), Out(7), CallOf("setGlobal", "void", <<B>>),
       Op("add", "i64", 3, c64(1)), Br, Ret(3)>>), <<Scalar("i64")>>, <<>>)}

\* Both ways of a branch lead to a phi, which has an operand for each.
Doubled ==
  {Function("f", Two, <<<<1, 2>>, <<3, 4>>, <<5, 6>>, <<7, 8>>>>, <<<<2, 3>>, <<4, 4>>, <<4>>, <<>>>>,
     <<Icmp("eq", A, B), BrIf(1), Out(A), BrIf(1), Out(B), Br, Phi("i64", <<v, v, B>>, <<2, 2, 3>>), Ret(7)>>) :
     v \in {A, c64(3)}}

-----------------------------------------------------------------------------
Families ==
  CASE Family = "masks"     -> <<Masks>>
    [] Family = "callees"   -> <<Callees>>
    [] Family = "carried"   -> <<Carried>>
    [] Family = "doubled"   -> <<Doubled>>
    [] OTHER -> <<Narrow, Unaffected(Wide), Diamonds, Triangles, Chains, Ladders, CountingLoops, GlobalLoops,
                  ArgumentLoads, Mallocs, Recursive, Arrays>>

Words == {w % 2^Bits("i64") : w \in {0, 3, -1, 300}}
MCInputs == Words \X {1, 3, 2^15 + 5}

MCSpec ==
  /\ \E k \in DOMAIN Families : Init({p @@ [tail |-> {}] : p \in Families[k]})
  /\ [][Next]_vars
=============================================================================
