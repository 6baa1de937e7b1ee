---------------------------- MODULE MCLowerModule ----------------------------
(***************************************************************************)
(* LowerModule for TLC: small functions for each of its passes.            *)
(***************************************************************************)
EXTENDS LowerModule, MCValues

CONSTANT Family

c64(n) == Const("i64", n)
c32(n) == Const("i32", n)
Scalar(t) == Array(<<>>, t)

-----------------------------------------------------------------------------
\* Nests of two operations with constants on either side.
Leaves(t) == {Arg(1)} \cup {Const(t, n) : n \in {0, 1, -1}}
Arith == {"add", "sub", "mul"}

Nests(t) ==
  {Straight("f", <<t, t>>,
     <<Op(op1, t, a, b), Op(op2, t, IF left THEN 1 ELSE c, IF left THEN c ELSE 1), Ret(2)>>) :
     op1 \in Arith, op2 \in Arith, a \in Leaves(t), b \in Leaves(t) \cup {Arg(2)}, c \in Leaves(t), left \in BOOLEAN}

\* Two operations that meet in a third, with a value that is used twice.
Trees ==
  {Straight("f", <<"i64", "i64">>,
     <<Op(op1, "i64", Arg(1), c64(m)), Op(op2, "i64", c64(n), Arg(2)), Op(op3, "i64", 1, 2),
       Op(op3, "i64", 3, 1), Ret(4)>>) :
     op1 \in Arith, op2 \in Arith, op3 \in Arith, m \in {2, -1}, n \in {0, 5}}

\* A counter in a loop whose step is a sum of constants.
Loops ==
  {Function("f", <<"i64", "i64">>, <<<<1>>, <<2, 3, 4, 5, 6>>, <<7>>>>, <<<<2>>, <<2, 3>>, <<>>>>,
     <<Br, Phi("i64", <<c64(0), 4>>, <<1, 2>>), Op(op, "i64", 2, c64(m)), Op("add", "i64", 3, c64(n)),
       Icmp("ult", 4, c64(6)), BrIf(5), Ret(IF last THEN 4 ELSE 3)>>) :
     op \in {"add", "sub"}, m \in {1, 2}, n \in {3, 5}, last \in BOOLEAN}

\* Conversions of conversions, used by everything that reads a whole register.
Widths ==
  {Straight("f", <<"i64", "i64">>,
     <<Conv("trunc", t, Arg(1)), Conv(ext, "i64", 1), Conv("trunc", "i16", 2), Conv(ext2, "i32", 3),
       Conv("freeze", "i32", 4), Conv("zext", "i64", 5), Icmp("slt", 1, Const(t, n)), Conv(ext, "i64", 7),
       Op("add", "i64", 2, 6), Select("i64", 7, 8, 9), Ret(IF direct THEN 1 ELSE 10)>>) :
     t \in {"i1", "i8", "i16", "i32"}, ext \in {"zext", "sext"}, ext2 \in {"zext", "sext"},
     n \in {0, 1}, direct \in BOOLEAN}

-----------------------------------------------------------------------------
\* Two stack variables, one of them an array that is filled by index.
Stacks ==
  {Straight("f", <<"i64", "i64">>,
     <<AllocaOf(Array(dims, t), c64(1)), AllocaOf(Scalar("i64"), c32(1)),
       StoreTo(Arg(1), 2),
       GEP(Array(dims, t), 1, index), Conv("trunc", t, Arg(2)), StoreTo(5, 4),
       GEP(Array(dims, t), 1, [k \in DOMAIN index |-> c64(0)]), StoreTo(Const(t, 1), 7),
       LoadFrom(t, 4), Conv("zext", "i64", 9), LoadFrom("i64", 2), Op("sub", "i64", 10, 11), Ret(12)>>) :
     dims \in {<<2>>, <<2, 3>>}, t \in {"i16", "i32"},
     index \in {<<c64(0), c64(1)>>, <<c32(0), c32(1)>>, <<c64(0), Arg(1)>>}}

\* Globals: stored to by name, by a constant expression and by its number.
Globals(name) ==
  {With(Straight(name, <<"i64", "i64">>,
     <<StoreTo(Arg(1), GV(2)), StoreTo(Arg(2), IF nested THEN Expr(2) ELSE Expr(1)),
       Conv("ptrtoint", "i64", GV(3)), Op("add", "i64", 3, c64(8)), Conv("inttoptr", "ptr", 4),
       LoadFrom("i64", 5), LoadFrom("i64", GV(2)), Op("sub", "i64", 7, 6),
       Select("ptr", Const("i1", 1), GV(3), GV(2)), StoreTo(8, 9), StoreTo(Const("i16", 7), GV(1)),
       LoadFrom("i64", GV(3)), Ret(IF direct THEN 8 ELSE 12)>>),
     <<Array(<<n>>, "i16"), Scalar("i64"), Array(<<2>>, "i64")>>,
     <<Expression("getelementptr", "ptr", <<GV(3), c64(0), c64(1)>>, Array(<<2>>, "i64")),
       Expression("getelementptr", "ptr", <<Expr(3), c64(1)>>, Scalar("i64")),
       Expression("bitcast", "ptr", <<GV(3)>>, "")>>) :
     nested \in BOOLEAN, n \in {1, 5}, direct \in BOOLEAN}

\* What the passes refuse.
Refused ==
  {Straight("f", <<"i64", "i64">>, <<AllocaOf(Scalar("i64"), Arg(1)), Ret(c64(0))>>),
   Straight("f", <<"i64", "i64">>, <<AllocaOf(Scalar("i24"), c64(1)), Ret(c64(0))>>),
   Straight("f", <<"i64", "i64">>,
     <<AllocaOf(Scalar("i64"), c64(1)), GEP(Scalar("i24"), 1, <<c64(1)>>), Ret(c64(0))>>),
   With(Straight("main", <<"i64", "i64">>, <<Ret(c64(0))>>), <<Scalar("i24")>>, <<>>)}

LoweredPrograms ==
  CASE Family = "lower"   -> <<Nests("i64"), Trees, Loops, Widths, Stacks,
                               Globals("main"), Globals("f"), Refused>>
    [] Family = "globals" -> <<Globals("main")>>

Words == {w % 2^Bits("i64") : w \in {0, 3, -1, 300}}
MCInputs == Words \X {1, 2^15 + 5}

MCSpec ==
  /\ \E k \in DOMAIN LoweredPrograms : Init(LoweredPrograms[k])
  /\ [][Next]_vars
=============================================================================
