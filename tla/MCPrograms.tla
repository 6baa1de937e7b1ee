----------------------------- MODULE MCPrograms -----------------------------
(***************************************************************************)
(* Small functions for TLC, in families: a control-flow shape whose        *)
(* operands range over the values that may stand there.                    *)
(***************************************************************************)
EXTENDS SSAProgram

Op(args)        == <<"op", args, <<>>>>
Move(v)         == <<"move", <<v>>, <<>>>>
Noreg(args)     == <<"noreg", args, <<>>>>
Term(args)      == <<"term", args, <<>>>>
Phi(args, from) == <<"phi", args, from>>

\* A function from its blocks, their successors and its instructions; type gives
\* the types of those that are not i64.
Function(body, succ, code, type) ==
  [body  |-> body, succ |-> succ,
   kind  |-> [I \in DOMAIN code |-> code[I][1]],
   args  |-> [I \in DOMAIN code |-> code[I][2]],
   from  |-> [I \in DOMAIN code |-> code[I][3]],
   type |-> type @@ [I \in DOMAIN code |->
              IF code[I][1] \in {"noreg", "term"} THEN "void" ELSE "i64"],
   cmap |-> <<>>]

i64s == [I \in {} |-> "i64"]

\* entry -> loop; loop -> loop | exit (both edges out of loop are critical or
\* lead back).  back: value of the phi on the back edge.
Loops(Init1, Body, Back, Cond, Exit) ==
  {Function(<<<<1, 2, 3>>, <<4, 5, 6>>, <<7>>>>, <<<<2>>, <<2, 3>>, <<>>>>,
     <<Op(<<>>), Op(<<i>>), Term(<<>>),
       Phi(<<1, back>>, <<1, 2>>), Op(<<body>>), Term(<<cond>>),
       Term(<<exit>>)>>, i64s) :
     i \in Init1, body \in Body, back \in Back, cond \in Cond, exit \in Exit}

\* if (c) x = ...: the edge from entry to the join is critical.
Ifs(Then, Else, Use, Cond) ==
  {Function(<<<<1, 2, 3>>, <<4, 5>>, <<6, 7, 8>>>>, <<<<2, 3>>, <<3>>, <<>>>>,
     <<Op(<<>>), Op(<<>>), Term(<<cond>>),
       Op(<<then>>), Term(<<>>),
       Phi(<<else, 4>>, <<1, 2>>), Op(<<6, use>>), Term(<<7>>)>>, i64s) :
     then \in Then, else \in Else, use \in Use, cond \in Cond}

\* if (c) x = ..., with a value read in the branch after the new x is computed: the
\* operands of the phi may be live together although none is live with the phi.
Diamonds(Else, Read) ==
  {Function(<<<<1, 2, 3>>, <<4, 5, 6>>, <<7, 8>>>>, <<<<2, 3>>, <<3>>, <<>>>>,
     <<Op(<<>>), Op(<<>>), Term(<<2>>),
       Op(<<>>), Noreg(<<read>>), Term(<<>>),
       Phi(<<else, 4>>, <<1, 2>>), Term(<<7>>)>>, i64s) :
     else \in Else, read \in Read}

\* Two phis that feed each other round a loop.
Swaps(B1, B2, Body, Exit) ==
  {Function(<<<<1, 2, 3>>, <<4, 5, 6, 7>>, <<8>>>>, <<<<2>>, <<2, 3>>, <<>>>>,
     <<Op(<<>>), Op(<<>>), Term(<<>>),
       Phi(<<1, b1>>, <<1, 2>>), Phi(<<2, b2>>, <<1, 2>>), Op(<<body>>), Term(<<6>>),
       Term(<<exit>>)>>, i64s) :
     b1 \in B1, b2 \in B2, body \in Body, exit \in Exit}

\* Three phis, of which only one is read.
Unread(Use) ==
  {Function(<<<<1, 2, 3, 4>>, <<5, 6, 7, 8>>>>, <<<<2>>, <<>>>>,
     <<Op(<<>>), Op(<<>>), Op(<<>>), Term(<<>>),
       Phi(<<1>>, <<1>>), Phi(<<2>>, <<1>>), Phi(<<3>>, <<1>>), Term(<<use>>)>>, i64s) :
     use \in Use}

\* A loop within a loop.
Nests(Inner, Outer, Exit) ==
  {Function(<<<<1, 2>>, <<3, 4>>, <<5, 6, 7>>, <<8>>, <<9>>>>,
            <<<<2>>, <<3>>, <<3, 4>>, <<2, 5>>, <<>>>>,
     <<Op(<<>>), Term(<<>>),
       Phi(<<1, outer>>, <<1, 4>>), Term(<<>>),
       Phi(<<3, inner>>, <<2, 3>>), Op(<<5>>), Term(<<6>>),
       Term(<<6>>),
       Term(<<exit>>)>>, i64s) :
     inner \in Inner, outer \in Outer, exit \in Exit}

\* Moves, a store, the stack pointer, and a chain of two unreachable blocks.
Mixed(A, B, C) ==
  {Function(<<<<1, 2, 3, 4, 5, 6>>, <<7, 8>>, <<9, 10>>>>, <<<<>>, <<3>>, <<>>>>,
     <<<<"sp", <<-5>>, <<>>>>, Op(<<1>>), Move(a), Move(b), Noreg(<<3, 4>>), Term(<<c>>),
       Op(<<2>>), Term(<<>>), Op(<<7>>), Term(<<9>>)>>, i64s) :
     a \in A, b \in B, c \in C}

\* A loop whose two phis have the types in T (a pair that a move converts between)
\* and start from arguments, constants and values or moves of values; instruction 8
\* moves m, of the first type, to the second.
Typed(In1, In2, M, Back1, Back2, T, Exit) ==
  {Function(<<<<1, 2, 3, 4>>, <<5, 6, 7, 8, 9>>, <<10>>>>, <<<<2>>, <<2, 3>>, <<>>>>,
     <<Op(<<0>>), Op(<<1>>), Move(1), Term(<<>>),
       Phi(<<IF in1 < 0 THEN One(t[1]) ELSE in1, b1>>, <<1, 2>>),
       Phi(<<IF in2 < 0 THEN One(t[2]) ELSE in2, b2>>, <<1, 2>>), Op(<<5>>), Move(m), Term(<<7>>),
       Term(<<exit>>)>>,
     [I \in {1, 3, 5, 7} |-> t[1]] @@ [I \in {2, 6, 8} |-> t[2]]) :
     in1 \in In1, in2 \in In2, m \in M, b1 \in Back1, b2 \in Back2, t \in T, exit \in Exit}

\* The pairs of types for Typed: zext, inttoptr, ptrtoint and a vector bitcast.
TypePairs == {<<"i32", "i64">>, <<"i64", "ptr">>, <<"ptr", "i64">>, <<"v4i64", "v8i32">>}

\* Four values and a phi that are live together: entry -> loop -> loop | exit.
Pressure(A, B, M, Back, Exit) ==
  {Function(<<<<1, 2, 3, 4, 5>>, <<6, 7, 8, 9>>, <<10, 11>>>>, <<<<2>>, <<2, 3>>, <<>>>>,
     <<Op(<<>>), Op(<<>>), Op(<<>>), Move(m), Term(<<>>),
       Phi(<<1, back>>, <<1, 2>>), Op(<<6, a>>), Op(<<7, b>>), Term(<<8>>),
       Noreg(<<2, 3>>), Term(<<exit>>)>>, [I \in {4} |-> "ptr"]) :
     a \in A, b \in B, m \in M, back \in Back, exit \in Exit}

\* Three vectors of either width that are live together.
Lanes(A, B, T) ==
  {Function(<<<<1, 2, 3, 4, 5, 6, 7>>>>, <<<<>>>>,
     <<Op(<<>>), Op(<<>>), Op(<<1>>), Move(1),
       Op(<<a, b>>), Noreg(<<2, 5>>), Term(<<4>>)>>,
     [I \in {1, 2, 3, 5} |-> t] @@ [I \in {4} |-> IF t = "v4i64" THEN "v8i32" ELSE "v4i64"]) :
     a \in A, b \in B, t \in T}

\* No phis: values of the entry block live into both branches and past them, and
\* values of the branches that cannot interfere with one another.
Branches(A, B, C, D) ==
  {Function(<<<<1, 2, 3, 4>>, <<5, 6, 7>>, <<8, 9>>, <<10, 11>>>>,
            <<<<2, 3>>, <<4>>, <<4>>, <<>>>>,
     <<Op(<<>>), Op(<<1>>), Op(<<>>), Term(<<3>>),
       Op(<<a>>), Op(<<5, b>>), Term(<<>>),
       Op(<<b>>), Term(<<>>),
       Op(<<c, d>>), Term(<<10>>)>>, i64s) :
     a \in A, b \in B, c \in C, d \in D}

\* Four values live together in a function that has stack variables.
Frames(A) ==
  {Function(<<<<1, 2, 3, 4, 5, 6, 7, 8, 9>>>>, <<<<>>>>,
     <<<<"sp", <<-5>>, <<>>>>, Op(<<1>>), Op(<<>>), Op(<<>>), Op(<<>>),
       Op(<<a, 3>>), Op(<<4, 5>>), Noreg(<<2, 7>>), Term(<<6>>)>>, i64s) : a \in A}
=============================================================================
