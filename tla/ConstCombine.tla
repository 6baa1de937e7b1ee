----------------------------- MODULE ConstCombine ----------------------------
(***************************************************************************)
(* gep_const_combine.cpp: sums, differences and products with constants    *)
(* are rewritten until no rule matches, which gathers the constants of an  *)
(* address computation.  A rule is a pattern, a condition on its constant  *)
(* C0, and what replaces the instruction; the first that matches is taken. *)
(***************************************************************************)
EXTENDS IRValues

\* Patterns and results: leaves are 1-tuples, operations 3-tuples, and K is the constant
\* a*C0 + b*C1 + ab*C0*C1 + k.
V0 == <<"V0">>   V1 == <<"V1">>   C0 == <<"C0">>   C1 == <<"C1">>
Add(x, y) == <<"add", x, y>>
Sub(x, y) == <<"sub", x, y>>
Mul(x, y) == <<"mul", x, y>>
K(a, b, ab, k) == <<"K", a, b, ab, k>>

FoldingRules == <<
  <<Add(C0, C1), "any", K(1, 1, 0, 0)>>,
  <<Sub(C0, C1), "any", K(1, -1, 0, 0)>>,
  <<Mul(C0, C1), "any", K(0, 0, 1, 0)>>,
  <<Add(C0, V0), "any", <<"swap">>>>,
  <<Mul(C0, V0), "any", <<"swap">>>>,
  <<Add(V0, C0), "isZero", V0>>,
  <<Sub(V0, C0), "isZero", V0>>,
  <<Sub(C0, V0), "isZero", Mul(V0, K(0, 0, 0, -1))>>,
  <<Mul(V0, C0), "isZero", C0>>,
  <<Mul(V0, C0), "isOne", V0>>,
  <<Add(V0, Mul(V1, C0)), "isMinusOne", Sub(V0, V1)>>,
  <<Sub(V0, Mul(V1, C0)), "isMinusOne", Add(V0, V1)>> >>

GatheringRules == <<
  <<Add(Add(V0, C0), C1), "any", Add(V0, K(1, 1, 0, 0))>>,
  <<Add(Sub(V0, C0), C1), "any", Add(V0, K(-1, 1, 0, 0))>>,
  <<Add(Sub(C0, V0), C1), "any", Sub(K(1, 1, 0, 0), V0)>>,
  <<Sub(Add(V0, C0), C1), "any", Add(V0, K(1, -1, 0, 0))>>,
  <<Sub(Sub(V0, C0), C1), "any", Add(V0, K(-1, -1, 0, 0))>>,
  <<Sub(Sub(C0, V0), C1), "any", Sub(K(1, -1, 0, 0), V0)>>,
  <<Mul(Add(V0, C0), C1), "any", Add(Mul(V0, C1), K(0, 0, 1, 0))>>,
  <<Mul(Sub(V0, C0), C1), "any", Add(Mul(V0, C1), K(0, 0, -1, 0))>>,
  <<Mul(Mul(V0, C0), C1), "any", Mul(V0, K(0, 0, 1, 0))>>,
  <<Mul(Sub(C0, V0), C1), "any", Add(Mul(V0, K(0, -1, 0, 0)), K(0, 0, 1, 0))>>,
  <<Sub(C0, Add(V0, C1)), "any", Sub(K(1, -1, 0, 0), V0)>>,
  <<Sub(C0, Sub(V0, C1)), "any", Sub(K(1, 1, 0, 0), V0)>>,
  <<Sub(C0, Sub(C1, V0)), "any", Add(V0, K(1, -1, 0, 0))>> >>

ReassociationRules == <<
  <<Add(Add(V0, C0), V1), "any", Add(Add(V0, V1), C0)>>,
  <<Add(Sub(V0, C0), V1), "any", Add(Add(V0, V1), K(-1, 0, 0, 0))>>,
  <<Sub(Add(V0, C0), V1), "any", Add(Sub(V0, V1), C0)>>,
  <<Sub(Sub(V0, C0), V1), "any", Add(Sub(V0, V1), K(-1, 0, 0, 0))>>,
  <<Add(Sub(C0, V0), V1), "any", Add(Sub(V1, V0), C0)>>,
  <<Sub(Sub(C0, V0), V1), "any", Sub(C0, Add(V0, V1))>>,
  <<Add(V0, Add(V1, C0)), "any", Add(Add(V0, V1), C0)>>,
  <<Add(V0, Sub(V1, C0)), "any", Add(Add(V0, V1), K(-1, 0, 0, 0))>>,
  <<Sub(V0, Add(V1, C0)), "any", Add(Sub(V0, V1), K(-1, 0, 0, 0))>>,
  <<Sub(V0, Sub(V1, C0)), "any", Add(Sub(V0, V1), C0)>>,
  <<Add(V0, Sub(C0, V1)), "any", Add(Sub(V0, V1), C0)>>,
  <<Sub(V0, Sub(C0, V1)), "any", Add(Add(V0, V1), K(-1, 0, 0, 0))>> >>

SwapsForEver ==
  FoldingRules \o ReassociationRules \o << <<Add(V0, V1), "any", <<"swap">>>> >>

Rules == FoldingRules \o GatheringRules \o ReassociationRules

isOperation(x) == Len(x) = 3

\* llvm::PatternMatch::match: the value v fits the pattern x, with these leaves bound.
Leaf(x, v) == x \in {C0, C1} => isConstantInt(v)

Fits(p, x, v) ==
  IF isOperation(x)
  THEN IsInst(v) /\ p.kind[v] = x[1] /\ Leaf(x[2], p.args[v][1]) /\ Leaf(x[3], p.args[v][2])
  ELSE Leaf(x, v)

Bindings(p, x, v) ==
  IF isOperation(x) THEN (x[2][1] :> p.args[v][1]) @@ (x[3][1] :> p.args[v][2])
                    ELSE x[1] :> v

Bound(p, I, x) == Bindings(p, x[2], p.args[I][1]) @@ Bindings(p, x[3], p.args[I][2])

Holds(condition, c) ==
  CASE condition = "any"        -> TRUE
    [] condition = "isZero"     -> getZExtValue(c) = 0
    [] condition = "isOne"      -> getZExtValue(c) = 1
    [] condition = "isMinusOne" -> getSExtValue(c) = -1

Matches(p, I, rule) ==
  LET x == rule[1]
  IN  /\ p.kind[I] = x[1] /\ Fits(p, x[2], p.args[I][1]) /\ Fits(p, x[3], p.args[I][2])
      /\ rule[2] = "any" \/ Holds(rule[2], Bound(p, I, x)["C0"])

MatchingRules(p, I) ==
  IF p.kind[I] \in {"add", "sub", "mul"} THEN {k \in DOMAIN Rules : Matches(p, I, Rules[k])} ELSE {}

\* The operand a leaf of a result stands for.
LeafValue(b, x, type) ==
  IF x[1] = "K"
  THEN LET c0 == IF "C0" \in DOMAIN b THEN getSExtValue(b["C0"]) ELSE 0
           c1 == IF "C1" \in DOMAIN b THEN getSExtValue(b["C1"]) ELSE 0
       IN  Const(type, x[2] * c0 + x[3] * c1 + x[4] * c0 * c1 + x[5])
  ELSE b[x[1]]

\* A rule is applied: I is left without users, or gets its operands swapped.
ApplyRule(p, I, rule) ==
  LET b    == Bound(p, I, rule[1])
      type == p.type[I]
      x    == rule[3]
      \* the result's operand k: a leaf, or an instruction B0 of its own
      inner(q, k) == IF isOperation(x[k])
                     THEN Insert(q, I, x[k][1], type,
                            <<LeafValue(b, x[k][2], type), LeafValue(b, x[k][3], type)>>, "")
                     ELSE q
      operand(k)  == IF isOperation(x[k]) THEN FreshInst(p) ELSE LeafValue(b, x[k], type)
      q    == inner(inner(p, 2), 3)
  IN  CASE x[1] = "swap"  -> [p EXCEPT !.args[I] = <<@[2], @[1]>>]
        [] isOperation(x) -> replaceAllUsesWith(
                               Insert(q, I, x[1], type, <<operand(2), operand(3)>>, ""),
                               I, FreshInst(q))
        [] OTHER          -> replaceAllUsesWith(p, I, LeafValue(b, x, type))

\* One iteration of the loop over the instructions.
Combine(p, I) == ApplyRule(p, I, Rules[Min(MatchingRules(p, I))])
=============================================================================
