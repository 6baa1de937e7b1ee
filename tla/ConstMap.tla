------------------------------ MODULE ConstMap ------------------------------
(***************************************************************************)
(* const_map.cpp: the per-function cache of instructions that materialise  *)
(* constants. An i64 is a call of const_i64 with a literal argument; a     *)
(* narrower integer is a truncation of the i64 with the same value; a      *)
(* splat vector is a broadcast of its element.                             *)
(***************************************************************************)
EXTENDS SSAProgram

Wide(c) == -(CHOOSE k \in DOMAIN Pool : Pool[k] = [type |-> "i64", value |-> Pool[-c].value])

ElementType(type) == CASE type = "v4i64" -> "i64" [] type = "v8i32" -> "i32"
Element(c) == -(CHOOSE k \in DOMAIN Pool :
                  Pool[k] = [type |-> ElementType(Pool[-c].type), value |-> Pool[-c].value])

IsVector(type) == type \in {"v4i64", "v8i32"}

\* Constants go in front of their first use when that is in the entry block, and
\* at the end of the entry block otherwise, so that they dominate every use.
InsertPoint(p, use) == IF BlockOf(p, use) = 1 THEN use ELSE getTerminator(p, 1)

\* Add an instruction that materialises constant c before t.
CachesUse(p, t, c, kind, args) ==
  [InsertBefore(p, t, FreshInst(p), kind, args, Pool[-c].type) EXCEPT !.cmap = Extended(@, c, t)]

Materialise(p, t, c, kind, args) ==
  LET I == FreshInst(p)
  IN  [InsertBefore(p, t, I, kind, args, Pool[-c].type) EXCEPT !.cmap = Extended(@, c, I)]

NeverCached(p, c) == FALSE
Cached(p, c) == c \in DOMAIN p.cmap

ResolveWide(p, c, t) == IF Cached(p, c) THEN p ELSE Materialise(p, t, c, "const", <<c>>)

ResolveInt(p, c, t) ==
  LET q == ResolveWide(p, Wide(c), t)
  IN  IF Cached(p, c) \/ c = Wide(c) THEN q
      ELSE Materialise(q, t, c, "move", <<q.cmap[Wide(c)]>>)

\* resolve_constant(F, cst, insert_before): the function with constant c available;
\* the instruction returned is cmap[c] of the result.
resolve_constant(p, c, use) ==
  LET t == InsertPoint(p, use)
  IN  IF Cached(p, c) THEN p
      ELSE IF IsVector(Pool[-c].type)
           THEN LET q == ResolveInt(p, Element(c), t)
                IN  Materialise(q, t, c, "op", <<q.cmap[Element(c)]>>)
           ELSE ResolveInt(p, c, t)
=============================================================================
