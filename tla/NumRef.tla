------------------------------- MODULE NumRef -------------------------------
(***************************************************************************)
(* The meaning of a scalar program: every expression has the type the      *)
(* checker gives it on its first walk, and denotes the mathematical result *)
(* of its operation, brought back into that type when it leaves it.        *)
(*                                                                         *)
(* A value is [s, v].  s is "exact" while no result depended on the width  *)
(* of its type, "wrapped" once one did, "undef" when the program has no    *)
(* meaning: a zero divisor, a shift past the width, signed overflow, an    *)
(* index out of bounds.                                                    *)
(***************************************************************************)
EXTENDS NumCheck

CONSTANT RefFuel    \* bound on the iterations of one loop

Rv(s, v) == [s |-> s, v |-> v]

Undef == Rv("undef", 0)

ValuesOf(t) ==
    CASE t = "bool" -> 0..1
      [] type_is_signed(t) -> -2^(type_int_bits(t) - 1)..(2^(type_int_bits(t) - 1) - 1)
      [] type_is_unsigned(t) -> 0..(2^type_int_bits(t) - 1)

Least(s1, s2) == CASE "undef" \in {s1, s2} -> "undef"
                   [] "wrapped" \in {s1, s2} -> "wrapped"
                   [] OTHER -> "exact"

(* v as a value of type t; one that does not fit is wrapped. *)
Into(t, s, v) ==
    IF type_is_float(t)
    THEN LET m == RoundTo(v, type_float_mantissa_bits(t))
         IN Rv(IF m = v THEN s ELSE Least(s, "wrapped"), m)
    ELSE IF v \in ValuesOf(t) THEN Rv(s, v)
    ELSE LET p == AsBits(v, type_int_bits(t))
         IN Rv(Least(s, "wrapped"),
               IF type_is_signed(t) THEN AsSigned(p, type_int_bits(t)) ELSE p)

(* Signed arithmetic that overflows has no meaning. *)
Arith(t, s, v) ==
    IF type_is_signed(t) /\ v \notin ValuesOf(t) THEN Undef ELSE Into(t, s, v)

RefBinary(op, t, lt, x, y) ==
    LET s == Least(x.s, y.s)
        bits(v) == AsBits(v, type_int_bits(t))
    IN CASE s = "undef" -> Undef
         [] op \in EqOps \union OrderOps -> Rv(s, Truth(Compare(op, x.v, y.v)))
         [] op = "+" -> Arith(t, s, x.v + y.v)
         [] op = "-" -> Arith(t, s, x.v - y.v)
         [] op = "*" -> Arith(t, s, x.v * y.v)
         [] op \in {"/", "%"} /\ y.v = 0 -> Undef
         [] op = "/" -> Arith(t, s, TruncDiv(x.v, y.v))
         [] op = "%" -> IF type_is_signed(t) /\ TruncDiv(x.v, y.v) \notin ValuesOf(t)
                        THEN Undef ELSE Rv(s, TruncRem(x.v, y.v))
         [] op \in BitOps -> Into(t, s, LET v == BitOp(op, bits(x.v), bits(y.v))
                                        IN IF type_is_signed(t)
                                           THEN AsSigned(v, type_int_bits(t)) ELSE v)
         [] op \in ShiftOps /\ y.v \notin 0..(type_int_bits(lt) - 1) -> Undef
         [] op = "<<" -> IF x.v < 0 THEN Into(t, "wrapped", x.v * 2^y.v)
                         ELSE Into(t, s, x.v * 2^y.v)
         [] op = ">>" -> Rv(s, x.v \div 2^y.v)

RefUnary(op, t, x) ==
    CASE x.s = "undef" -> Undef
      [] op = "!" -> Rv(x.s, 1 - x.v)
      [] op = "-" -> Into(t, x.s, -x.v)
      [] op = "~" -> Into(t, x.s, -1 - x.v)

(* A float out of the range of an integer type has no meaning there. *)
RefCast(t, from, x) ==
    CASE x.s = "undef" -> Undef
      [] type_is_float(from) /\ ~type_is_float(t) /\ x.v \notin ValuesOf(t) -> Undef
      [] OTHER -> Into(t, x.s, x.v)

RefMath(fn, t, x, y) ==
    CASE Least(x.s, y.s) = "undef" -> Undef
      [] fn = "abs" -> Into(t, x.s, Abs(x.v))
      [] fn = "min" -> Rv(Least(x.s, y.s), IF x.v < y.v THEN x.v ELSE y.v)
      [] fn = "max" -> Rv(Least(x.s, y.s), IF x.v > y.v THEN x.v ELSE y.v)

TypesOf(env) == [i \in 1..Len(env) |-> [n |-> env[i].n, t |-> env[i].t,
                                        len |-> Len(env[i].a)]]

RECURSIVE Meaning(_, _, _)
Meaning(e, env, const) ==
    LET type(x) == check_expr(x, TypesOf(env), 1, const)
    IN CASE e.k \in {"int", "flt"} -> Rv("exact", e.v)
         [] e.k = "bool" -> Rv("exact", Truth(e.v))
         [] e.k = "konst" -> Into(const.t, "exact", const.v)
         [] e.k = "var" -> env[Lookup(env, e.n)].v
         [] e.k = "elem" ->
               LET x == Meaning(e.i, env, const)
                   a == env[Lookup(env, e.n)].a
               IN IF x.s # "undef" /\ x.v \in 0..(Len(a) - 1)
                  THEN Rv(Least(x.s, a[x.v + 1].s), a[x.v + 1].v) ELSE Undef
         [] e.k = "un" -> RefUnary(e.op, type(e), Meaning(e.e, env, const))
         [] e.k = "bin" /\ e.op \in LogicOps ->
               LET x == Meaning(e.l, env, const)
                   y == Meaning(e.r, env, const)
               IN IF x.s = "undef" \/ x.v = Truth(e.op = "||") THEN x
                  ELSE Rv(Least(x.s, y.s), y.v)
         [] e.k = "bin" -> RefBinary(e.op, type(e), type(e.l), Meaning(e.l, env, const),
                                     Meaning(e.r, env, const))
         [] e.k = "cast" -> RefCast(e.t, type(e.e), Meaning(e.e, env, const))
         [] e.k = "math" -> RefMath(e.fn, type(e), Meaning(e.l, env, const),
                                    Meaning(IF e.fn = "abs" THEN e.l ELSE e.r, env, const))

-----------------------------------------------------------------------------
(* Statements. *)

RGoing(env) == [env |-> env, flow |-> "normal", val |-> Undef]

RStuck(env) == [env |-> env, flow |-> "undef", val |-> Undef]

RLeave(r, env) == [r EXCEPT !.env = SubSeq(r.env, 1, Len(env))]

(* After a decision that depended on a width everything else does. *)
Dim(x) == Rv(Least(x.s, "wrapped"), x.v)

Taint(r, x) ==
    IF x.s = "exact" THEN r
    ELSE [r EXCEPT !.val = Dim(@),
                   !.env = [i \in 1..Len(@) |->
                              [@[i] EXCEPT !.v = Dim(@),
                                           !.a = [j \in 1..Len(@) |-> Dim(@[j])]]]]

OperatorOf(op) == CASE op = "+=" -> "+" [] op = "-=" -> "-" [] op = "*=" -> "*"
                    [] op = "/=" -> "/"

(* `x op= e` is `x = x op e`, narrowed to the type of x. *)
RefAssign(s, env, const) ==
    LET at == Lookup(env, s.x.n)
        t == env[at].t
        e == IF s.op = "=" THEN s.e ELSE Bin(OperatorOf(s.op), s.x, s.e)
        y == Meaning(e, env, const)
        z == IF y.s = "undef" THEN y ELSE Into(t, y.s, y.v)
        i == IF s.x.k = "var" THEN Rv("exact", 0) ELSE Meaning(s.x.i, env, const)
    IN CASE z.s = "undef" \/ i.s = "undef" -> RStuck(env)
         [] s.x.k = "var" -> RGoing([env EXCEPT ![at].v = z])
         [] i.v \notin 0..(Len(env[at].a) - 1) -> RStuck(env)
         [] OTHER -> RGoing([env EXCEPT ![at].a[i.v + 1] = z])

RECURSIVE RefStmt(_, _, _, _), RefBlock(_, _, _, _), RefFor(_, _, _, _, _, _, _),
          RefForC(_, _, _, _, _)

RefBlock(ss, env, const, ret) ==
    IF ss = <<>> THEN RGoing(env)
    ELSE LET r == RefStmt(Head(ss), env, const, ret)
         IN IF r.flow = "normal" THEN RefBlock(Tail(ss), r.env, const, ret) ELSE r

(* The loop variable is an ordinary variable of the body; the end is fixed *)
(* on entry.                                                               *)
RefFor(s, i, hi, env, const, ret, fuel) ==
    IF i.v >= hi THEN RGoing(env)
    ELSE IF fuel = 0 THEN RStuck(env)
    ELSE LET scope == Append(env, [n |-> s.n, t |-> "int", v |-> i, a |-> <<>>])
             r == RLeave(RefBlock(s.body, scope, const, ret), scope)
             nxt == Arith("int", r.env[Len(scope)].v.s, r.env[Len(scope)].v.v + 1)
             after == Taint(RLeave(r, env), nxt)
         IN IF r.flow # "normal" THEN after
            ELSE IF nxt.s = "undef" THEN RStuck(env)
            ELSE RefFor(s, nxt, hi, after.env, const, ret, fuel - 1)

RefForC(s, env, const, ret, fuel) ==
    LET c == Meaning(s.c, env, const)
    IN CASE c.s = "undef" \/ fuel = 0 -> RStuck(env)
         [] c.v = 0 -> RGoing(env)
         [] OTHER ->
            LET b == RLeave(RefBlock(s.body, env, const, ret), env)
                u == RefStmt(s.upd, b.env, const, ret)
            IN IF b.flow # "normal" THEN b
               ELSE IF u.flow # "normal" THEN u
               ELSE RefForC(s, u.env, const, ret, fuel - 1)

RefStmt(s, env, const, ret) ==
    CASE s.k = "decl" ->
            LET x == Meaning(s.e, env, const)
            IN IF x.s = "undef" THEN RStuck(env)
               ELSE RGoing(Append(env, [n |-> s.n, t |-> s.t, v |-> x, a |-> <<>>]))
      [] s.k = "arr" -> RGoing(Append(env, [n |-> s.n, t |-> s.t, v |-> Undef,
                                            a |-> [i \in 1..s.len |-> Undef]]))
      [] s.k = "assign" -> RefAssign(s, env, const)
      [] s.k = "if" ->
            LET c == Meaning(s.c, env, const)
            IN IF c.s = "undef" THEN RStuck(env)
               ELSE Taint(RLeave(RefBlock(IF c.v = 1 THEN s.a ELSE s.b, env, const, ret),
                                 env), c)
      [] s.k = "for" ->
            LET lo == Meaning(s.lo, env, const)
                hi == Meaning(s.hi, env, const)
            IN IF "undef" \in {lo.s, hi.s} \/ ~{lo.v, hi.v} \subseteq ValuesOf("int")
               THEN RStuck(env)
               ELSE Taint(Taint(RefFor(s, lo, hi.v, env, const, ret, RefFuel), lo), hi)
      [] s.k = "forc" ->
            LET i == RefStmt(s.init, env, const, ret)
            IN IF i.flow # "normal" THEN i
               ELSE RLeave(RefForC(s, i.env, const, ret, RefFuel), env)
      [] s.k = "block" -> RLeave(RefBlock(s.ss, env, const, ret), env)
      [] s.k = "expr" -> RGoing(env)
      [] s.k = "ret" ->
            LET x == Meaning(s.e, env, const)
            IN IF x.s = "undef" THEN RStuck(env)
               ELSE [env |-> env, flow |-> "returned", val |-> x]

Meaning_fn(ss, t, const) == RefBlock(ss, <<>>, const, t)
=============================================================================
