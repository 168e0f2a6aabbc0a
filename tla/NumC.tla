-------------------------------- MODULE NumC --------------------------------
(***************************************************************************)
(* The C program `ls emit-c` writes for a scalar function, and what C      *)
(* makes of it.  emit_c.c copies operators and literals into C text and    *)
(* leaves every conversion to C, so the meaning of the output is that of   *)
(* C's promotions and usual arithmetic conversions.                        *)
(*                                                                         *)
(* A C value is [s, t, v]: s is "ok", "undef", or "unsupported" when the   *)
(* function is not emitted; t a C type <<kind, width>> with kind "s", "u"  *)
(* or "f"; v the number.                                                   *)
(***************************************************************************)
EXTENDS NumCheck

CONSTANT CFuel      \* bound on the iterations of one C loop

CInt == <<"s", Bits32>>

CLong == <<"s", Bits64>>

CDouble == <<"f", Mant64>>

c_scalar_name_float(t) ==
    CASE t = "bool" -> <<"u", 1>>
      [] type_is_float(t) -> <<"f", Mant32>>
      [] type_is_unsigned(t) -> <<"u", type_int_bits(t)>>
      [] OTHER -> <<"s", type_int_bits(t)>>

(* c_scalar_name: char is C's char, signed on the targets of this command. *)
c_scalar_name(t) ==
    CASE t = "bool" -> <<"u", 1>>
      [] t = "char" -> <<"s", Bits8>>
      [] type_is_float(t) -> <<"f", type_float_mantissa_bits(t)>>
      [] type_is_signed(t) -> <<"s", type_int_bits(t)>>
      [] OTHER -> <<"u", type_int_bits(t)>>

Cv(t, v) == [s |-> "ok", t |-> t, v |-> v]

CBad(s) == [s |-> s, t |-> CInt, v |-> 0]

CRange(t) ==
    IF t[1] = "s" THEN -2^(t[2] - 1)..(2^(t[2] - 1) - 1) ELSE 0..(2^t[2] - 1)

(* Conversion to type t: modular to integers (bool: not zero), rounding to *)
(* floats; a float out of the range of an integer type is undefined.       *)
convert(t, x) ==
    CASE x.s # "ok" -> x
      [] t[1] = "f" -> Cv(t, RoundTo(x.v, t[2]))
      [] t = <<"u", 1>> -> Cv(t, Truth(x.v # 0))
      [] x.t[1] = "f" /\ x.v \notin CRange(t) -> CBad("undef")
      [] t[1] = "u" -> Cv(t, AsBits(x.v, t[2]))
      [] OTHER -> Cv(t, AsSigned(AsBits(x.v, t[2]), t[2]))

promoted(t) == IF t[1] # "f" /\ t[2] < Bits32 THEN CInt ELSE t

usual(t, u) ==
    LET a == promoted(t)
        b == promoted(u)
        widest == IF a[2] >= b[2] THEN a ELSE b
    IN CASE a[1] = "f" /\ b[1] = "f" -> widest
         [] a[1] = "f" -> a
         [] b[1] = "f" -> b
         [] a[2] = b[2] -> IF a[1] = "u" THEN a ELSE b
         [] OTHER -> widest

(* The result of an operation carried out in type t. *)
result(t, v) ==
    CASE t[1] = "f" -> Cv(t, RoundTo(v, t[2]))
      [] t[1] = "u" -> Cv(t, AsBits(v, t[2]))
      [] v \in CRange(t) -> Cv(t, v)
      [] OTHER -> CBad("undef")

(* A decimal literal; a negative one is a minus sign and a literal. *)
c_int_lit(v) == Cv(IF Abs(v) < 2^(Bits32 - 1) THEN CInt ELSE CLong, v)

c_shift(op, x, y) ==
    LET t == promoted(x.t)
    IN CASE y.v \notin 0..(t[2] - 1) -> CBad("undef")
         [] op = "<<" /\ x.v < 0 -> CBad("undef")
         [] op = "<<" -> result(t, x.v * 2^y.v)
         [] OTHER -> Cv(t, x.v \div 2^y.v)

c_binary(op, x, y) ==
    LET t == usual(x.t, y.t)
        a == convert(t, x).v
        b == convert(t, y).v
    IN CASE x.s # "ok" -> x
         [] y.s # "ok" -> y
         [] op \in ShiftOps -> c_shift(op, x, y)
         [] op \in EqOps \union OrderOps -> Cv(CInt, Truth(Compare(op, a, b)))
         [] op = "+" -> result(t, a + b)
         [] op = "-" -> result(t, a - b)
         [] op = "*" -> result(t, a * b)
         [] op \in {"/", "%"} /\ b = 0 -> CBad("undef")
         [] op = "/" -> result(t, TruncDiv(a, b))
         [] op = "%" -> IF TruncDiv(a, b) \in CRange(t) THEN Cv(t, TruncRem(a, b))
                        ELSE CBad("undef")
         [] OTHER -> convert(t, Cv(CLong, BitOp(op, AsBits(a, t[2]), AsBits(b, t[2]))))

c_unary(op, x) ==
    CASE x.s # "ok" -> x
      [] op = "!" -> Cv(CInt, Truth(x.v = 0))
      [] op = "-" -> result(promoted(x.t), -x.v)
      [] OTHER -> CBad("unsupported")

RECURSIVE emit_expr(_, _, _)
emit_expr(e, env, const) ==
    CASE e.k = "int" -> c_int_lit(e.v)
      [] e.k = "flt" -> Cv(CDouble, RoundTo(e.v, Mant64))
      [] e.k = "bool" -> Cv(CInt, Truth(e.v))
      [] e.k = "konst" /\ const.t = "bool" -> Cv(CInt, const.v)
      [] e.k = "konst" /\ type_is_float(const.t) -> Cv(CDouble, RoundTo(const.v, Mant64))
      [] e.k = "konst" -> c_int_lit(const.v)
      [] e.k = "var" -> env[Lookup(env, e.n)].v
      [] e.k = "elem" ->
            LET x == emit_expr(e.i, env, const)
                a == env[Lookup(env, e.n)].a
            IN CASE x.s # "ok" -> x
                 [] x.v \in 0..(Len(a) - 1) -> a[x.v + 1]
                 [] OTHER -> CBad("undef")
      [] e.k = "un" -> c_unary(e.op, emit_expr(e.e, env, const))
      [] e.k = "bin" /\ e.op \in LogicOps ->
            LET x == emit_expr(e.l, env, const)
                y == emit_expr(e.r, env, const)
            IN CASE x.s # "ok" -> x
                 [] (x.v # 0) = (e.op = "||") -> Cv(CInt, Truth(x.v # 0))
                 [] y.s # "ok" -> y
                 [] OTHER -> Cv(CInt, Truth(y.v # 0))
      [] e.k = "bin" ->
            c_binary(e.op, emit_expr(e.l, env, const), emit_expr(e.r, env, const))
      [] e.k = "cast" -> convert(c_scalar_name(e.t), emit_expr(e.e, env, const))
      [] e.k = "math" -> CBad("unsupported")

-----------------------------------------------------------------------------
(* Statements; the environment and the flow are as in NumCode. *)

CGoing(env) == [env |-> env, flow |-> "normal", val |-> CBad("undef")]

CStuck(env, x) == [env |-> env, flow |-> x.s, val |-> x]

CLeave(r, env) == [r EXCEPT !.env = SubSeq(r.env, 1, Len(env))]

CSlot(n, t, v, a) == [n |-> n, t |-> c_scalar_name(t), v |-> v, a |-> a]

AssignOp(op) == CASE op = "+=" -> "+" [] op = "-=" -> "-" [] op = "*=" -> "*"
                  [] op = "/=" -> "/"

(* op is the operator written to the C text. *)
emit_assign(s, op, env, const) ==
    LET at == Lookup(env, s.x.n)
        y == emit_expr(s.e, env, const)
        cur == emit_expr(s.x, env, const)
        z == convert(env[at].t, IF op = "=" THEN y ELSE c_binary(AssignOp(op), cur, y))
        i == IF s.x.k = "var" THEN c_int_lit(0) ELSE emit_expr(s.x.i, env, const)
    IN CASE z.s # "ok" -> CStuck(env, z)
         [] s.x.k = "var" -> CGoing([env EXCEPT ![at].v = z])
         [] i.s # "ok" -> CStuck(env, i)
         [] i.v \notin 0..(Len(env[at].a) - 1) -> CStuck(env, CBad("undef"))
         [] OTHER -> CGoing([env EXCEPT ![at].a[i.v + 1] = z])

emit_decl(s, env, const) ==
    LET x == convert(c_scalar_name(s.t), emit_expr(s.e, env, const))
    IN IF x.s = "ok" THEN CGoing(Append(env, CSlot(s.n, s.t, x, <<>>))) ELSE CStuck(env, x)

(* The third clause of a C for-loop: " = " is written for every operator.  *)
emit_update(s, env, const) == emit_assign(s, "=", env, const)

RECURSIVE emit_stmt(_, _, _, _), emit_block(_, _, _, _), c_for(_, _, _, _, _)

emit_block(ss, env, const, ret) ==
    IF ss = <<>> THEN CGoing(env)
    ELSE LET r == emit_stmt(Head(ss), env, const, ret)
         IN IF r.flow = "normal" THEN emit_block(Tail(ss), r.env, const, ret) ELSE r

(* Both for-loops are C for-loops: the condition, with the end of a range  *)
(* in it, is evaluated before every iteration.                             *)
c_for(s, env, const, ret, fuel) ==
    LET c == IF s.k = "forc" THEN emit_expr(s.c, env, const)
             ELSE c_binary("<", env[Len(env)].v, emit_expr(s.hi, env, const))
    IN CASE c.s # "ok" -> CStuck(env, c)
         [] c.v = 0 -> CGoing(env)
         [] fuel = 0 -> CStuck(env, CBad("undef"))
         [] OTHER ->
            LET b == CLeave(emit_block(s.body, env, const, ret), env)
                u == IF s.k = "forc" THEN emit_update(s.upd, b.env, const)
                     ELSE emit_assign(Assign("+=", Var(s.n), Int_(1)), "+=", b.env, const)
            IN IF b.flow # "normal" THEN b
               ELSE IF u.flow # "normal" THEN u
               ELSE c_for(s, u.env, const, ret, fuel - 1)

emit_stmt(s, env, const, ret) ==
    CASE s.k = "decl" -> emit_decl(s, env, const)
      [] s.k = "arr" ->
            CGoing(Append(env, CSlot(s.n, s.t, CBad("undef"),
                                     [i \in 1..s.len |-> CBad("undef")])))
      [] s.k = "assign" -> emit_assign(s, s.op, env, const)
      [] s.k = "if" ->
            LET c == emit_expr(s.c, env, const)
            IN IF c.s # "ok" THEN CStuck(env, c)
               ELSE CLeave(emit_block(IF c.v # 0 THEN s.a ELSE s.b, env, const, ret), env)
      [] s.k \in {"for", "forc"} ->
            LET i == IF s.k = "for" THEN emit_decl(Decl("int", s.n, s.lo), env, const)
                     ELSE emit_stmt(s.init, env, const, ret)
            IN IF i.flow # "normal" THEN i
               ELSE CLeave(c_for(s, i.env, const, ret, CFuel), env)
      [] s.k = "block" -> CLeave(emit_block(s.ss, env, const, ret), env)
      [] s.k = "expr" ->
            LET x == emit_expr(s.e, env, const)
            IN IF x.s = "ok" THEN CGoing(env) ELSE CStuck(env, x)
      [] s.k = "ret" ->
            LET x == convert(c_scalar_name(ret), emit_expr(s.e, env, const))
            IN IF x.s = "ok" THEN [env |-> env, flow |-> "returned", val |-> x]
               ELSE CStuck(env, x)

(* Whether emit_fn accepts the function: it stops at the first expression  *)
(* it has no C for, executed or not.                                       *)
RECURSIVE ExprsIn(_), Exprs(_)
ExprsIn(e) ==
    {e} \union CASE e.k \in {"un", "cast"} -> ExprsIn(e.e)
                 [] e.k \in {"bin", "math"} -> ExprsIn(e.l) \union ExprsIn(e.r)
                 [] e.k = "elem" -> ExprsIn(e.i)
                 [] OTHER -> {}
Exprs(s) ==
    CASE s.k \in {"decl", "expr", "ret"} -> ExprsIn(s.e)
      [] s.k = "arr" -> {}
      [] s.k = "assign" -> ExprsIn(s.x) \union ExprsIn(s.e)
      [] s.k = "if" -> ExprsIn(s.c) \union UNION {Exprs(s.a[i]) : i \in DOMAIN s.a}
                          \union UNION {Exprs(s.b[i]) : i \in DOMAIN s.b}
      [] s.k = "for" -> ExprsIn(s.lo) \union ExprsIn(s.hi)
                          \union UNION {Exprs(s.body[i]) : i \in DOMAIN s.body}
      [] s.k = "forc" -> Exprs(s.init) \union ExprsIn(s.c) \union Exprs(s.upd)
                          \union UNION {Exprs(s.body[i]) : i \in DOMAIN s.body}
      [] s.k = "block" -> UNION {Exprs(s.ss[i]) : i \in DOMAIN s.ss}

emit_fn_ok(ss) ==
    \A i \in DOMAIN ss : \A e \in Exprs(ss[i]) :
        e.k # "math" /\ (e.k = "un" => e.op # "~")

(* emit_fn and the run of its output. *)
emit_fn(ss, t, const) ==
    IF emit_fn_ok(ss) THEN emit_block(ss, <<>>, const, t)
    ELSE CStuck(<<>>, CBad("unsupported"))
=============================================================================
