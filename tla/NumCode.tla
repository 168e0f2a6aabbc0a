------------------------------- MODULE NumCode -------------------------------
(***************************************************************************)
(* The LLVM code emitted for a scalar program, and what it computes.  An   *)
(* emitted value is a record                                               *)
(*    ty  the type the checker gave the node                               *)
(*    t   the LLVM type the instruction really has                         *)
(*    v   the word (0 .. 2^width - 1), or the value of a float             *)
(*    s   "ok"; "ill" when an instruction's operands do not fit together   *)
(*        (the module fails verification, or a store writes a word of      *)
(*        another width than its slot); "undef" for poison and traps       *)
(***************************************************************************)
EXTENDS NumCheck

CONSTANT Fuel       \* bound on the iterations of one loop

Emit(ty, t, v) == [ty |-> ty, s |-> "ok", t |-> t, v |-> v]

Bad(ty, s) == [ty |-> ty, s |-> s, t |-> type_to_llvm(ty), v |-> 0]

(* The number a word stands for under type t. *)
Reading(t, x) ==
    IF type_is_signed(t) /\ x.t[1] = "i" THEN AsSigned(x.v, x.t[2]) ELSE x.v

(* An instruction on two operands needs operands of one type. *)
Operands(ty, l, r) ==
    CASE l.s = "ill" \/ r.s = "ill" -> "ill"
      [] l.t # r.t -> "ill"
      [] l.s # "ok" \/ r.s # "ok" -> "undef"
      [] OTHER -> "ok"

(* codegen_expr, AST_INT_LIT: a 64-bit word for i64/u64, else 32 bits,     *)
(* whatever type the node has.                                             *)
emit_int_lit(ty, v) ==
    LET w == IF ty \in {"i64", "u64"} THEN Bits64 ELSE Bits32
    IN Emit(ty, <<"i", w>>, AsBits(v, w))

emit_float_lit(ty, v) == Emit(ty, <<"f", Mant64>>, RoundTo(v, Mant64))

emit_const(const, w) ==
    LET ty == folded_type(const, w)
    IN CASE const.t = "bool" -> Emit(ty, <<"i", 1>>, const.v)
         [] type_is_float(const.t) -> emit_float_lit(ty, const.v)
         [] OTHER -> emit_int_lit(ty, const.v)

(* An extension instruction to a narrower word is ill-formed; to a word of *)
(* the same width it is no instruction at all.                             *)
extend(x, from, to) ==
    LET w == type_to_llvm(to)[2]
    IN CASE x.t[2] > w -> Bad(to, "ill")
         [] OTHER -> Emit(to, <<"i", w>>, AsBits(Reading(from, x), w))

to_float(x, from, to) ==
    LET m == type_float_mantissa_bits(to)
    IN Emit(to, <<"f", m>>, RoundTo(Reading(from, x), m))

cg_widen_zext(x, from, to) ==
    CASE x.s # "ok" \/ from = to \/ ~type_widens_to(from, to) -> x
      [] type_is_float(to) -> to_float(x, from, to)
      [] OTHER -> extend(x, "u64", to)

cg_widen(x, from, to) ==
    CASE x.s # "ok" \/ from = to \/ ~type_widens_to(from, to) -> x
      [] type_is_float(to) -> to_float(x, from, to)
      [] OTHER -> extend(x, from, to)

(* nsw arithmetic: leaving the range of the signed word is poison. *)
nsw(ty, lt, v) ==
    LET w == lt[2]
    IN IF -2^(w - 1) <= v /\ v < 2^(w - 1)
       THEN Emit(ty, lt, AsBits(v, w)) ELSE Bad(ty, "undef")

int_arith(op, ty, opt, l, r) ==
    LET a == Reading(opt, l)
        b == Reading(opt, r)
        exact == CASE op = "+" -> a + b
                   [] op = "-" -> a - b
                   [] op = "*" -> a * b
                   [] op = "/" -> IF b = 0 THEN 0 ELSE TruncDiv(a, b)
                   [] op = "%" -> IF b = 0 THEN 0 ELSE TruncRem(a, b)
    IN CASE op \in {"/", "%"} /\ b = 0 -> Bad(ty, "undef")
         [] type_is_signed(opt) -> nsw(ty, l.t, IF op = "%" /\ b = -1
                                               THEN TruncDiv(a, b) ELSE exact)
         [] OTHER -> Emit(ty, l.t, AsBits(exact, l.t[2]))

int_shift(op, ty, opt, l, r) ==
    IF r.v >= l.t[2] THEN Bad(ty, "undef")
    ELSE Emit(ty, l.t, AsBits(IF op = "<<" THEN l.v * 2^r.v
                              ELSE Reading(opt, l) \div 2^r.v, l.t[2]))

float_arith(op, ty, l, r) ==
    LET exact == CASE op = "+" -> l.v + r.v
                   [] op = "-" -> l.v - r.v
                   [] op = "*" -> l.v * r.v
    IN Emit(ty, l.t, RoundTo(exact, l.t[2]))

(* cg_expr_binary: both operands are brought to their common type, if they *)
(* have one, and the instruction is chosen by it; otherwise by the type of *)
(* the left one.                                                           *)
cg_expr_binary(op, ty, l0, r0) ==
    LET common == type_numeric_common(l0.ty, r0.ty)
        opt == IF common = "none" THEN l0.ty ELSE common
        l == IF common = "none" THEN l0 ELSE cg_widen(l0, l0.ty, common)
        r == IF common = "none" THEN r0 ELSE cg_widen(r0, r0.ty, common)
    IN CASE Operands(ty, l, r) # "ok" -> Bad(ty, Operands(ty, l, r))
         [] op \in EqOps \union OrderOps ->
               Emit("bool", <<"i", 1>>,
                    Truth(Compare(op, Reading(opt, l), Reading(opt, r))))
         [] op \in ArithOps \union {"%"} /\ type_is_float(opt) ->
               float_arith(op, ty, l, r)
         [] op \in ArithOps \union {"%"} -> int_arith(op, ty, opt, l, r)
         [] op \in BitOps -> Emit(ty, l.t, BitOp(op, l.v, r.v))
         [] op \in ShiftOps -> int_shift(op, ty, opt, l, r)

(* neg has no nsw flag; bitwise not covers both ! on i1 and ~.             *)
cg_expr_unary(op, ty, x) ==
    CASE x.s # "ok" -> Bad(ty, x.s)
      [] op = "-" /\ x.t[1] = "f" -> Emit(ty, x.t, -x.v)
      [] op = "-" -> Emit(ty, x.t, AsBits(-x.v, x.t[2]))
      [] OTHER -> Emit(ty, x.t, 2^x.t[2] - 1 - x.v)

(* A conversion of a float that does not fit its integer type is poison.   *)
cg_expr_cast(to, x) ==
    LET lt == type_to_llvm(to)
        lo == IF type_is_signed(to) THEN -2^(lt[2] - 1) ELSE 0
        hi == IF type_is_signed(to) THEN 2^(lt[2] - 1) ELSE 2^lt[2]
    IN CASE x.s # "ok" -> Bad(to, x.s)
         [] type_is_float(to) -> to_float(x, x.ty, to)
         [] type_is_integer(x.ty) -> Emit(to, lt, AsBits(Reading(x.ty, x), lt[2]))
         [] OTHER -> IF lo <= x.v /\ x.v < hi THEN Emit(to, lt, AsBits(x.v, lt[2]))
                     ELSE Bad(to, "undef")

(* builtins_math_cg.c.  All-integer arguments: an intrinsic of the width   *)
(* type_int_bits gives, on words extended by hand.                         *)
MathPick(fn, a, b) ==
    CASE fn = "abs" -> Abs(a)
      [] fn = "min" -> IF a < b THEN a ELSE b
      [] fn = "max" -> IF a > b THEN a ELSE b

emit_int_poly_call(fn, ty, l, r) ==
    LET lt == type_to_llvm(ty)
        a == IF l.ty = ty THEN l ELSE extend(l, l.ty, ty)
        b == IF r.ty = ty THEN r ELSE extend(r, r.ty, ty)
    IN CASE fn = "abs" /\ ~type_is_signed(ty) -> l
         [] Operands(ty, a, b) # "ok" -> Bad(ty, Operands(ty, a, b))
         [] a.t # lt \/ lt[2] # type_int_bits(ty) -> Bad(ty, "ill")
         [] OTHER -> Emit(ty, lt, AsBits(MathPick(fn, Reading(ty, a), Reading(ty, b)),
                                         lt[2]))

(* Otherwise the f64 intrinsic: any integer is read as signed, and the     *)
(* result is a double whatever the type of the call.                       *)
emit_float_call(fn, ty, l, r) ==
    LET arg(x) == RoundTo(Reading("i64", x), Mant64)
    IN IF l.s # "ok" \/ r.s # "ok" THEN Bad(ty, IF l.s = "ill" \/ r.s = "ill"
                                                THEN "ill" ELSE "undef")
       ELSE Emit(ty, <<"f", Mant64>>, MathPick(fn, arg(l), arg(r)))

builtin_math_emit_call(fn, ty, l, r) ==
    IF type_is_integer(l.ty) /\ (fn = "abs" \/ type_is_integer(r.ty))
    THEN emit_int_poly_call(fn, ty, l, IF fn = "abs" THEN l ELSE r)
    ELSE emit_float_call(fn, ty, l, IF fn = "abs" THEN l ELSE r)

(* The right operand of && and || is evaluated only when it decides. *)
codegen_short_circuit(op, l, r) ==
    CASE l.s # "ok" -> l
      [] l.v = Truth(op = "||") -> l
      [] OTHER -> r

RECURSIVE codegen_expr(_, _, _, _)
codegen_expr(e, env, w, const) ==
    LET types == [i \in 1..Len(env) |-> [n |-> env[i].n, t |-> env[i].t,
                                         len |-> Len(env[i].a)]]
        ty == check_expr(e, types, w, const)
    IN CASE e.k = "int" -> emit_int_lit(ty, e.v)
         [] e.k = "flt" -> emit_float_lit(ty, e.v)
         [] e.k = "bool" -> Emit("bool", <<"i", 1>>, Truth(e.v))
         [] e.k = "konst" -> emit_const(const, w)
         [] e.k = "var" -> env[Lookup(env, e.n)].v
         [] e.k = "elem" ->
               LET x == codegen_expr(e.i, env, w, const)
                   a == env[Lookup(env, e.n)].a
                   i == AsSigned(x.v, x.t[2])
               IN CASE x.s # "ok" -> Bad(ty, x.s)
                    [] i \in 0..(Len(a) - 1) -> a[i + 1]
                    [] OTHER -> Bad(ty, "undef")
         [] e.k = "un" -> cg_expr_unary(e.op, ty, codegen_expr(e.e, env, w, const))
         [] e.k = "bin" /\ e.op \in LogicOps ->
               codegen_short_circuit(e.op, codegen_expr(e.l, env, 1, const),
                                     codegen_expr(e.r, env, 1, const))
         [] e.k = "bin" ->
               cg_expr_binary(e.op, ty, codegen_expr(e.l, env, 1, const),
                              codegen_expr(e.r, env, 1, const))
         [] e.k = "cast" -> cg_expr_cast(e.t, codegen_expr(e.e, env, w, const))
         [] e.k = "math" ->
               builtin_math_emit_call(e.fn, ty, codegen_expr(e.l, env, w, const),
                                      codegen_expr(e.r, env, w, const))

-----------------------------------------------------------------------------
(* Statements.  An environment is a sequence of [n, t, v, a]: the value of *)
(* a scalar, the elements of an array.  flow is "normal", "returned" or    *)
(* the reason the execution has no meaning; val the value returned.        *)

Going(env) == [env |-> env, flow |-> "normal", val |-> Bad("int", "undef")]

Stuck(env, why) == [env |-> env, flow |-> why, val |-> Bad("int", why)]

(* A store of x into a slot of type t. *)
Storable(x, t) == CASE x.s # "ok" -> x.s
                    [] x.t # type_to_llvm(t) -> "ill"
                    [] OTHER -> "ok"

stored(x, t) == [x EXCEPT !.ty = t]

cg_stmt_var_decl(s, env, w, const) ==
    LET x0 == codegen_expr(s.e, env, w, const)
        x == cg_widen(x0, x0.ty, s.t)
    IN IF Storable(x, s.t) = "ok"
       THEN Going(Append(env, [n |-> s.n, t |-> s.t, v |-> stored(x, s.t), a |-> <<>>]))
       ELSE Stuck(env, Storable(x, s.t))

(* A compound assignment of a variable: the operand is not widened, and    *)
(* the integer instructions are add, sub, mul and sdiv.                    *)
compound(op, t, cur, x) ==
    CASE Operands(t, cur, x) # "ok" -> Bad(t, Operands(t, cur, x))
      [] type_is_float(t) -> float_arith(op, t, cur, x)
      [] op = "/" -> int_arith("/", t, "i64", cur, x)
      [] OTHER -> int_arith(op, t, "u64", cur, x)

Operator(op) == CASE op = "+=" -> "+" [] op = "-=" -> "-" [] op = "*=" -> "*"
                  [] op = "/=" -> "/"

(* cg_stmt_assign.  The operator is looked at only when the target is a    *)
(* variable; a store to an element is a store of the right-hand side.      *)
cg_stmt_assign(s, env, w, const) ==
    LET at == Lookup(env, s.x.n)
        t == env[at].t
        x0 == codegen_expr(s.e, env, w, const)
        x == CASE s.op = "=" -> cg_widen(x0, x0.ty, t)
               [] s.x.k = "var" -> compound(Operator(s.op), t, env[at].v, x0)
               [] OTHER -> x0
        i == IF s.x.k = "var" THEN Emit("int", <<"i", Bits32>>, 0)
             ELSE codegen_expr(s.x.i, env, w, const)
        j == AsSigned(i.v, i.t[2])
    IN CASE Storable(x, t) # "ok" -> Stuck(env, Storable(x, t))
         [] s.x.k = "var" -> Going([env EXCEPT ![at].v = stored(x, t)])
         [] i.s # "ok" -> Stuck(env, i.s)
         [] j \in 0..(Len(env[at].a) - 1) ->
               Going([env EXCEPT ![at].a[j + 1] = stored(x, t)])
         [] OTHER -> Stuck(env, "undef")

cg_stmt_return(s, env, w, const, ret) ==
    LET x0 == codegen_expr(s.e, env, w, const)
        x == cg_widen(x0, x0.ty, ret)
    IN IF Storable(x, ret) = "ok"
       THEN [env |-> env, flow |-> "returned", val |-> stored(x, ret)]
       ELSE Stuck(env, Storable(x, ret))

(* Leaving a scope forgets what it declared. *)
Leave(r, env) == [r EXCEPT !.env = SubSeq(r.env, 1, Len(env))]

(* The bounds of a range are cast to the 32-bit loop counter. *)
range_bound(x) ==
    IF x.s # "ok" THEN x
    ELSE Emit("int", <<"i", Bits32>>, AsBits(AsSigned(x.v, x.t[2]), Bits32))

RECURSIVE codegen_stmt(_, _, _, _, _), exec_block(_, _, _, _, _),
          foreach(_, _, _, _, _, _), for_c(_, _, _, _, _)

exec_block(ss, env, w, const, ret) ==
    IF ss = <<>> THEN Going(env)
    ELSE LET r == codegen_stmt(Head(ss), env, w, const, ret)
         IN IF r.flow = "normal" THEN exec_block(Tail(ss), r.env, w, const, ret) ELSE r

(* The loop of cg_stmt_for: the end was evaluated before it. *)
foreach(s, env, end, const, ret, fuel) ==
    LET i == Len(env)
        cur == env[i].v
    IN IF AsSigned(cur.v, Bits32) >= AsSigned(end, Bits32) THEN Going(env)
       ELSE IF fuel = 0 THEN Stuck(env, "undef")
       ELSE LET r == Leave(exec_block(s.body, env, 2, const, ret), env)
                nxt == int_arith("+", "int", "u32", r.env[i].v,
                                 Emit("int", <<"i", Bits32>>, 1))
            IN IF r.flow # "normal" THEN r
               ELSE foreach(s, [r.env EXCEPT ![i].v = nxt], end, const, ret, fuel - 1)

for_c(s, env, const, ret, fuel) ==
    LET c == codegen_expr(s.c, env, 1, const)
    IN CASE c.s # "ok" -> Stuck(env, c.s)
         [] c.v = 0 -> Going(env)
         [] fuel = 0 -> Stuck(env, "undef")
         [] OTHER ->
            LET b == Leave(exec_block(s.body, env, 2, const, ret), env)
                u == codegen_stmt(s.upd, b.env, 2, const, ret)
            IN IF b.flow # "normal" THEN b
               ELSE IF u.flow # "normal" THEN u
               ELSE for_c(s, u.env, const, ret, fuel - 1)

(* cg_stmt_for *)
cg_stmt_for(s, env, w, const, ret) ==
    LET lo == range_bound(codegen_expr(s.lo, env, w, const))
        hi == range_bound(codegen_expr(s.hi, env, w, const))
        var == [n |-> s.n, t |-> "int", v |-> lo, a |-> <<>>]
    IN CASE lo.s # "ok" -> Stuck(env, lo.s)
         [] hi.s # "ok" -> Stuck(env, hi.s)
         [] OTHER -> Leave(foreach(s, Append(env, var), hi.v, const, ret, Fuel), env)

codegen_stmt(s, env, w, const, ret) ==
    CASE s.k = "decl" -> cg_stmt_var_decl(s, env, w, const)
      [] s.k = "arr" ->
            Going(Append(env, [n |-> s.n, t |-> s.t, v |-> Bad(s.t, "undef"),
                               a |-> [i \in 1..s.len |-> Bad(s.t, "undef")]]))
      [] s.k = "assign" -> cg_stmt_assign(s, env, w, const)
      [] s.k = "if" ->
            LET c == codegen_expr(s.c, env, w, const)
            IN IF c.s # "ok" THEN Stuck(env, c.s)
               ELSE Leave(exec_block(IF c.v = 1 THEN s.a ELSE s.b, env, w, const, ret), env)
      [] s.k = "for" -> cg_stmt_for(s, env, w, const, ret)
      [] s.k = "forc" ->
            LET i == codegen_stmt(s.init, env, w, const, ret)
            IN IF i.flow # "normal" THEN i
               ELSE Leave(for_c(s, i.env, const, ret, Fuel), env)
      [] s.k = "block" -> Leave(exec_block(s.ss, env, w, const, ret), env)
      [] s.k = "expr" ->
            LET x == codegen_expr(s.e, env, w, const)
            IN IF x.s = "ill" THEN Stuck(env, "ill") ELSE Going(env)
      [] s.k = "ret" -> cg_stmt_return(s, env, w, const, ret)

(* Running the emitted function. *)
run_fn(ss, t, const) == exec_block(ss, <<>>, 1, const, t)
=============================================================================
