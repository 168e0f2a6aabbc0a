------------------------------ MODULE Comptime ------------------------------
(***************************************************************************)
(* The compile-time evaluator of checker_comptime.c on scalar programs: a  *)
(* tree walk over 64-bit integers and doubles that knows the declared type *)
(* of a variable only as "floating or not".                                *)
(*                                                                         *)
(* A value is [s, f, v]: s is "ok", "fail" when the expression is not a    *)
(* constant, or "undef" when the evaluation leaves what the host compiler  *)
(* defines; f is is_float.  The environment vars is one flat list for the  *)
(* whole block, arrs another one for the arrays.                           *)
(***************************************************************************)
EXTENDS NumTypes

CONSTANT Budget     \* CT_BUDGET_DEFAULT

Ct(f, v) == [s |-> "ok", f |-> f, v |-> v]

NotConst == [s |-> "fail", f |-> FALSE, v |-> 0]

HostUndefined == [s |-> "undef", f |-> FALSE, v |-> 0]

InLongLong(v) == -2^(Bits64 - 1) <= v /\ v < 2^(Bits64 - 1)

LongLong(v) == IF InLongLong(v) THEN Ct(FALSE, v) ELSE HostUndefined

CtTruth(b) == Ct(FALSE, Truth(b))

cts_to_f(x) == IF x.f THEN x.v ELSE RoundTo(x.v, Mant64)

(* Neither operand decides which of the two errors is reported. *)
Worse(x, y) == IF x.s = "fail" \/ y.s = "fail" THEN NotConst ELSE HostUndefined

ct_eval_bits(op, a, b) ==
    AsSigned(BitOp(op, AsBits(a, Bits64), AsBits(b, Bits64)), Bits64)

ct_eval_int_floor(op, a, b) ==
    CASE op = "+" -> LongLong(a + b)
      [] op = "-" -> LongLong(a - b)
      [] op = "*" -> LongLong(a * b)
      [] op \in {"/", "%"} /\ b <= 0 -> NotConst
      [] op = "/" -> LongLong(a \div b)
      [] op = "%" -> Ct(FALSE, a % b)
      [] OTHER -> Ct(FALSE, ct_eval_bits("&", a, b))

ct_eval_int(op, a, b) ==
    CASE op = "+" -> LongLong(a + b)
      [] op = "-" -> LongLong(a - b)
      [] op = "*" -> LongLong(a * b)
      [] op \in {"/", "%"} /\ b = 0 -> NotConst
      [] op = "/" -> LongLong(TruncDiv(a, b))
      [] op = "%" -> IF InLongLong(TruncDiv(a, b)) THEN Ct(FALSE, TruncRem(a, b))
                     ELSE HostUndefined
      [] op \in BitOps -> Ct(FALSE, ct_eval_bits(op, a, b))
      [] op \in ShiftOps /\ b \notin 0..(Bits64 - 1) -> HostUndefined
      [] op = "<<" -> IF a < 0 THEN HostUndefined ELSE LongLong(a * 2^b)
      [] op = ">>" -> Ct(FALSE, a \div 2^b)

ct_eval_float(op, a, b) ==
    CASE op = "+" -> Ct(TRUE, RoundTo(a + b, Mant64))
      [] op = "-" -> Ct(TRUE, RoundTo(a - b, Mant64))
      [] op = "*" -> Ct(TRUE, RoundTo(a * b, Mant64))
      [] OTHER -> NotConst

(* Comparisons go through double whatever the operands; both operands of   *)
(* a logical operator are evaluated.                                       *)
ct_eval_binary(op, x, y) ==
    CASE x.s # "ok" \/ y.s # "ok" -> Worse(x, y)
      [] op \in EqOps \union OrderOps -> CtTruth(Compare(op, cts_to_f(x), cts_to_f(y)))
      [] op = "&&" -> CtTruth(cts_to_f(x) # 0 /\ cts_to_f(y) # 0)
      [] op = "||" -> CtTruth(cts_to_f(x) # 0 \/ cts_to_f(y) # 0)
      [] x.f \/ y.f -> ct_eval_float(op, cts_to_f(x), cts_to_f(y))
      [] OTHER -> ct_eval_int(op, x.v, y.v)

ct_eval_unary(op, x) ==
    CASE x.s # "ok" -> x
      [] op = "-" -> IF x.f THEN Ct(TRUE, -x.v) ELSE LongLong(-x.v)
      [] op = "!" -> CtTruth(cts_to_f(x) = 0)
      [] op = "~" -> IF x.f THEN NotConst ELSE Ct(FALSE, -1 - x.v)

(* A cast only moves between the two representations: it never narrows.    *)
ct_eval_cast(t, x) ==
    CASE x.s # "ok" -> x
      [] type_is_float(t) -> Ct(TRUE, cts_to_f(x))
      [] t = "bool" -> CtTruth(cts_to_f(x) # 0)
      [] OTHER -> LongLong(x.v)

(* math.abs, math.min, math.max: integers stay integers. *)
ct_eval_math_call(fn, x, y) ==
    LET float == x.f \/ (fn # "abs" /\ y.f)
        a == IF float THEN cts_to_f(x) ELSE x.v
        b == IF float THEN cts_to_f(y) ELSE y.v
    IN CASE x.s # "ok" \/ y.s # "ok" -> Worse(x, y)
         [] fn = "abs" -> IF float THEN Ct(TRUE, Abs(a)) ELSE LongLong(Abs(a))
         [] fn = "min" -> Ct(float, IF a < b THEN a ELSE b)
         [] fn = "max" -> Ct(float, IF a > b THEN a ELSE b)

RECURSIVE ct_eval_scalar(_, _)
ct_eval_scalar(e, ev) ==
    CASE e.k = "int" -> Ct(FALSE, e.v)
      [] e.k = "flt" -> Ct(TRUE, e.v)
      [] e.k = "bool" -> CtTruth(e.v)
      [] e.k = "konst" -> ev.konst
      [] e.k = "var" ->
            LET i == Lookup(ev.vars, e.n)
            IN IF i = 0 THEN NotConst ELSE ev.vars[i].v
      [] e.k = "elem" ->
            LET i == Lookup(ev.arrs, e.n)
                x == ct_eval_scalar(e.i, ev)
            IN IF i > 0 /\ x.s = "ok" /\ ~x.f /\ x.v \in 0..(Len(ev.arrs[i].a) - 1)
               THEN ev.arrs[i].a[x.v + 1]
               ELSE IF i > 0 /\ x.s = "undef" THEN x ELSE NotConst
      [] e.k = "un" -> ct_eval_unary(e.op, ct_eval_scalar(e.e, ev))
      [] e.k = "bin" -> ct_eval_binary(e.op, ct_eval_scalar(e.l, ev), ct_eval_scalar(e.r, ev))
      [] e.k = "cast" -> ct_eval_cast(e.t, ct_eval_scalar(e.e, ev))
      [] e.k = "math" ->
            LET x == ct_eval_scalar(e.l, ev)
            IN ct_eval_math_call(e.fn, x, IF e.fn = "abs" THEN x ELSE ct_eval_scalar(e.r, ev))

-----------------------------------------------------------------------------
(* ev is [konst, vars, arrs, budget, steps]: konst is the value of the     *)
(* constant declared before the block, steps counts the statements and the *)
(* iterations really begun.  A statement gives [ev, flow, val].            *)

CtFlow(ev, flow, val) == [ev |-> ev, flow |-> flow, val |-> val]

Normal(ev) == CtFlow(ev, "normal", NotConst)

Fails(ev, x) == CtFlow(ev, x.s, x)

ct_env_set(ev, n, v) ==
    LET i == Lookup(ev.vars, n)
    IN IF i = 0 THEN [ev EXCEPT !.vars = Append(@, [n |-> n, v |-> v])]
       ELSE [ev EXCEPT !.vars[i].v = v]

ct_aenv_decl(ev, n, t, len) ==
    [ev EXCEPT !.arrs = Append(@, [n |-> n, f |-> type_is_float(t),
                                   a |-> [i \in 1..len |-> Ct(type_is_float(t), 0)]])]

(* A value stored where the declared type is floating (f) or not. *)
Stored(f, x) ==
    CASE x.s # "ok" -> x
      [] f -> Ct(TRUE, cts_to_f(x))
      [] x.f -> NotConst
      [] OTHER -> x

Bind(ev, n, x) == IF x.s = "ok" THEN Normal(ct_env_set(ev, n, x)) ELSE Fails(ev, x)

CompoundOp(op) == CASE op = "+=" -> "+" [] op = "-=" -> "-" [] op = "*=" -> "*"
                    [] op = "/=" -> "/"

ct_assign_elem(s, ev) ==
    LET i == Lookup(ev.arrs, s.x.n)
        x == ct_eval_scalar(s.x.i, ev)
    IN IF s.op # "=" \/ i = 0 \/ x.s # "ok" \/ x.f
          \/ x.v \notin 0..(Len(ev.arrs[i].a) - 1)
       THEN Fails(ev, IF x.s = "undef" THEN x ELSE NotConst)
       ELSE LET y == Stored(ev.arrs[i].f, ct_eval_scalar(s.e, ev))
            IN IF y.s = "ok" THEN Normal([ev EXCEPT !.arrs[i].a[x.v + 1] = y])
               ELSE Fails(ev, y)

ct_assign(s, ev) ==
    LET i == Lookup(ev.vars, s.x.n)
        y == ct_eval_scalar(s.e, ev)
    IN CASE s.x.k = "elem" -> ct_assign_elem(s, ev)
         [] s.op = "=" -> Bind(ev, s.x.n, y)
         [] i = 0 -> Fails(ev, NotConst)
         [] OTHER -> Bind(ev, s.x.n, ct_eval_binary(CompoundOp(s.op), ev.vars[i].v, y))

(* --budget, tested against zero before the step is taken. *)
spend(ev) == [ev EXCEPT !.budget = @ - 1, !.steps = @ + 1]

Spent(ev) == ev.budget <= 1

Exhausted(ev) == Fails([ev EXCEPT !.budget = @ - 1], NotConst)

RECURSIVE ct_exec_stmt(_, _), ct_exec_block(_, _), ct_for(_, _, _, _)

ct_exec_block(ss, ev) ==
    IF ss = <<>> THEN Normal(ev)
    ELSE LET r == ct_exec_stmt(Head(ss), ev)
         IN IF r.flow = "normal" THEN ct_exec_block(Tail(ss), r.ev) ELSE r

ct_for(s, i, hi, ev) ==
    IF i >= hi THEN Normal(ev)
    ELSE IF Spent(ev) THEN Exhausted(ev)
    ELSE LET r == ct_exec_block(s.body, ct_env_set(spend(ev), s.n, Ct(FALSE, i)))
         IN IF r.flow = "normal" THEN ct_for(s, i + 1, hi, r.ev) ELSE r

(* A returned array name wins over a scalar; the value is then never       *)
(* written.  Statements outside the subset fail.                           *)
ct_exec(s, ev) ==
    CASE s.k = "decl" ->
            Bind(ev, s.n, Stored(type_is_float(s.t), ct_eval_scalar(s.e, ev)))
      [] s.k = "arr" -> Normal(ct_aenv_decl(ev, s.n, s.t, s.len))
      [] s.k = "assign" -> ct_assign(s, ev)
      [] s.k = "if" ->
            LET c == ct_eval_scalar(s.c, ev)
            IN IF c.s # "ok" THEN Fails(ev, c)
               ELSE ct_exec_block(IF cts_to_f(c) # 0 THEN s.a ELSE s.b, ev)
      [] s.k = "for" ->
            LET lo == ct_eval_scalar(s.lo, ev)
                hi == ct_eval_scalar(s.hi, ev)
            IN IF lo.s # "ok" \/ hi.s # "ok" THEN Fails(ev, Worse(lo, hi))
               ELSE IF lo.f \/ hi.f THEN Fails(ev, NotConst)
               ELSE ct_for(s, lo.v, hi.v, ev)
      [] s.k = "block" -> ct_exec_block(s.ss, ev)
      [] s.k = "expr" ->
            LET x == ct_eval_scalar(s.e, ev)
            IN IF x.s = "ok" THEN Normal(ev) ELSE Fails(ev, x)
      [] s.k = "ret" /\ s.e.k = "var" /\ Lookup(ev.arrs, s.e.n) > 0 ->
            CtFlow(ev, "array", HostUndefined)
      [] s.k = "ret" ->
            LET x == ct_eval_scalar(s.e, ev)
            IN IF x.s = "ok" THEN CtFlow(ev, "returned", x) ELSE Fails(ev, x)
      [] OTHER -> Fails(ev, NotConst)

ct_exec_stmt(s, ev) == IF Spent(ev) THEN Exhausted(ev) ELSE ct_exec(s, spend(ev))

(* check_stmt, AST_COMPTIME_CONST with a scalar type and a comptime block: *)
(* the value of the constant, [s, v], when the constant `outer` ([t, v]) is *)
(* in scope.  A block that returns an array passes the test on the flow    *)
(* and leaves the value unwritten.                                         *)
comptime_const(ss, t, outer) ==
    LET start == [konst |-> Ct(type_is_float(outer.t), outer.v), vars |-> <<>>, arrs |-> <<>>, budget |-> Budget, steps |-> 0]
        r == ct_exec_block(ss, start)
        x == CASE r.flow = "array" -> HostUndefined
               [] r.flow = "undef" -> HostUndefined
               [] r.flow # "returned" -> NotConst
               [] OTHER -> r.val
    IN CASE x.s # "ok" -> [s |-> x.s, v |-> 0, steps |-> r.ev.steps]
         [] ~type_is_float(t) /\ x.f -> [s |-> "fail", v |-> 0, steps |-> r.ev.steps]
         [] type_is_float(t) -> [s |-> "ok", v |-> cts_to_f(x), steps |-> r.ev.steps]
         [] t = "bool" -> [s |-> "ok", v |-> Truth(x.v # 0), steps |-> r.ev.steps]
         [] OTHER -> [s |-> "ok", v |-> x.v, steps |-> r.ev.steps]
=============================================================================
