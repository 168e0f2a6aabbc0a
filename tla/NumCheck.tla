------------------------------ MODULE NumCheck ------------------------------
(***************************************************************************)
(* What the type checker makes of a scalar program: the type of every      *)
(* expression ("none" when it reports an error) and whether the statements *)
(* are accepted.                                                           *)
(*                                                                         *)
(* A comptime constant is folded into a literal in place the first time    *)
(* its use is checked.  A loop body is checked twice, and the second walk  *)
(* meets the literal, which has the type of a literal; a binary node keeps *)
(* the type of its first walk and does not look at its operands again.     *)
(* The parameter w is the walk, const the constant: [t, v].                *)
(*                                                                         *)
(* An environment is a sequence of [n, t, len]; len = 0 is a scalar.       *)
(***************************************************************************)
EXTENDS NumTypes

literal_type(v) ==
    IF -2^(Bits32 - 1) <= v /\ v < 2^(Bits32 - 1) THEN "int" ELSE "i64"

(* checker_expr.c, AST_IDENT of a constant, then AST_INT_LIT /             *)
(* AST_FLOAT_LIT / AST_BOOL_LIT (is_char survives the fold) on later walks.*)
folded_type(const, w) ==
    CASE w = 1 -> const.t
      [] const.t \in {"bool", "char"} -> const.t
      [] type_is_float(const.t) -> "f64"
      [] OTHER -> literal_type(const.v)

check_expr_unary(op, t) ==
    CASE op = "-" -> IF type_is_numeric(t) THEN t ELSE "none"
      [] op = "!" -> IF t = "bool" THEN t ELSE "none"
      [] op = "~" -> IF type_is_integer(t) THEN t ELSE "none"

check_arith(op, l, r) ==
    IF op \in ArithOps \/ (type_is_integer(l) /\ type_is_integer(r))
    THEN type_numeric_common(l, r) ELSE "none"

check_shift(l, r) ==
    IF type_is_integer(l) /\ type_is_integer(r) THEN l ELSE "none"

check_compare(op, l, r) ==
    IF (op \in EqOps /\ l = r) \/ type_numeric_common(l, r) # "none"
    THEN "bool" ELSE "none"

check_expr_binary(op, l, r) ==
    CASE l = "none" \/ r = "none" -> "none"
      [] op \in ArithOps \union BitOps \union {"%"} -> check_arith(op, l, r)
      [] op \in ShiftOps -> check_shift(l, r)
      [] op \in EqOps \union OrderOps -> check_compare(op, l, r)
      [] op \in LogicOps -> IF l = "bool" /\ r = "bool" THEN "bool" ELSE "none"

check_expr_cast(t, from) ==
    IF type_is_numeric(from) /\ type_is_numeric(t) THEN t ELSE "none"

(* checker_call.c: math.abs, math.min and math.max have the common type of *)
(* their arguments.                                                        *)
check_math_call(fn, l, r) ==
    IF fn = "abs" THEN IF type_is_numeric(l) THEN l ELSE "none"
    ELSE type_numeric_common(l, r)

RECURSIVE check_expr(_, _, _, _)
check_expr(e, env, w, const) ==
    CASE e.k = "int" -> literal_type(e.v)
      [] e.k = "flt" -> "f64"
      [] e.k = "bool" -> "bool"
      [] e.k = "konst" -> folded_type(const, w)
      [] e.k = "var" ->
            LET i == Lookup(env, e.n)
            IN IF i = 0 \/ env[i].len > 0 THEN "none" ELSE env[i].t
      [] e.k = "elem" ->
            LET i == Lookup(env, e.n)
            IN IF i > 0 /\ env[i].len > 0
                  /\ type_is_integer(check_expr(e.i, env, w, const))
               THEN env[i].t ELSE "none"
      [] e.k = "un" -> check_expr_unary(e.op, check_expr(e.e, env, w, const))
      [] e.k = "bin" -> check_expr_binary(e.op, check_expr(e.l, env, 1, const),
                                          check_expr(e.r, env, 1, const))
      [] e.k = "cast" -> check_expr_cast(e.t, check_expr(e.e, env, w, const))
      [] e.k = "math" -> check_math_call(e.fn, check_expr(e.l, env, w, const),
                                         check_expr(e.r, env, w, const))

-----------------------------------------------------------------------------
(* A statement is accepted (ok) and leaves the environment env.  base is   *)
(* the length of the environment when the innermost scope was pushed.      *)

Rejected(env) == [ok |-> FALSE, env |-> env]

Accepted(env) == [ok |-> TRUE, env |-> env]

define(env, base, n, t, len) ==
    IF \E i \in (base + 1)..Len(env) : env[i].n = n THEN Rejected(env)
    ELSE Accepted(Append(env, [n |-> n, t |-> t, len |-> len]))

check_stmt_assign(s, env, w, const) ==
    LET target == check_expr(s.x, env, w, const)
        value == check_expr(s.e, env, w, const)
    IN [ok |-> /\ target # "none" /\ value # "none"
               /\ s.op # "=" => type_is_numeric(target)
               /\ type_assignable(target, value),
        env |-> env]

RECURSIVE check_stmt(_, _, _, _, _, _), check_block(_, _, _, _, _, _)

(* A block is a scope of its own. *)
check_block(ss, env, base, w, const, ret) ==
    IF ss = <<>> THEN Accepted(env)
    ELSE LET r == check_stmt(Head(ss), env, base, w, const, ret)
         IN IF r.ok THEN check_block(Tail(ss), r.env, base, w, const, ret) ELSE r

(* The two walks of a loop body. *)
check_twice(ss, env, w, const, ret) ==
    \A walk \in {w, 2} : check_block(ss, env, Len(env), walk, const, ret).ok

check_stmt(s, env, base, w, const, ret) ==
    CASE s.k = "decl" ->
            LET t == check_expr(s.e, env, w, const)
            IN IF t # "none" /\ type_assignable(s.t, t)
               THEN define(env, base, s.n, s.t, 0) ELSE Rejected(env)
      [] s.k = "arr" -> define(env, base, s.n, s.t, s.len)
      [] s.k = "assign" -> check_stmt_assign(s, env, w, const)
      [] s.k = "if" ->
            [ok |-> /\ check_expr(s.c, env, w, const) = "bool"
                    /\ check_block(s.a, env, Len(env), w, const, ret).ok
                    /\ check_block(s.b, env, Len(env), w, const, ret).ok,
             env |-> env]
      [] s.k = "for" ->
            [ok |-> /\ type_is_integer(check_expr(s.lo, env, w, const))
                    /\ type_is_integer(check_expr(s.hi, env, w, const))
                    /\ check_twice(s.body, Append(env, [n |-> s.n, t |-> "int", len |-> 0]),
                                   w, const, ret),
             env |-> env]
      [] s.k = "forc" ->
            LET i == check_stmt(s.init, env, Len(env), w, const, ret)
            IN [ok |-> /\ i.ok
                       /\ check_expr(s.c, i.env, w, const) = "bool"
                       /\ check_twice(<<s.upd>>, i.env, w, const, ret)
                       /\ check_twice(s.body, i.env, w, const, ret),
                env |-> env]
      [] s.k = "block" ->
            [ok |-> check_block(s.ss, env, Len(env), w, const, ret).ok, env |-> env]
      [] s.k = "expr" ->
            [ok |-> check_expr(s.e, env, w, const) # "none", env |-> env]
      [] s.k = "ret" ->
            LET t == check_expr(s.e, env, w, const)
            IN [ok |-> t # "none" /\ type_assignable(ret, t), env |-> env]

(* The function `def f() -> t { ss }`. *)
check_fn(ss, t, const) == check_block(ss, <<>>, 0, 1, const, t).ok
=============================================================================
