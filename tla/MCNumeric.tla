------------------------------ MODULE MCNumeric ------------------------------
(***************************************************************************)
(* The programs of the numeric run.  Words of 2, 3, 5 and 7 bits stand for *)
(* 8, 16, 32 and 64.  Each group is one form of expression or statement    *)
(* over the types it takes and the boundary values of those types; groups  *)
(* whose name starts with "defect" are the forms of the README's findings. *)
(* u64 values stay below 2^63: above, the evaluator's long long overflows. *)
(***************************************************************************)
EXTENDS Numeric, FiniteSets

CONSTANT Groups

WordTypes == {"i8", "i16", "int", "i64", "u8", "u16", "u32", "u64"}
NumTypes_ == WordTypes \union {"f32", "f64"}

Samples(t) ==
    CASE t = "bool" -> {0, 1}
      [] t = "char" -> {1}
      [] t = "f32" -> {-3, 9}
      [] t = "f64" -> {-20, 40}
      [] type_is_signed(t) -> {-2^(type_int_bits(t) - 1), 2^(type_int_bits(t) - 1) - 1}
      [] OTHER -> {1, IF t = "u64" THEN 20 ELSE 2^type_int_bits(t) - 1}

Value(t, v) ==
    CASE t = "bool" -> Bool(v = 1)
      [] type_is_float(t) -> Cast(t, Flt(v))
      [] OTHER -> Cast(t, Int_(v))

J == [t |-> "int", v |-> 5]

Fn(ss, t) == [outer |-> J, ct |-> <<Ret(Int_(0))>>, ctt |-> "int", body |-> ss, ret |-> t]

(* A constant of one of these types has the type of a literal. *)
LiteralSized == {"int", "i32", "i64", "u64", "f64", "bool", "u32"}

(* The same statements as a function and as a comptime block. *)
Both(ss, t) ==
    {Fn(ss, t),
     [outer |-> J, ct |-> ss, ctt |-> t,
      body |-> <<Ret(IF t \in LiteralSized THEN Konst ELSE Value(t, 0))>>, ret |-> t]}

Operand(t, n, v) == Decl(t, n, Value(t, v))

BinaryOf(op, l, r) ==
    LET res == Check!check_expr_binary(op, l, r)
    IN IF res = "none" THEN {}
       ELSE UNION {Both(<<Operand(l, "a", x), Operand(r, "b", y),
                          Ret(Bin(op, Var("a"), Var("b")))>>, res)
                   : x \in Samples(l), y \in Samples(r)}

Binary ==
    UNION {BinaryOf(op, l, r) : op \in {"+", "-", "*", "<"}, l \in NumTypes_, r \in NumTypes_}
    \union UNION {BinaryOf(op, l, r) : op \in {"%", "/", "&", "^"},
                  l \in {"int", "u32", "u8"}, r \in {"i16", "u16", "int", "i64"}}
    \union UNION {BinaryOf(op, l, r) : op \in {"==", "||", ">="},
                  l \in {"bool", "i32"}, r \in {"bool", "i32", "int", "char"}}

(* Shifts of a word by a word of its own type. *)
Shift ==
    UNION {UNION {Both(<<Operand(t, "a", x), Operand(t, "b", y),
                         Ret(Bin(op, Var("a"), Var("b")))>>, t)
                  : x \in Samples(t), y \in {0, 1, type_int_bits(t) - 2}}
           : op \in ShiftOps, t \in WordTypes \ {"i8"}}

UnaryAndCast ==
    UNION {UNION {Both(<<Operand(t, "a", x), Ret(Un(op, Var("a")))>>, t) : x \in Samples(t)}
           : op \in {"-", "~"}, t \in WordTypes \union {"f64"}}
    \union UNION {UNION {Both(<<Operand(l, "a", x), Ret(Cast(t, Var("a")))>>, t)
                         : x \in Samples(l)}
                  : l \in NumTypes_ \union {"char"}, t \in NumTypes_}
    \union Both(<<Ret(Un("!", Bin("<", Int_(1), Int_(2))))>>, "bool")

(* Widening on a declaration, an assignment, a return and an element.      *)
Store ==
    UNION {IF ~type_widens_to(l, t) THEN {} ELSE
           UNION {Both(<<Operand(l, "a", x), Decl(t, "b", Var("a")), Ret(Var("b"))>>, t)
                  \union Both(<<Operand(l, "a", x), Operand(t, "b", 1),
                                Assign("=", Var("b"), Var("a")), Ret(Var("b"))>>, t)
                  \union Both(<<Operand(l, "a", x), Ret(Var("a"))>>, t)
                  \union Both(<<Operand(l, "a", x), ArrDecl(t, "v", 2),
                                Assign("=", Elem("v", Int_(1)), Var("a")),
                                Ret(Elem("v", Int_(1)))>>, t)
                  : x \in Samples(l)}
           : l \in NumTypes_, t \in NumTypes_}

(* Compound assignment of a variable, operand of the variable's type.      *)
Compound ==
    UNION {UNION {Both(<<Operand(t, "a", x), Assign(op, Var("a"), Value(t, y)),
                         Ret(Var("a"))>>, t)
                  : x \in Samples(t), y \in Samples(t)}
           : op \in {"+=", "-=", "*="}, t \in {"int", "u32", "i64", "f64", "u16"}}
    \union Both(<<Operand("int", "a", -7), Assign("/=", Var("a"), Int_(2)),
                  Ret(Var("a"))>>, "int")

Accumulate(n, e) == Assign("=", Var(n), Bin("+", Var(n), e))

Control ==
    Both(<<Operand("i64", "s", 0),
           For("i", Int_(0), Int_(4), <<Accumulate("s", Var("i"))>>),
           Ret(Var("s"))>>, "i64")
    \union Both(<<Operand("int", "s", 0),
                  For("i", Int_(0), Int_(3),
                      <<For("j", Var("i"), Int_(3), <<Accumulate("s", Int_(1))>>)>>),
                  Ret(Var("s"))>>, "int")
    \union Both(<<Operand("int", "s", 0),
                  For("i", Int_(1), Int_(5),
                      <<If(Bin("==", Bin("%", Var("i"), Int_(2)), Int_(0)),
                           <<Ret(Var("i"))>>, <<Accumulate("s", Var("i"))>>)>>),
                  Ret(Var("s"))>>, "int")
    \union Both(<<Operand("int", "s", 0),
                  For("i", Int_(0), Int_(8),
                      <<For("j", Int_(0), Int_(8), <<Accumulate("s", Int_(1))>>)>>),
                  Ret(Int_(1))>>, "int")
    \union Both(<<ArrDecl("int", "v", 3),
                  For("i", Int_(0), Int_(3),
                      <<Assign("=", Elem("v", Var("i")), Bin("*", Var("i"), Int_(2)))>>),
                  Ret(Elem("v", Int_(2)))>>, "int")
    \union Both(<<Operand("int", "s", 5), Block(<<Assign("-=", Var("s"), Int_(2))>>),
                  ExprStmt(Var("s")), Ret(Var("s"))>>, "int")
    \union UNION {Both(<<Operand("int", "a", x),
                         If(Bin("&&", Bin("<", Int_(0), Var("a")), Bin("<", Var("a"), Int_(9))),
                            <<Ret(Int_(1))>>, <<Ret(Int_(2))>>)>>, "int") : x \in {-1, 5, 9}}
    \union {Fn(<<Operand("int", "s", 0),
                 ForC(Operand("int", "i", 0), Bin("<", Var("i"), Int_(4)),
                      Assign("=", Var("i"), Bin("+", Var("i"), Int_(1))),
                      <<Accumulate("s", Var("i"))>>),
                 Ret(Var("s"))>>, "int")}

MathCalls ==
    UNION {UNION {Both(<<Operand(t, "a", x), Operand(t, "b", y),
                         Ret(Math(fn, Var("a"), Var("b")))>>, t)
                  : x \in Samples(t), y \in Samples(t)}
           : fn \in {"abs", "min", "max"}, t \in WordTypes \union {"f64"}}
    \union UNION {Both(<<Operand("i16", "a", x), Operand("int", "b", y),
                         Ret(Math(fn, Var("a"), Var("b")))>>, "int")
                  : fn \in {"min", "max"}, x \in Samples("i16"), y \in Samples("int")}

(* A constant of a literal's type, used outside and inside a loop; one     *)
(* computed from an earlier one; the truth of a number.                    *)
Constants ==
    {[outer |-> J, ct |-> <<Ret(Value(t, x))>>, ctt |-> t,
      body |-> <<Operand("int", "n", 0),
                 For("i", Int_(0), Int_(2), <<Decl(t, "k", Konst)>>),
                 Ret(Bin("-", Bin("+", Konst, Value(t, 1)), Value(t, 1)))>>,
      ret |-> t] : t \in {"int", "f64"}, x \in {-3, 9}}
    \union
    {[outer |-> [t |-> t, v |-> x], ct |-> <<Operand(t, "a", 2), Ret(Bin(op, Konst, Var("a")))>>, ctt |-> t,
      body |-> <<Ret(Konst)>>, ret |-> t]
     : t \in {"int", "f64"}, x \in {-3, 9}, op \in {"-", "*"}}
    \union
    {[outer |-> J, ct |-> <<Ret(Cast("bool", Int_(x)))>>, ctt |-> "bool",
      body |-> <<Ret(Konst)>>, ret |-> "bool"] : x \in 0..2}

(* The forms of the findings. *)
Defect(name) ==
    CASE name = "defect_compound_elem" ->
            {Fn(<<ArrDecl("int", "v", 1), Assign("=", Elem("v", Int_(0)), Int_(3)),
                  Assign("+=", Elem("v", Int_(0)), Int_(2)), Ret(Elem("v", Int_(0)))>>, "int")}
      [] name = "defect_compound_widen" ->
            {Fn(<<Operand("i64", "a", 3), Assign("+=", Var("a"), Int_(2)), Ret(Var("a"))>>, "i64")}
      [] name = "defect_compound_unsigned" ->
            {Fn(<<Operand("u8", "a", 3), Assign("/=", Var("a"), Value("u8", 2)),
                  Ret(Var("a"))>>, "u8")}
      [] name = "defect_shift_mixed" ->
            {Fn(<<Operand("int", "a", 3), Ret(Bin("<<", Var("a"), Value("i64", 1)))>>, "int")}
      [] name = "defect_char_widen" ->
            {Fn(<<Operand("char", "a", 3), Decl("u16", "b", Var("a")), Ret(Var("b"))>>, "u16")}
      [] name = "defect_math_f32" ->
            {Fn(<<Operand("f32", "a", 3), Ret(Math("min", Var("a"), Var("a")))>>, "f32")}
      [] name = "defect_math_unsigned" ->
            {Fn(<<Operand("u8", "a", 3), Ret(Math("max", Var("a"), Flt(1)))>>, "f64")}
      [] name = "defect_fold_width" ->
            {[outer |-> J, ct |-> <<Ret(Value("u8", 3))>>, ctt |-> "u8",
              body |-> <<Decl("u8", "k", Konst), Ret(Var("k"))>>, ret |-> "u8"]}
      [] name = "defect_ct_shadow" ->
            Both(<<Operand("int", "a", 1), Block(<<Operand("int", "a", 2)>>),
                   Ret(Var("a"))>>, "int")
      [] name = "defect_ct_short_circuit" ->
            Both(<<Operand("int", "a", 0),
                   If(Bin("&&", Bin("!=", Var("a"), Int_(0)),
                          Bin("==", Bin("/", Int_(4), Var("a")), Int_(2))),
                      <<Ret(Int_(1))>>, <<Ret(Int_(2))>>)>>, "int")
      [] name = "defect_ct_loop_variable" ->
            Both(<<Operand("int", "s", 0),
                   For("i", Int_(0), Int_(4),
                       <<Accumulate("s", Int_(1)), Assign("=", Var("i"), Int_(3))>>),
                   Ret(Var("s"))>>, "int")
      [] name = "defect_c_update" ->
            {Fn(<<Operand("int", "s", 0),
                  ForC(Operand("int", "i", 1), Bin("<", Var("i"), Int_(6)),
                       Assign("+=", Var("i"), Int_(2)), <<Accumulate("s", Int_(1))>>),
                  Ret(Var("s"))>>, "int")}
      [] name = "defect_c_range" ->
            {Fn(<<Operand("int", "n", 3), Operand("int", "s", 0),
                  For("i", Int_(0), Var("n"),
                      <<Assign("=", Var("n"), Int_(2)), Accumulate("s", Int_(1))>>),
                  Ret(Var("s"))>>, "int")}
      [] name = "defect_c_char" ->
            {Fn(<<Operand("char", "a", 3), Ret(Var("a"))>>, "char")}

Group(g) ==
    CASE g = "binary" -> Binary
      [] g = "shift" -> Shift
      [] g = "unary_cast" -> UnaryAndCast
      [] g = "store" -> Store
      [] g = "compound" -> Compound
      [] g = "control" -> Control
      [] g = "math" -> MathCalls
      [] g = "constants" -> Constants
      [] OTHER -> Defect(g)

Programs_ == UNION {Group(g) : g \in Groups}
=============================================================================
