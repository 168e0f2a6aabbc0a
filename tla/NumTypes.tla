------------------------------ MODULE NumTypes ------------------------------
(***************************************************************************)
(* The scalar types of LS: the predicates of types.c on which implicit     *)
(* conversion rests, the LLVM type each one is lowered to, and the scalar  *)
(* programs the other modules of this group give meaning to.               *)
(*                                                                         *)
(* The widths are parameters.  The code's are 8, 16, 32 and 64 bits, with  *)
(* 24 and 53 bit mantissas; what matters to every rule below is only their *)
(* order, which WidthOrder states, so a model may use much narrower words. *)
(* f16 and bf16 are left out.  A float holds an integral value: literals   *)
(* are integral and float division is not in the language modelled, so     *)
(* rounding to the mantissa is all a float operation does.                 *)
(***************************************************************************)
EXTENDS Integers, Sequences, Bitwise

CONSTANTS Bits8, Bits16, Bits32, Bits64, Mant32, Mant64

ASSUME WidthOrder ==
    /\ 1 < Bits8 /\ Bits8 < Bits16 /\ Bits16 < Mant32 /\ Mant32 < Bits32
    /\ Bits32 < Mant64 /\ Mant64 < Bits64

SignedTypes == {"int", "i8", "i16", "i32", "i64"}

UnsignedTypes == {"u8", "u16", "u32", "u64", "char"}

type_is_signed(t) == t \in SignedTypes

type_is_unsigned(t) == t \in UnsignedTypes

type_is_integer(t) == type_is_signed(t) \/ type_is_unsigned(t)

type_is_float(t) == t \in {"f32", "f64"}

type_is_numeric(t) == type_is_integer(t) \/ type_is_float(t)

type_int_bits(t) ==
    CASE t \in {"i8", "u8", "char"} -> Bits8
      [] t \in {"i16", "u16"} -> Bits16
      [] t \in {"int", "i32", "u32"} -> Bits32
      [] t \in {"i64", "u64"} -> Bits64

type_float_mantissa_bits(t) == IF t = "f32" THEN Mant32 ELSE Mant64

type_widens_to_nonstrict(src, dst) ==
    /\ src # dst
    /\ \/ /\ type_is_integer(src) /\ type_is_integer(dst)
          /\ type_int_bits(dst) >= type_int_bits(src)
          /\ ~(type_is_signed(src) /\ type_is_unsigned(dst))
       \/ type_is_integer(src) /\ type_is_float(dst)
          /\ type_int_bits(src) <= type_float_mantissa_bits(dst)
       \/ src = "f32" /\ dst = "f64"

(* types.c: an unsigned type widens to a signed one only when that is      *)
(* strictly wider, a signed type never to an unsigned one.                 *)
type_widens_to(src, dst) ==
    /\ src # dst
    /\ \/ src = "f32" /\ dst = "f64"
       \/ /\ type_is_integer(src) /\ type_is_float(dst)
          /\ type_int_bits(src) <= type_float_mantissa_bits(dst)
       \/ /\ type_is_signed(src) = type_is_signed(dst)
          /\ type_is_integer(src) /\ type_is_integer(dst)
          /\ type_int_bits(dst) >= type_int_bits(src)
       \/ /\ type_is_unsigned(src) /\ type_is_signed(dst)
          /\ type_int_bits(dst) > type_int_bits(src)

type_numeric_common(a, b) ==
    CASE ~(type_is_numeric(a) /\ type_is_numeric(b)) -> "none"
      [] a = b -> a
      [] type_widens_to(a, b) -> b
      [] type_widens_to(b, a) -> a
      [] OTHER -> "none"

(* checker.c, on scalars: an equal type or an implicit widening.           *)
type_assignable(dst, src) == dst = src \/ type_widens_to(src, dst)

(* codegen_decl.c: note that char, 8 bits wide to the rules above, is      *)
(* carried in a 32-bit word.                                               *)
type_to_llvm(t) ==
    CASE t = "bool" -> <<"i", 1>>
      [] t = "char" -> <<"i", Bits32>>
      [] type_is_integer(t) -> <<"i", type_int_bits(t)>>
      [] OTHER -> <<"f", type_float_mantissa_bits(t)>>

-----------------------------------------------------------------------------
(* Words and floats. *)

AsBits(v, w) == v % 2^w

AsSigned(p, w) == IF p >= 2^(w - 1) THEN p - 2^w ELSE p

Abs(x) == IF x < 0 THEN -x ELSE x

Sign(x) == IF x < 0 THEN -1 ELSE 1

(* Round to the nearest integer of m significant bits, ties to even.       *)
RoundTo(x, m) ==
    IF Abs(x) < 2^m THEN x
    ELSE LET k == CHOOSE j \in 1..40 : 2^(m + j - 1) <= Abs(x) /\ Abs(x) < 2^(m + j)
             u == 2^k
             q == Abs(x) \div u
             r == Abs(x) % u
             up == 2 * r > u \/ (2 * r = u /\ q % 2 = 1)
         IN Sign(x) * u * (IF up THEN q + 1 ELSE q)

(* Division of C, LLVM's sdiv and the host: towards zero. *)
TruncDiv(a, b) == Sign(a) * Sign(b) * (Abs(a) \div Abs(b))

TruncRem(a, b) == a - b * TruncDiv(a, b)

Truth(b) == IF b THEN 1 ELSE 0

(* The bitwise operators on words of w bits. *)
BitOp(op, p, q) ==
    CASE op = "&" -> p & q
      [] op = "|" -> p | q
      [] op = "^" -> p ^^ q

ArithOps == {"+", "-", "*", "/"}
BitOps == {"&", "|", "^"}
ShiftOps == {"<<", ">>"}
EqOps == {"==", "!="}
OrderOps == {"<", ">", "<=", ">="}
LogicOps == {"&&", "||"}

Compare(op, a, b) ==
    CASE op = "==" -> a = b
      [] op = "!=" -> a # b
      [] op = "<" -> a < b
      [] op = ">" -> a > b
      [] op = "<=" -> a <= b
      [] op = ">=" -> a >= b

-----------------------------------------------------------------------------
(* Programs.  An expression or statement is a record with its kind in k.   *)

Int_(v) == [k |-> "int", v |-> v]
Flt(v) == [k |-> "flt", v |-> v]
Bool(v) == [k |-> "bool", v |-> v]
Konst == [k |-> "konst"]                  \* a use of the comptime constant
Var(n) == [k |-> "var", n |-> n]
Elem(n, i) == [k |-> "elem", n |-> n, i |-> i]
Un(op, e) == [k |-> "un", op |-> op, e |-> e]
Bin(op, l, r) == [k |-> "bin", op |-> op, l |-> l, r |-> r]
Cast(t, e) == [k |-> "cast", t |-> t, e |-> e]
Math(fn, l, r) == [k |-> "math", fn |-> fn, l |-> l, r |-> r]  \* abs ignores r

Decl(t, n, e) == [k |-> "decl", t |-> t, n |-> n, e |-> e]
ArrDecl(t, n, len) == [k |-> "arr", t |-> t, n |-> n, len |-> len]
Assign(op, x, e) == [k |-> "assign", op |-> op, x |-> x, e |-> e]
If(c, a, b) == [k |-> "if", c |-> c, a |-> a, b |-> b]
For(n, lo, hi, body) == [k |-> "for", n |-> n, lo |-> lo, hi |-> hi, body |-> body]
ForC(init, c, upd, body) ==
    [k |-> "forc", init |-> init, c |-> c, upd |-> upd, body |-> body]
Block(ss) == [k |-> "block", ss |-> ss]
ExprStmt(e) == [k |-> "expr", e |-> e]
Ret(e) == [k |-> "ret", e |-> e]

(* Every reader of an environment takes the last binding of a name; 0 when *)
(* there is none.                                                          *)
Lookup(env, n) ==
    LET at == {i \in 1..Len(env) : env[i].n = n}
    IN IF at = {} THEN 0 ELSE CHOOSE i \in at : \A j \in at : j <= i
=============================================================================
