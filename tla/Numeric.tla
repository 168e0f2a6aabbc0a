------------------------------- MODULE Numeric -------------------------------
(***************************************************************************)
(* One compilation of a scalar program                                     *)
(*     comptime outer.t J = outer.v                                        *)
(*     comptime ctt K = comptime { ct }       (a constant used here is J)  *)
(*     def f() -> ret { body }           (a constant used here is K)  *)
(* through the constant evaluator, the checker and the two back ends, with *)
(* the results compared against the meaning of the program (NumRef).       *)
(***************************************************************************)
EXTENDS NumTypes, TLC

CONSTANTS Programs,     \* the programs compiled, [outer, ct, ctt, body, ret]
          Fuel, Budget

Check == INSTANCE NumCheck
Code == INSTANCE NumCode
CText == INSTANCE NumC WITH CFuel <- Fuel
Fold == INSTANCE Comptime
Ref == INSTANCE NumRef WITH RefFuel <- Fuel

VARIABLES prog, compiled

vars == <<prog, compiled>>

-----------------------------------------------------------------------------
(* What each part of the compiler makes of a program. *)

(* check_stmt on the constant. *)
FoldConst(p) == Fold!comptime_const(p.ct, p.ctt, p.outer)

Const(p) == [t |-> p.ctt, v |-> FoldConst(p).v]

(* check_stmt on the function, after the constant. *)
CheckFn(p) == FoldConst(p).s = "ok" /\ Check!check_fn(p.body, p.ret, Const(p))

(* `ls run` and `ls compile`. *)
RunCode(p) ==
    LET r == Code!run_fn(p.body, p.ret, Const(p))
    IN [flow |-> r.flow, v |-> Code!Reading(p.ret, r.val)]

(* `ls emit-c`. *)
EmitC(p) ==
    LET r == CText!emit_fn(p.body, p.ret, Const(p))
    IN [flow |-> r.flow, v |-> r.val.v]

Init == prog \in Programs /\ compiled = FALSE

(* The driver compiles and runs the program. *)
Compile == ~compiled /\ compiled' = TRUE /\ UNCHANGED prog

Next == Compile

Spec == Init /\ [][Next]_vars

-----------------------------------------------------------------------------
FnMeaning(p) == Ref!Meaning_fn(p.body, p.ret, Const(p))

(* What the constant's block would return if it were a function. *)
BlockMeaning(p) == Ref!Meaning_fn(p.ct, p.ctt, p.outer)

Defined(m) == m.flow = "returned" /\ m.val.s # "undef"

Exact(m) == m.flow = "returned" /\ m.val.s = "exact"

SameWhenDefined(code, m) == Defined(m) => code.flow = "returned" /\ code.v = m.val.v

SameWhenExact(code, m) ==
    Exact(m) /\ code.flow # "unsupported" => code.flow = "returned" /\ code.v = m.val.v

SameConstant(konst, m) ==
    Exact(m) => \/ konst.s = "ok" /\ konst.v = m.val.v
                \/ konst.s = "fail" /\ konst.steps = Budget - 1

(* The LLVM code of an accepted function is well formed, and when the      *)
(* program has a meaning it returns exactly that value, wrapped where the  *)
(* static types wrap: cg_widen, cg_expr_binary, cg_expr_cast and the store *)
(* of a declaration all agree on the width and the signedness the checker  *)
(* decided.                                                                *)
EmittedMeaning ==
    [][CheckFn(prog) => /\ RunCode(prog).flow # "ill"
                        /\ SameWhenDefined(RunCode(prog), FnMeaning(prog))]_vars

(* A comptime block evaluates to what the same statements compute at run   *)
(* time, whenever no result depends on the width of a type; and it is      *)
(* rejected then only because the budget ran out.                          *)
FoldAgrees ==
    [][Check!check_fn(prog.ct, prog.ctt, prog.outer) =>
          SameConstant(FoldConst(prog), BlockMeaning(prog))]_vars

(* The C program computes what the LLVM code computes, whenever no result  *)
(* depends on the width of a type: C's promotions never change the value   *)
(* of an expression the checker accepted.                                  *)
CAgrees == [][CheckFn(prog) => SameWhenExact(EmitC(prog), FnMeaning(prog))]_vars
=============================================================================
