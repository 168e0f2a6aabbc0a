------------------------------ MODULE Program ------------------------------
(***************************************************************************)
(* The programs the ownership passes are run on: one function body over    *)
(* owned (has_drop struct or enum) locals, as a flat sequence of           *)
(* statements in which `if'/`while' ... `end' bracket blocks (AST_BLOCK,   *)
(* AST_IF, AST_WHILE of parser.h).  Expressions are abstracted to what they*)
(* do to owned locals.  With r() a call that returns a fresh owned value   *)
(* and f() a call that takes its parameter by value:                       *)
(*                                                                         *)
(*   decl v      T v = r()          use v      v.len()                     *)
(*   bind v w    T v = w            arg v      f(v)                        *)
(*   set v       v = r()            move v     f(@move(v))                 *)
(*   assign v w  v = w              refill v   v = r(@move(v))             *)
(*   ret         return r()         retv v     return v                    *)
(*   retmove v   return @move(v)    stmtmove v @move(v)                    *)
(*   usebin v    v.len() + 1        movebin v  f(@move(v)) + 1             *)
(*   while w/o v, whileuse v, whilemove v: loop whose condition reads      *)
(*   nothing, reads v, or is f(@move(v)).                                  *)
(*                                                                         *)
(* A name is declared at most once (checker_elide.c excludes names with    *)
(* two binders) and nothing follows a jump in its block (codegen stops at  *)
(* a terminator).                                                          *)
(***************************************************************************)
EXTENDS Naturals, Sequences, FiniteSets

CONSTANTS
    Vars,      \* names of owned locals
    NoVar,     \* statement without an operand
    Grammars   \* the families of programs to run: the statement kinds they are
               \* built from, the unsound forms they may contain (see Allowed),
               \* bounds on the statements and on the names declared

ASSUME ProgramAssumption ==
    /\ IsFiniteSet(Vars) /\ NoVar \notin Vars
    /\ \A g \in Grammars : g.len \in Nat /\ g.names \in 1 .. Cardinality(Vars)

VARIABLE gram   \* the family of the program at hand

Decls    == {"decl", "bind"}
Binary   == {"bind", "assign"}
Unary    == {"decl", "use", "arg", "move", "set", "refill", "retv", "retmove",
             "stmtmove", "whileuse", "whilemove", "usebin", "movebin"}
InBinary == {"usebin", "movebin"}   \* the operand is inside an AST_BINARY
Loops    == {"while", "whileuse", "whilemove"}
Opens    == Loops \cup {"if"}
Returns  == {"ret", "retv", "retmove"}
Exits    == {"break", "continue"}
Jumps    == Returns \cup Exits
MoveForm == {"move", "refill", "retmove", "stmtmove", "whilemove", "movebin"}   \* @move(v)

\* Statements of kind k.
Stmts(k) == [k : {k},
             v : IF k \in Unary \cup Binary THEN Vars ELSE {NoVar},
             w : IF k \in Binary THEN Vars ELSE {NoVar}]

\* The operand a statement reads by name, if any.
Source(s) == IF s.k \in Binary THEN s.w ELSE s.v

\* Does statement s read v?  (An assignment's target is written, not read.)
Reads(s, v) == s.k \notin {"decl", "set"} /\ Source(s) = v
=============================================================================
