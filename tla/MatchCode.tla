----------------------------- MODULE MatchCode ------------------------------
(***************************************************************************)
(* The code emitted for match, try, force-unwrap and the statements around *)
(* them (codegen_match.c, codegen_stmt.c, codegen_expr.c), as far as it    *)
(* allocates, moves and drops owned values.  Every heap value is either an *)
(* owned struct or an enum of two variants with one owned payload each, as *)
(* Result(Str, Str); variant 1 is the success variant.  Expressions:       *)
(*   call  a function whose arguments are borrowed; `ty' of its result     *)
(*   ctor  the constructor of variant `v' with a payload                   *)
(*   var, lit, try, unwrap, match, block, and stmt for a statement that    *)
(*   stands as the body of an arm.                                         *)
(***************************************************************************)
EXTENDS TempLedger

RECURSIVE codegen_expr(_, _), codegen_stmt(_, _)

(* An owned rvalue no binding owns yet: cg_expr_yields_owned_rvalue. *)
Typed(e) == e.k \in {"try", "unwrap"} \/ (e.k \in {"call", "match"} /\ e.ty # "pod" /\ e.ty # "void")
cg_expr_yields_owned_rvalue(e) == Typed(e)

Register(c, ins) == [Put(Fresh(c), ins @@ [d |-> c.n + 1]) EXCEPT !.val = c.n + 1]

(* The instructions another block gets, with the ledger as `c' left it. *)
NewBlock(c) == [c EXCEPT !.code = <<>>]
Back(c, inner) == [inner EXCEPT !.code = c.code]

-----------------------------------------------------------------------------
(* Calls and constructors *)

EvalArgs(c, args) ==
    FoldLeft(LAMBDA a, e : Then(codegen_expr(a.c, e),
                                LAMBDA b : [c |-> b, vals |-> Append(a.vals, b.val)]),
             [c |-> c, vals |-> <<>>], args)

(* An argument that is an owned rvalue is spilled for the borrow. *)
SpillArg(c, e, val) == IF e.k \in {"var", "lit", "pod"} THEN c
                       ELSE cg_spill_owned_rvalue(c, val, FALSE)

BorrowArgs(c, args, vals) ==
    [FoldLeft(LAMBDA s, k : SpillArg(s, args[k], vals[k]), c, [k \in DOMAIN args |-> k])
       EXCEPT !.code = @ \o [k \in DOMAIN args |-> [i |-> "use", s |-> vals[k]]]]

CallResult(c, ty) ==
    IF ty = "pod" THEN NoVal(c)
    ELSE Register(c, [i |-> IF ty = "enum" THEN "new_enum" ELSE "new"])

cg_expr_call(c, e) ==
    Then(EvalArgs(c, e.args), LAMBDA a : CallResult(BorrowArgs(a.c, e.args, a.vals), e.ty))

(* cg_store_owned into the payload: a named owner is moved, a borrowed     *)
(* binder cloned, an rvalue taken as it is. *)
cg_store_owned(c, e) ==
    IF e.k # "var" THEN c
    ELSE LET s == cg_scope_resolve(c, e.x)
         IN CASE s.why = "BORROWED" -> Register(c, [i |-> "clone", s |-> c.val])
              [] s.why = "MOVED_OUT" -> cg_remove_temp_drop(c, s.slot)
              [] OTHER -> Put(c, [i |-> "flag", f |-> s.flag, v |-> TRUE])

emit_enum_ctor(c, e) ==
    Then(cg_store_owned(codegen_expr(c, e.arg), e.arg), LAMBDA a :
         cg_flush_temps_from(Register(a, [i |-> "pack", v |-> e.v, s |-> a.val]), c.count))

-----------------------------------------------------------------------------
(* Arms of a match *)

cg_match_arm_tail(body) == IF body.k = "block" THEN body.tail ELSE body

(* The value an arm yields must belong to the result alone: a tail naming  *)
(* someone else's value is cloned. *)
cg_match_arm_own_tail(c, tail, ty, floor) ==
    IF c.val = 0 \/ ty \in {"pod", "void"} \/ c.count > floor \/ tail.k # "var" THEN c
    ELSE IF Site(c, tail.x) = <<>> \/ cg_scope_resolve(c, tail.x).why = "MOVED_OUT" THEN c
    ELSE Register(c, [i |-> "clone", s |-> c.val])

(* The last temporary of the arm is taken to be the result; the others are *)
(* dropped here, and the ledger returns to what it was before the body. *)
cg_match_arm_encapsulate(c, floor, ty) ==
    [emit_drops([c EXCEPT !.count = IF ty \notin {"pod", "void"} /\ @ > floor THEN @ - 1 ELSE @],
                floor)
       EXCEPT !.count = floor]

StoreResult(c, res) ==
    IF res = 0 \/ c.val = 0 THEN c ELSE Put(c, [i |-> "mov", d |-> res, s |-> c.val])

ArmResult(c, body, res, ty, floor) ==
    IF res = 0 THEN c
    ELSE StoreResult(cg_match_arm_own_tail(c, cg_match_arm_tail(body), ty, floor), res)

cg_match_emit_arm_body(c, body, res, ty) ==
    cg_match_arm_encapsulate(ArmResult(codegen_expr(c, body), body, res, ty, c.count), c.count, ty)

(* A binder of an owned subject gets a clone and a moved flag; the others  *)
(* look into the subject. *)
BindPayload(c, name, subj, owned) ==
    IF name = "_" THEN c
    ELSE Then(Register(c, [i |-> "payload", s |-> subj]), LAMBDA p :
              IF ~owned THEN cg_scope_define(p, name, p.val, 0, "BORROWED")
              ELSE Then(Fresh(Register(p, [i |-> "clone", s |-> p.val])), LAMBDA f :
                        cg_scope_define(Put(f, [i |-> "flag", f |-> f.n, v |-> FALSE]),
                                        name, f.val, f.n, "OWNED")))

(* `=> binder': the binder's value becomes the result, its drop is off. *)
MoveOutBinder(c, tail) ==
    LET here == IF tail.k = "var" THEN Site(c, tail.x) ELSE <<>>
    IN IF c.val # 0 /\ here # <<>> /\ here[1] = Len(c.scopes)
          /\ cg_scope_resolve(c, tail.x).why = "OWNED"
       THEN MarkMovedOut(c, here) ELSE c

VariantArm(c, arm, subj, owned, res, ty) ==
    Then(BindPayload(push_scope(c), arm.bind, subj, owned), LAMBDA b :
         Then(MoveOutBinder(codegen_expr(b, arm.body), cg_match_arm_tail(arm.body)), LAMBDA d :
              cg_match_arm_encapsulate(
                  pop_scope(emit_scope_cleanup(ArmResult(d, arm.body, res, ty, b.count))),
                  b.count, ty)))

cg_match_subject_is_owned_rvalue(e) == e.k # "var"

(* The value switched on is the last one; an owned rvalue is spilled. *)
Subject(c, owned) ==
    IF owned THEN [cg_spill_owned_rvalue(c, c.val, FALSE) EXCEPT !.val = c.n + 1] ELSE c

LowerArm(c, arm, subj, owned, res, ty) ==
    IF arm.v = 0 THEN cg_match_emit_arm_body(c, arm.body, res, ty)
    ELSE VariantArm(c, arm, subj, owned, res, ty)

(* Every arm fills a block of its own. *)
LowerArms(c, e, subj, owned, res) ==
    FoldLeft(LAMBDA a, arm :
                Then(LowerArm(NewBlock(a.c), arm, subj, owned, res, e.ty), LAMBDA b :
                     [c |-> Back(c, b), cases |-> Append(a.cases, [v |-> arm.v, code |-> b.code])]),
             [c |-> c, cases |-> <<>>], e.arms)

(* The merge: an owned subject is dropped there, and the result read. *)
DropSubject(c, subj, owned) ==
    IF owned THEN cg_remove_temp_drop(Put(c, [i |-> "drop", s |-> subj, f |-> 0]), subj) ELSE c

Merge(c, res) == IF res = 0 THEN NoVal(c) ELSE Register(c, [i |-> "mov", s |-> res])

SwitchTo(m, subj) == Put(m.c, [i |-> "switch", s |-> subj, cases |-> m.cases])

(* Switch on the variant; arm 1 is for variant 1, and a wildcard arm `_'   *)
(* takes whatever no other arm names. *)
LowerSwitch(c, e, subj, owned, res, saved_base) ==
    Merge([DropSubject(SwitchTo(LowerArms([c EXCEPT !.base = c.count], e, subj, owned, res), subj),
                       subj, owned) EXCEPT !.base = saved_base], res)

cg_match_lower_enum(c0, e, saved_base) ==
    Then(Subject(codegen_expr(c0, e.subj), cg_match_subject_is_owned_rvalue(e.subj)), LAMBDA c :
         LowerSwitch(IF e.ty = "void" THEN c ELSE [Fresh(c) EXCEPT !.entry = @ \union {c.n + 1}],
                     e, c.val, cg_match_subject_is_owned_rvalue(e.subj),
                     IF e.ty = "void" THEN 0 ELSE c.n + 1, saved_base))

codegen_match_expr(c, e) == cg_match_lower_enum(c, e, c.base)

-----------------------------------------------------------------------------
(* try and force-unwrap *)

(* The failing path drains the ledger and returns; the good path restores  *)
(* it and drops what the operand left above the floor. *)
FailingPath(c, val) ==
    Then(Register(c, [i |-> "payload", s |-> val]), LAMBDA p :
         Then(Register(p, [i |-> "pack", v |-> 2, s |-> p.val]), LAMBDA bad :
              Put(emit_cleanup_to(cg_flush_temps_scope_exit(bad), 0, 0),
                  [i |-> "ret", s |-> bad.val])))

SwitchOk(c, val, good, bad) ==
    Put(c, [i |-> "switch", s |-> val,
            cases |-> <<[v |-> 1, code |-> good], [v |-> 2, code |-> bad]>>])

codegen_try_expr(c, e) ==
    Then(codegen_expr(c, e.e), LAMBDA a :
         Then(Register(NewBlock(a), [i |-> "payload", s |-> a.val]), LAMBDA ok :
              Then(FailingPath(NewBlock(ok), a.val), LAMBDA ret :
                   [cg_flush_temps_from(
                        [SwitchOk(Back(a, ret), a.val, ok.code, ret.code) EXCEPT !.count = a.count],
                        c.count) EXCEPT !.val = ok.val])))

(* The payload leaves a named operand, whose moved flag is set; the        *)
(* failing path ends the process. *)
SetMoved(c, at, e) ==
    IF e.k = "var" /\ cg_scope_resolve(at, e.x).why = "OWNED"
    THEN Put(c, [i |-> "flag", f |-> cg_scope_resolve(at, e.x).flag, v |-> TRUE]) ELSE c

codegen_force_unwrap_expr(c, e) ==
    Then(codegen_expr(c, e.e), LAMBDA a :
         Then(SetMoved(Register(NewBlock(a), [i |-> "payload", s |-> a.val]), a, e.e), LAMBDA ok :
              SwitchOk(Back(a, ok), a.val, ok.code, <<[i |-> "exit"]>>)))

-----------------------------------------------------------------------------
(* Blocks and statements *)

(* The owned local a block yields leaves the block's scope for the ledger. *)
YieldLocal(c, tail, outer) ==
    LET p == IF tail.k = "var" THEN Site(c, tail.x) ELSE <<>>
    IN IF c.val # 0 /\ p # <<>> /\ p[1] > outer /\ cg_scope_resolve(c, tail.x).why = "OWNED"
       THEN cg_push_temp_drop(MarkMovedOut(c, p), cg_scope_resolve(c, tail.x).slot) ELSE c

BlockTail(c, tail) == IF tail.k = "none" THEN NoVal(c) ELSE codegen_expr(c, tail)

cg_expr_block(c, e) ==
    pop_scope(emit_cleanup_to(
        YieldLocal(BlockTail(FoldLeft(codegen_stmt, NoVal(push_scope(c)), e.stmts), e.tail),
                   e.tail, Len(c.scopes)),
        Len(c.scopes), 0))

codegen_expr(c, e) ==
    CASE e.k = "pod" -> NoVal(c)
      [] e.k = "lit" -> Register(c, [i |-> "null"])
      [] e.k = "var" -> Register(c, [i |-> "mov", s |-> cg_scope_resolve(c, e.x).slot])
      [] e.k = "call" -> cg_expr_call(c, e)
      [] e.k = "ctor" -> emit_enum_ctor(c, e)
      [] e.k = "match" -> codegen_match_expr(c, e)
      [] e.k = "try" -> codegen_try_expr(c, e)
      [] e.k = "unwrap" -> codegen_force_unwrap_expr(c, e)
      [] e.k = "block" -> cg_expr_block(c, e)
      [] e.k = "stmt" -> NoVal(codegen_stmt(c, e.s))

(* A named source is moved, or cloned when it is not the scope's to give. *)
TakeSource(c, e) ==
    IF e.k # "var" THEN c
    ELSE IF cg_scope_resolve(c, e.x).why = "OWNED"
    THEN Put(c, [i |-> "flag", f |-> cg_scope_resolve(c, e.x).flag, v |-> TRUE])
    ELSE Register(c, [i |-> "clone", s |-> c.val])

(* Slot and moved flag of a new local. *)
DeclareLocal(c, x) ==
    cg_scope_define(
        cg_flush_temps([c EXCEPT !.n = @ + 2,
                                 !.code = @ \o <<[i |-> "mov", d |-> c.n + 1, s |-> c.val],
                                                 [i |-> "flag", f |-> c.n + 2, v |-> FALSE]>>]),
        x, c.n + 1, c.n + 2, "OWNED")

cg_stmt_var_decl(c, s) == DeclareLocal(TakeSource(codegen_expr(c, s.e), s.e), s.x)

(* The slot of the owned local that is returned by name, or 0. *)
Returned(c, e) ==
    IF e.k = "var" /\ cg_scope_resolve(c, e.x).why = "OWNED"
    THEN cg_scope_resolve(c, e.x).slot ELSE 0

LeaveWith(c, keep) == Put(emit_cleanup_to(c, 0, keep), [i |-> "ret", s |-> c.val])

CloneBorrowed(c, e, keep) ==
    IF e.k = "var" /\ keep = 0 THEN Register(c, [i |-> "clone", s |-> c.val]) ELSE c

cg_stmt_return(c, s) ==
    LeaveWith(CloneBorrowed(cg_flush_temps_scope_exit(codegen_expr(c, s.e)), s.e, Returned(c, s.e)),
              Returned(c, s.e))

(* Both branches and the merge start from the ledger the condition left. *)
IfBranches(a, s) ==
    Then(codegen_stmt(NewBlock(a), s.t), LAMBDA t :
         Then(codegen_stmt([NewBlock(t) EXCEPT !.count = a.count], s.e), LAMBDA e :
              Put([Back(a, e) EXCEPT !.count = a.count], [i |-> "if", t |-> t.code, e |-> e.code])))

cg_stmt_if(c, s) == IfBranches(cg_flush_temps(codegen_expr(c, s.c)), s)

(* while, and for and for_c as far as the ledger goes. *)
EnterLoop(c) == [NewBlock(c) EXCEPT !.loop_floor = c.count, !.loop_scope = Len(c.scopes)]

cg_stmt_while(c, s) ==
    Then(cg_flush_temps(codegen_expr(EnterLoop(c), s.c)), LAMBDA t :
         Then(codegen_stmt(NewBlock(t), s.b), LAMBDA b :
              Put([Back(c, b) EXCEPT !.loop_floor = c.loop_floor, !.loop_scope = c.loop_scope],
                  [i |-> "loop", c |-> t.code, b |-> b.code])))

BreakOrContinue(c, to) ==
    Put(emit_cleanup_to(cg_flush_temps_from(c, c.loop_floor), c.loop_scope, 0),
        [i |-> "br", to |-> to])

DropUnused(c, e) ==
    IF c.val # 0 /\ cg_expr_yields_owned_rvalue(e) THEN cg_spill_owned_rvalue(c, c.val, FALSE) ELSE c

cg_expr_stmt(c, e) ==
    cg_flush_temps(DropUnused(codegen_expr(c, e), e))

EmitAll(c, ss) ==
    FoldLeft(LAMBDA a, s : IF Terminated(a) THEN a ELSE codegen_stmt(a, s), c, ss)

codegen_block(c, ss) ==
    pop_scope(emit_cleanup_to(EmitAll(push_scope(c), ss), Len(c.scopes), 0))

codegen_stmt(c, s) ==
    CASE s.s = "expr" -> cg_expr_stmt(c, s.e)
      [] s.s = "decl" -> cg_stmt_var_decl(c, s)
      [] s.s = "ret" -> cg_stmt_return(c, s)
      [] s.s = "if" -> cg_stmt_if(c, s)
      [] s.s = "while" -> cg_stmt_while(c, s)
      [] s.s = "break" -> BreakOrContinue(c, "break")
      [] s.s = "continue" -> BreakOrContinue(c, "continue")
      [] s.s = "block" -> codegen_block(c, s.b)

(* The function: its body, then the drops of its own scope. *)
EndOfBody(c) ==
    IF Terminated(c) THEN c ELSE Put(emit_cleanup_to(c, 0, 0), [i |-> "ret", s |-> 0])

codegen_fn(ss) == EndOfBody(EmitAll(EmptyContext, ss))
=============================================================================
