----------------------------- MODULE TempLedger -----------------------------
(***************************************************************************)
(* The compiler's ledger of statement temporaries (codegen_own.c) and the  *)
(* scopes of owned locals beside it.  The ledger is a compile-time array:  *)
(* each exit from a statement emits the drops of the slots it holds, so    *)
(* one entry is dropped on several run-time paths.  A context `c' holds    *)
(*   slots, count, base  ctx->temp_drop_slots, _count, _base (entries      *)
(*                       above count stay in the array, as in C)           *)
(*   loop_floor, loop_scope   ctx->loop_temp_drop_floor, ctx->loop_scope   *)
(*   scopes              stack of sequences of symbols                     *)
(*   code                instructions of the block being filled            *)
(*   entry               zero-initialised slots of the entry block         *)
(*   n                   slots and registers handed out so far             *)
(*   val                 register of the last expression, 0 for none       *)
(***************************************************************************)
EXTENDS Naturals, Sequences, SequencesExt

EmptyContext ==
    [slots |-> <<>>, count |-> 0, base |-> 0, loop_floor |-> 0, loop_scope |-> 0,
     scopes |-> << <<>> >>, code |-> <<>>, entry |-> {}, n |-> 0, val |-> 0]

Put(c, ins) == [c EXCEPT !.code = Append(@, ins)]
Fresh(c) == [c EXCEPT !.n = @ + 1]          \* the new slot is Fresh(c).n
NoVal(c) == [c EXCEPT !.val = 0]

(* What follows in a function, from the context its first part left: this  *)
(* is Rest(c), with c computed first. *)
Then(c, Rest(_)) == CHOOSE r \in {Rest(x) : x \in {c}} : TRUE

(* LLVMGetBasicBlockTerminator: the block being filled has its last        *)
(* instruction.  A branching instruction leaves the builder at its merge.  *)
Terminated(c) == c.code # <<>> /\ Last(c.code).i \in {"ret", "br", "exit"}

-----------------------------------------------------------------------------
(* Scopes *)

push_scope(c) == [c EXCEPT !.scopes = Append(@, <<>>)]
pop_scope(c) == [c EXCEPT !.scopes = Front(@)]

cg_scope_define(c, name, slot, flag, why) ==
    [c EXCEPT !.scopes[Len(c.scopes)] =
        Append(@, [name |-> name, slot |-> slot, flag |-> flag, why |-> why])]

(* <<scope, index>> of the innermost symbol called name, or <<>>. *)
Site(c, name) ==
    LET at == {<<s, i>> \in (DOMAIN c.scopes) \X (1 .. 9) :
                 i \in DOMAIN c.scopes[s] /\ c.scopes[s][i].name = name}
    IN IF at = {} THEN <<>>
       ELSE CHOOSE p \in at : \A q \in at : q[1] < p[1] \/ (q[1] = p[1] /\ q[2] <= p[2])

cg_scope_resolve(c, name) == LET p == Site(c, name) IN c.scopes[p[1]][p[2]]

MarkMovedOut(c, p) == [c EXCEPT !.scopes[p[1]][p[2]].why = "MOVED_OUT"]

(* Drop the owned symbols of the scopes above `stop', innermost first, but *)
(* not the slot that is being returned. *)
emit_cleanup_to(c, stop, skip) ==
    LET syms == FlattenSeq(SubSeq(c.scopes, stop + 1, Len(c.scopes)))
        owned == SelectSeq(syms, LAMBDA s : s.why = "OWNED" /\ s.slot # skip)
    IN IF Terminated(c) THEN c
       ELSE [c EXCEPT !.code = @ \o [k \in DOMAIN owned |->
               LET s == owned[Len(owned) + 1 - k]
               IN [i |-> "drop", s |-> s.slot, f |-> s.flag]]]

emit_scope_cleanup(c) == emit_cleanup_to(c, Len(c.scopes) - 1, 0)

-----------------------------------------------------------------------------
(* The ledger *)

cg_push_temp_drop(c, slot) ==
    [c EXCEPT !.slots = IF c.count = Len(@) THEN Append(@, slot)
                        ELSE [@ EXCEPT ![c.count + 1] = slot],
              !.count = @ + 1]

cg_remove_temp_drop_never(c, slot) == c

(* Forget a slot without dropping it: compacts the live part of the array. *)
cg_remove_temp_drop(c, slot) ==
    LET kept == SelectSeq(SubSeq(c.slots, 1, c.count), LAMBDA s : s # slot)
    IN [c EXCEPT !.slots = kept \o SubSeq(@, Len(kept) + 1, Len(@)),
                 !.count = Len(kept)]

(* Spill register `val' to a slot of its own and register it. *)
cg_spill_owned_rvalue(c, val, zeroed) ==
    cg_push_temp_drop([Put(Fresh(c), [i |-> "mov", d |-> c.n + 1, s |-> val])
                         EXCEPT !.entry = IF zeroed THEN @ \union {c.n + 1} ELSE @], c.n + 1)

emit_drops(c, floor) ==
    IF Terminated(c) THEN c
    ELSE [c EXCEPT !.code = @ \o [k \in 1 .. (IF c.count > floor THEN c.count - floor ELSE 0) |->
             [i |-> "drop", s |-> c.slots[floor + k], f |-> 0]]]

Lower(a, b) == IF a < b THEN a ELSE b

(* The end of a statement: everything above the protected base. *)
cg_flush_temps(c) ==
    LET floor == Lower(c.base, c.count)
    IN [emit_drops(c, floor) EXCEPT !.count = floor]

cg_flush_temps_scope_exit_based(c) == cg_flush_temps(c)

(* `return' and the failing path of `try': every temporary. *)
cg_flush_temps_scope_exit(c) ==
    [cg_flush_temps([c EXCEPT !.base = 0]) EXCEPT !.base = c.base]

(* `break', `continue', constructors and the good path of `try': the       *)
(* temporaries registered since `floor' was read. *)
cg_flush_temps_from(c, floor) ==
    [emit_drops(c, floor) EXCEPT !.count = Lower(@, floor)]
=============================================================================
