----------------------------- MODULE OwnedCode -----------------------------
(***************************************************************************)
(* The code the compiler emits for owned locals (codegen_stmt.c,           *)
(* codegen_own.c, codegen_call.c): every local has a slot, a runtime       *)
(* moved_flag and, while its block is open, a scheduled drop.  Heap values *)
(* are blocks numbered in order of allocation; `fault' collects what the   *)
(* --memcheck runtime would report.                                        *)
(***************************************************************************)
EXTENDS CloneElide

CONSTANTS
    MaxBack   \* bound: back edges of one execution

ASSUME OwnedCodeAssumption == MaxBack \in Nat

VARIABLES
    slot,    \* block each local's storage points to, 0 when never set
    flag,    \* moved_flag of each local
    depth,   \* block depth each local was declared at, 0 out of scope
    heap,    \* sequence of "live" / "freed"
    back,    \* back edges taken
    fault

codeVars == <<slot, flag, depth, heap, back, fault>>

CodeInit ==
    /\ slot = [v \in Vars |-> 0]
    /\ flag = [v \in Vars |-> FALSE]
    /\ depth = [v \in Vars |-> 0]
    /\ heap = <<>> /\ back = 0 /\ fault = {}

-----------------------------------------------------------------------------
(* Heap operations on a pair [h: heap, f: faults]. *)

Now == [h |-> heap, f |-> fault]

Alloc(m) == [m EXCEPT !.h = Append(@, "live")]
Newest(m) == Len(m.h)

Free(m, b) ==
    IF m.h[b] = "freed" THEN [m EXCEPT !.f = @ \cup {"double_free"}]
    ELSE [m EXCEPT !.h[b] = "freed"]

\* Reading a local: its block must be live and must not have been given away.
Read(m, v) ==
    [m EXCEPT !.f = @ \cup
        (IF m.h[slot[v]] = "freed" THEN {"use_after_free"} ELSE {}) \cup
        (IF flag[v] THEN {"use_after_move"} ELSE {})]

\* emit_struct_drop_cond / emit_enum_drop_cond: skip the drop when moved.
DropCond(m, v) == IF flag[v] THEN m ELSE Free(m, slot[v])

\* emit_cleanup_to: drop every owned local of S once.  Two locals that own the
\* same block free it twice.
Cleanup(m, S) ==
    LET owned == {v \in S : ~flag[v]}
        freed == {slot[v] : v \in owned}
        twice == \/ \E b \in freed : m.h[b] = "freed"
                 \/ Cardinality(freed) < Cardinality(owned)
    IN  [h |-> [b \in DOMAIN m.h |-> IF b \in freed THEN "freed" ELSE m.h[b]],
         f |-> m.f \cup (IF twice THEN {"double_free"} ELSE {})]

Keep(m) == heap' = m.h /\ fault' = m.f

-----------------------------------------------------------------------------
(* Control flow. *)

RStmt == prog[pos]
Nest(p) == Cardinality({i \in DOMAIN mate : i < p /\ p <= mate[i]})
LoopsAround(p) == {i \in DOMAIN mate : prog[i].k \in Loops /\ i < p /\ p < mate[i]}
LoopOf(p) == CHOOSE i \in LoopsAround(p) : \A j \in LoopsAround(p) : j <= i
ElseOf(i) == {j \in i .. mate[i] : prog[j].k = "else" /\ Nest(j) = Nest(i) + 1}

InScope_Shallow(d) == {v \in Vars : depth[v] > d + 1}

InScope(d) == {v \in Vars : depth[v] > d}   \* declared deeper than d
Leave(S) == depth' = [v \in Vars |-> IF v \in S THEN 0 ELSE depth[v]]

Goto(p) == pos' = p
Step == Goto(pos + 1) /\ UNCHANGED back
Static == UNCHANGED <<checkVars, elideVars>>

Declare(v, b) ==
    /\ slot' = [slot EXCEPT ![v] = b]
    /\ depth' = [depth EXCEPT ![v] = Nest(pos) + 1]

-----------------------------------------------------------------------------
(* Declarations and assignments. *)

\* The flags after v was bound or assigned: v owns again, and a source that
\* moved does not (cg_invalidate_moved_source).  Clearing v comes last.
Rebound(v, w, moves) ==
    [u \in Vars |-> IF u = v THEN FALSE ELSE IF moves /\ u = w THEN TRUE ELSE flag[u]]

\* cg_stmt_var_decl: clear the flag, then move or clone the source.
RunDecl ==
    /\ RStmt.k \in Decls
    /\ LET v == RStmt.v  w == RStmt.w
           moves == RStmt.k = "bind" /\ pos \in moved_out
           m == IF RStmt.k = "decl" THEN Alloc(Now)
                ELSE IF moves THEN Read(Now, w) ELSE Alloc(Read(Now, w))
       IN  /\ Keep(m)
           /\ Declare(v, IF moves THEN slot[w] ELSE Newest(m))
           /\ flag' = Rebound(v, w, moves)
    /\ Step /\ Static

\* cg_stmt_assign, target a local.  The value is computed first, then the old
\* value of the target is dropped, then the source is invalidated or cloned,
\* then the value is stored and the target's flag cleared.
RunAssign ==
    /\ RStmt.k \in {"set", "assign"}
    /\ LET v == RStmt.v  w == RStmt.w
           moves == RStmt.k = "assign" /\ pos \in moved_out
           value == IF RStmt.k = "set" THEN Alloc(Now) ELSE Read(Now, w)
           dropped == DropCond(value, v)
           m == IF RStmt.k = "assign" /\ ~moves THEN Alloc(dropped) ELSE dropped
       IN  /\ Keep(m)
           /\ slot' = [slot EXCEPT ![v] = IF moves THEN slot[w] ELSE Newest(m)]
           /\ flag' = Rebound(v, w, moves)
    /\ Step /\ Static /\ UNCHANGED depth

\* v = r(@move(v)): the callee takes the old value and drops it, the flag
\* suppresses the drop of the old value, storing clears it again.
RunRefill ==
    /\ RStmt.k = "refill"
    /\ LET v == RStmt.v
           m == Alloc(Free(Read(Now, v), slot[v]))
       IN  /\ Keep(m)
           /\ slot' = [slot EXCEPT ![v] = Newest(m)]
           /\ flag' = [flag EXCEPT ![v] = FALSE]
    /\ Step /\ Static /\ UNCHANGED depth

-----------------------------------------------------------------------------
(* Expression statements and calls.  The callee drops its by-value parameter. *)

RunUse ==
    /\ RStmt.k \in {"use", "usebin"}
    /\ Keep(Read(Now, RStmt.v))
    /\ Step /\ Static /\ UNCHANGED <<slot, flag, depth>>

\* By-value argument: clone, or transfer when tagged; @move always transfers.
\* Marking the source moved is cg_invalidate_moved_source.
CallByValue(v, gives) ==
    /\ Keep(IF gives THEN Free(Read(Now, v), slot[v])
            ELSE LET m == Alloc(Read(Now, v)) IN Free(m, Newest(m)))
    /\ flag' = IF gives THEN [flag EXCEPT ![v] = TRUE] ELSE flag

RunCall ==
    /\ RStmt.k \in {"arg", "move", "movebin"}
    /\ CallByValue(RStmt.v, RStmt.k \in MoveForm \/ pos \in moved_out)
    /\ Step /\ Static /\ UNCHANGED <<slot, depth>>

\* @move(v) as a statement: @move is a call node, so its value is spilled as
\* an owned rvalue and dropped at the flush; the flag is not touched.
RunStmtMove ==
    /\ RStmt.k = "stmtmove"
    /\ Keep(Free(Read(Now, RStmt.v), slot[RStmt.v]))
    /\ Step /\ Static /\ UNCHANGED <<slot, flag, depth>>

-----------------------------------------------------------------------------
(* Blocks, branches, loops, jumps. *)

\* A branch condition: either branch may be taken.
RunIf ==
    /\ RStmt.k = "if"
    /\ \/ Goto(pos + 1)
       \/ Goto(IF ElseOf(pos) = {} THEN mate[pos] + 1
               ELSE (CHOOSE j \in ElseOf(pos) : TRUE) + 1)
    /\ Static /\ UNCHANGED codeVars

\* The loop head is evaluated on every iteration.
RunLoop ==
    /\ RStmt.k \in Loops
    /\ CASE RStmt.k = "while"     -> UNCHANGED <<heap, fault, flag>>
         [] RStmt.k = "whileuse"  -> Keep(Read(Now, RStmt.v)) /\ UNCHANGED flag
         [] RStmt.k = "whilemove" -> CallByValue(RStmt.v, TRUE)
    /\ Goto(pos + 1) \/ Goto(mate[pos] + 1)
    /\ Static /\ UNCHANGED <<slot, depth, back>>

\* End of a block: drop its locals; a loop body goes back to its head, a then
\* branch continues behind the else branch.
RunEnd ==
    /\ RStmt.k \in {"end", "else"}
    /\ LET dead == InScope(Nest(pos))
           i == CHOOSE o \in DOMAIN mate : o < pos /\ pos <= mate[o] /\ Nest(o) = Nest(pos) - 1
           loops == prog[i].k \in Loops
       IN  /\ Keep(Cleanup(Now, dead)) /\ Leave(dead)
           /\ loops => back < MaxBack
           /\ back' = IF loops THEN back + 1 ELSE back
           /\ Goto(IF loops THEN i ELSE mate[i] + 1)
    /\ Static /\ UNCHANGED <<slot, flag>>

\* break and continue drop the locals declared inside the loop.
RunExit ==
    /\ RStmt.k \in Exits
    /\ LET i == LoopOf(pos)
           dead == InScope(Nest(i) + 1)
       IN  /\ Keep(Cleanup(Now, dead)) /\ Leave(dead)
           /\ RStmt.k = "continue" => back < MaxBack
           /\ back' = IF RStmt.k = "continue" THEN back + 1 ELSE back
           /\ Goto(IF RStmt.k = "continue" THEN i ELSE mate[i] + 1)
    /\ Static /\ UNCHANGED <<slot, flag>>

\* cg_stmt_return: a returned local is skipped by the cleanup and handed to
\* the caller, who drops it; return @move(v) is a call node, not a name, so
\* the cleanup does not skip v.
RunReturn ==
    /\ RStmt.k \in Returns
    /\ LET v == RStmt.v
           all == InScope(0)
           m == IF RStmt.k = "ret" THEN Cleanup(Now, all)
                ELSE Free(Cleanup(Read(Now, v),
                                  IF RStmt.k = "retv" THEN all \ {v} ELSE all),
                          slot[v])
       IN  Keep(m) /\ Leave(all)
    /\ Goto(Len(prog) + 2)
    /\ Static /\ UNCHANGED <<slot, flag, back>>

\* Falling off the end of the function body.
RunFallOff ==
    /\ Keep(Cleanup(Now, InScope(0))) /\ Leave(InScope(0))
    /\ Goto(Len(prog) + 2)
    /\ Static /\ UNCHANGED <<slot, flag, back>>

RunStmt ==
    \/ RunDecl \/ RunAssign \/ RunRefill \/ RunUse \/ RunCall \/ RunStmtMove
    \/ RunIf \/ RunLoop \/ RunEnd \/ RunExit \/ RunReturn
=============================================================================
