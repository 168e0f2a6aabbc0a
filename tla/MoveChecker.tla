---------------------------- MODULE MoveChecker ----------------------------
(***************************************************************************)
(* The checker's move analysis (checker_borrow.c, checker_stmt.c): one     *)
(* forward walk that keeps a status per owned symbol, snapshots it around  *)
(* branches and walks every loop body twice, the first time silently.      *)
(*                                                                         *)
(* The program is chosen while the walk first reaches its end, so a        *)
(* program the checker rejects is abandoned at the offending statement.    *)
(***************************************************************************)
EXTENDS Program

VARIABLES
    prog,       \* the statements, in order
    mate,       \* position of an opening statement -> position of its end
    pos,        \* the statement the current pass or the run is at
    st,         \* Symbol.is_moved / is_maybe_moved, "undef" out of scope
    frames,     \* open blocks, innermost last
    moved_out   \* positions whose source node is tagged moved_out

checkVars == <<gram, prog, mate, st, frames, moved_out>>

Status == {"undef", "live", "maybe", "moved"}

-----------------------------------------------------------------------------
(* The move lattice. *)

\* move_snap_merge_into_symbols: join of the two ends of an if/else.
Merge(a, b) ==
    IF a = "moved" /\ b = "moved" THEN "moved"
    ELSE IF {a, b} \cap {"moved", "maybe"} # {} THEN "maybe" ELSE "live"

Elevate_Forgets(before, now) == before

\* move_elevate_moves_to_maybe: the block may not have run.
Elevate(before, now) ==
    IF before = "moved" THEN now
    ELSE IF now = "moved" \/ before = "maybe" THEN "maybe" ELSE now

Preseed_Ignored(before, pass1) == before

\* move_preseed_maybe_from_pass1: what pass 2 of a loop starts from.
Preseed(before, pass1) ==
    IF before # "moved" /\ pass1 \in {"moved", "maybe"} THEN "maybe" ELSE before

\* Pointwise, on the symbols in scope before the block.
Snap(base, after) == [v \in Vars |-> IF base[v] = "undef" THEN "undef" ELSE after[v]]

-----------------------------------------------------------------------------
Top == frames[Len(frames)]
Pop == SubSeq(frames, 1, Len(frames) - 1)

\* checker_move_error reports nothing inside the first walk of a loop body.
Silent == \E i \in 1 .. Len(frames) : frames[i].k \in Loops /\ frames[i].pass = 1

\* check_expr on an identifier: using a moved or maybe-moved name is an error.
Usable(v) == Silent \/ st[v] = "live"

\* checker_try_mark_moved, and @move: a live symbol becomes moved.
Mark(s, v) == IF s[v] = "live" THEN [s EXCEPT ![v] = "moved"] ELSE s

InLoop == \E i \in 1 .. Len(frames) : frames[i].k \in Loops

\* Forms the compiler accepts and compiles into a memory error; a
\* family of programs names the ones its programs may have.
Allowed(s) ==
    /\ s.k = "assign" /\ s.v = s.w => "self_assign" \in gram.forms
    /\ s.k = "whilemove" => "cond_move" \in gram.forms
    /\ s.k = "retmove" => "ret_move" \in gram.forms
    /\ s.k = "stmtmove" => "stmt_move" \in gram.forms
    /\ s.k \in InBinary => "binary_memo" \in gram.forms
    /\ s.k \in Returns /\ InLoop =>
          \/ "loop_return" \in gram.forms
          \/ Top.k = "if" /\ \A j \in Top.at .. Len(prog) : prog[j].k \notin Exits

Declared == {prog[j].v : j \in {i \in 1 .. Len(prog) : prog[i].k \in Decls}}

\* Grammar: which statements may extend the program here.
Wellformed(s) ==
    /\ s.v # NoVar => IF s.k \in Decls
                      THEN s.v \notin Declared /\ Cardinality(Declared) < gram.names
                      ELSE st[s.v] # "undef"
    /\ s.w # NoVar => st[s.w] # "undef"
    /\ s.k \in Exits => InLoop
    /\ s.k = "else" => frames # <<>> /\ Top.k = "if"
    /\ s.k = "end" => frames # <<>>
    /\ s.k \in {"else", "end"} => prog[Len(prog)].k \notin Opens \cup {"else"}
    /\ prog # <<>> /\ prog[Len(prog)].k \in Jumps =>
          s.k \in {"else", "end"} /\ frames # <<>>
    /\ Len(prog) + Len(frames)
         + (IF s.k \in Opens THEN 2 ELSE IF s.k = "end" THEN 0 ELSE 1) <= gram.len

\* The statement at pos: fixed on a second walk, chosen on the first.
Stmt == IF pos <= Len(prog) THEN {prog[pos]}
        ELSE {s \in UNION {Stmts(k) : k \in gram.kinds} : Wellformed(s) /\ Allowed(s)}

Record(s) ==
    /\ pos' = pos + 1 /\ UNCHANGED gram
    /\ prog' = IF pos <= Len(prog) THEN prog ELSE Append(prog, s)

-----------------------------------------------------------------------------
(* check_stmt, one action per statement shape. *)

CheckInit ==
    /\ gram \in Grammars
    /\ prog = <<>> /\ mate = <<>> /\ pos = 1
    /\ st = [v \in Vars |-> "undef"]
    /\ frames = <<>>
    /\ moved_out = {}

\* T v = init: check the initializer, define the symbol, move the source.
CheckDecl(s) ==
    /\ s.k \in Decls
    /\ s.k = "bind" => Usable(s.w)
    /\ LET defined == [st EXCEPT ![s.v] = "live"]
       IN  st' = IF s.k = "bind" THEN Mark(defined, s.w) ELSE defined
    /\ moved_out' = moved_out \cup
          (IF s.k = "bind" /\ st[s.w] = "live" THEN {pos} ELSE {})
    /\ Record(s) /\ UNCHANGED <<mate, frames>>

\* check_expr_binary returns the type it found the first time: no later walk
\* looks at the operands of a binary again.
Memoized == pos <= Len(prog)

CheckMemo(s) ==
    /\ s.k \in InBinary /\ Memoized
    /\ Record(s) /\ UNCHANGED <<mate, frames, st, moved_out>>

\* Reads, by-value arguments, return v; break and continue do nothing.
CheckRead(s) ==
    /\ s.k \in {"use", "arg", "retv", "ret"} \cup Exits \/ (s.k = "usebin" /\ ~Memoized)
    /\ s.v # NoVar => Usable(s.v)
    /\ Record(s) /\ UNCHANGED <<mate, frames, st, moved_out>>

\* Statements around @move(v): the argument is checked, then marked.
CheckMove(s) ==
    /\ s.k \in {"move", "refill", "retmove", "stmtmove"} \/ (s.k = "movebin" /\ ~Memoized)
    /\ Usable(s.v)
    /\ st' = Mark(st, s.v)
    /\ moved_out' = moved_out \cup (IF st[s.v] = "live" THEN {pos} ELSE {})
    /\ Record(s) /\ UNCHANGED <<mate, frames>>

\* v = e: the target is checked like a use, then the value, then the source
\* of a plain variable moves.  Assigning never makes a moved target live.
CheckAssign(s) ==
    /\ s.k \in {"set", "assign"}
    /\ Usable(s.v)
    /\ s.k = "assign" => Usable(s.w)
    /\ st' = IF s.k = "assign" THEN Mark(st, s.w) ELSE st
    /\ moved_out' = moved_out \cup
          (IF s.k = "assign" /\ st[s.w] = "live" THEN {pos} ELSE {})
    /\ Record(s) /\ UNCHANGED <<mate, frames>>

\* if and while: the condition is checked once, then the state is captured.
CheckOpen(s) ==
    /\ s.k \in Opens
    /\ s.v # NoVar => Usable(s.v)
    /\ LET cond == IF s.k = "whilemove" THEN Mark(st, s.v) ELSE st
       IN  /\ st' = cond
           /\ frames' = Append(frames,
                  [k |-> s.k, at |-> pos, base |-> cond, other |-> cond, pass |-> 1])
    /\ moved_out' = moved_out \cup
          (IF s.k = "whilemove" /\ st[s.v] = "live" THEN {pos} ELSE {})
    /\ Record(s) /\ UNCHANGED mate

\* Between the branches: keep the end of `then', restart from before the if.
CheckElse(s) ==
    /\ s.k = "else"
    /\ frames' = Append(Pop, [Top EXCEPT !.k = "else", !.other = st])
    /\ st' = Top.base
    /\ Record(s) /\ UNCHANGED <<mate, moved_out>>

\* The end of an if: join with the other branch, or elevate without one.
CheckEndIf(s) ==
    /\ s.k = "end" /\ Top.k \in {"if", "else"}
    /\ LET Joined == [v \in Vars |-> IF Top.k = "else" THEN Merge(Top.other[v], st[v])
                                     ELSE Elevate(Top.base[v], st[v])]
       IN  st' = Snap(Top.base, Joined)
    /\ frames' = Pop
    /\ mate' = [i \in DOMAIN mate \cup {Top.at} |-> IF i = Top.at THEN pos ELSE mate[i]]
    /\ Record(s) /\ UNCHANGED moved_out

\* The end of a loop body.  First walk: back to the start of the body with
\* everything the walk moved seeded maybe-moved.  Second walk: go on.
CheckEndLoop(s) ==
    /\ s.k = "end" /\ Top.k \in Loops
    /\ LET Seeded == [v \in Vars |-> Preseed(Top.base[v], st[v])]
           Done   == [v \in Vars |-> Elevate(Top.base[v], st[v])]
       IN  IF Top.pass = 1
           THEN /\ st' = Snap(Top.base, Seeded)
                /\ frames' = Append(Pop, [Top EXCEPT !.pass = 2])
                /\ pos' = Top.at + 1 /\ UNCHANGED gram
                /\ prog' = IF pos <= Len(prog) THEN prog ELSE Append(prog, s)
           ELSE /\ st' = Snap(Top.base, Done)
                /\ frames' = Pop
                /\ Record(s)
    /\ mate' = [i \in DOMAIN mate \cup {Top.at} |-> IF i = Top.at THEN pos ELSE mate[i]]
    /\ UNCHANGED moved_out

CheckStmt ==
    \E s \in Stmt :
        \/ CheckDecl(s) \/ CheckMemo(s) \/ CheckRead(s) \/ CheckMove(s) \/ CheckAssign(s)
        \/ CheckOpen(s) \/ CheckElse(s) \/ CheckEndIf(s) \/ CheckEndLoop(s)
=============================================================================
