---------------------------- MODULE CloneElide ----------------------------
(***************************************************************************)
(* Clone elision (checker_elide.c): a backward walk over a fully checked   *)
(* body that finds by-value consumptions that are the last use of a local  *)
(* and tags them moved_out, so that codegen transfers the heap value       *)
(* instead of cloning it.                                                  *)
(***************************************************************************)
EXTENDS MoveChecker

VARIABLES
    used,      \* EVar.used: read on some path after the current point
    eframes    \* ifs and loops the walk is inside, innermost last

elideVars == <<used, eframes>>

ElideInit == used = [v \in Vars |-> FALSE] /\ eframes = <<>>

\* elide_scan, PRESCAN: the operand of an intrinsic such as @move is never a
\* candidate.  (Names are bound once, so the shadow rule excludes nothing.)
Excluded(v) == \E i \in 1 .. Len(prog) : prog[i].k \in MoveForm /\ prog[i].v = v

LoopPreset_Dropped(i, v) == FALSE

\* elide_scan visits every name of a statement; an assignment's target, which
\* the backward walk takes for a write, is one of them.
Mentions(s, v) == Reads(s, v) \/ (s.k \in {"set", "assign"} /\ s.v = v)

\* elide_scan, LOOP: named anywhere in the loop that opens at i and declared
\* outside it, hence alive across the back edge.
LoopPreset(i, v) ==
    /\ \E j \in i .. mate[i] : Mentions(prog[j], v)
    /\ \A j \in i .. mate[i] : ~(prog[j].k \in Decls /\ prog[j].v = v)

EStmt == prog[pos]
ETop  == eframes[Len(eframes)]
EPop  == SubSeq(eframes, 1, Len(eframes) - 1)
Opener(j) == CHOOSE i \in DOMAIN mate : mate[i] = j

\* ew_consume_or_read: tag the source when nothing reads it later.
Consume(v, live) ==
    /\ moved_out' = moved_out \cup
          (IF ~Excluded(v) /\ ~live[v] THEN {pos} ELSE {})
    /\ used' = [live EXCEPT ![v] = TRUE]

\* ew_block goes from the last statement of a block to its first.
Back == pos' = pos - 1 /\ UNCHANGED <<gram, prog, mate, st, frames>>

-----------------------------------------------------------------------------
(* ew_stmt, one action per statement shape. *)

\* Binding source, call argument, plain assignment source.
ElideConsume ==
    /\ EStmt.k \in {"bind", "arg", "move", "refill", "stmtmove", "movebin"}
          \/ (EStmt.k = "assign" /\ EStmt.v # EStmt.w)
    /\ Consume(Source(EStmt), used)
    /\ Back /\ UNCHANGED eframes

\* Plain reads; a self-assignment only reads, a write to a name is no read.
ElideRead ==
    /\ EStmt.k \in {"decl", "set", "use", "usebin"} \cup Exits
          \/ (EStmt.k = "assign" /\ EStmt.v = EStmt.w)
    /\ used' = [v \in Vars |-> used[v] \/ Reads(EStmt, v)]
    /\ Back /\ UNCHANGED <<moved_out, eframes>>

\* return: nothing on this path reads anything later.
ElideReturn ==
    /\ EStmt.k \in Returns
    /\ LET none == [v \in Vars |-> FALSE]
       IN  IF EStmt.k = "ret" THEN used' = none /\ UNCHANGED moved_out
           ELSE Consume(EStmt.v, none)
    /\ Back /\ UNCHANGED eframes

\* The end of an if or a loop, the first the walk sees of it.
ElideEnd ==
    /\ EStmt.k = "end"
    /\ LET i == Opener(pos) IN
       IF prog[i].k \in Loops
       THEN /\ used' = [v \in Vars |-> used[v] \/ LoopPreset(i, v)]
            /\ eframes' = eframes
       ELSE /\ used' = used
            /\ eframes' = Append(eframes, [after |-> used, other |-> used])
    /\ Back /\ UNCHANGED moved_out

\* Between the branches: both start from the state after the if.
ElideElse ==
    /\ EStmt.k = "else"
    /\ eframes' = Append(EPop, [ETop EXCEPT !.other = used])
    /\ used' = ETop.after
    /\ Back /\ UNCHANGED moved_out

\* The if itself: a name is used if either path uses it.
ElideIf ==
    /\ EStmt.k = "if"
    /\ used' = [v \in Vars |-> used[v] \/ ETop.other[v]]
    /\ eframes' = EPop
    /\ Back /\ UNCHANGED moved_out

\* The loop head: its condition reads; f(@move(v)) is a call argument.
ElideLoop ==
    /\ EStmt.k \in Loops
    /\ used' = [v \in Vars |-> used[v] \/ Reads(EStmt, v)]
    /\ Back /\ UNCHANGED <<moved_out, eframes>>

ElideStmt ==
    \/ ElideConsume \/ ElideRead \/ ElideReturn \/ ElideEnd
    \/ ElideElse \/ ElideIf \/ ElideLoop
=============================================================================
