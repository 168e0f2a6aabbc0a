----------------------------- MODULE Ownership -----------------------------
(***************************************************************************)
(* The ownership pipeline of the compiler on one function body: the move   *)
(* checker walks it forward, clone elision walks it backward, and the code *)
(* emitted from the tagged tree runs, taking every branch both ways.  The  *)
(* promise of README.md is memory safety without a collector: no value is  *)
(* dropped twice, used after it was given away, or leaked.                 *)
(***************************************************************************)
EXTENDS OwnedCode

VARIABLES
    phase,   \* "check", "elide", "run", "done"
    ann      \* status the checker had before each statement, last walk

vars == <<phase, ann, pos, checkVars, elideVars, codeVars>>

Init == phase = "check" /\ ann = <<>> /\ CheckInit /\ ElideInit /\ CodeInit

Check ==
    /\ phase = "check"
    /\ CheckStmt
    /\ ann' = [i \in DOMAIN ann \cup {pos} |-> IF i = pos THEN st ELSE ann[i]]
    /\ UNCHANGED <<phase, elideVars, codeVars>>

\* The body ends; the checker accepted it.
Accept ==
    /\ phase = "check" /\ frames = <<>> /\ prog # <<>> /\ pos = Len(prog) + 1
    /\ phase' = "elide" /\ pos' = Len(prog)
    /\ UNCHANGED <<ann, checkVars, elideVars, codeVars>>

Elide ==
    /\ phase = "elide" /\ pos > 0
    /\ ElideStmt
    /\ UNCHANGED <<phase, ann, codeVars>>

Emit ==
    /\ phase = "elide" /\ pos = 0
    /\ phase' = "run" /\ pos' = 1
    /\ UNCHANGED <<ann, checkVars, elideVars, codeVars>>

Run ==
    /\ phase = "run" /\ pos <= Len(prog)
    /\ RunStmt
    /\ UNCHANGED <<phase, ann>>

FallOff ==
    /\ phase = "run" /\ pos = Len(prog) + 1
    /\ RunFallOff
    /\ UNCHANGED <<phase, ann>>

Exit ==
    /\ phase = "run" /\ pos = Len(prog) + 2
    /\ phase' = "done"
    /\ UNCHANGED <<ann, pos, checkVars, elideVars, codeVars>>

Next == Check \/ Accept \/ Elide \/ Emit \/ Run \/ FallOff \/ Exit

Spec == Init /\ [][Next]_vars

-----------------------------------------------------------------------------
(* Properties. *)

\* The program's family has none of the forms the compiler is known to get
\* wrong (the findings of the README).
SoundForms == gram.forms = {}

\* No heap value is dropped twice, on any path of any accepted program: the
\* callee, the assignment, the scope cleanup and the caller never both drop.
NoDoubleFree == SoundForms => "double_free" \notin fault

\* No statement of an accepted program reads a value that was moved away,
\* whether the program moved it or clone elision did.
NoUseAfterMove == SoundForms => fault \cap {"use_after_move", "use_after_free"} = {}

\* When the function has returned, every value it allocated was dropped:
\* suppressing a drop through moved_flag never loses the value.  This holds of
\* the unsound forms too: they drop too often, never too seldom.
NoLeak == phase = "done" => \A b \in 1 .. Len(heap) : heap[b] = "freed"

\* A variable the checker holds live at a statement really owns its value when
\* control is there, on every path, unless clone elision took it at a use it
\* proved to be the last.
LiveOwns ==
    SoundForms /\ phase = "run" /\ pos <= Len(prog) =>
        \A v \in Vars : ann[pos][v] = "live" /\ flag[v] =>
            \E i \in moved_out : prog[i].k = "arg" /\ prog[i].v = v
=============================================================================
