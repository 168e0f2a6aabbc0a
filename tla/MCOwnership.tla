---------------------------- MODULE MCOwnership ----------------------------
(* Small instances of Ownership for TLC: the families of programs. *)
EXTENDS Ownership, TLC

CONSTANTS x, y

MCVars == {x, y}
Symmetry == Permutations(Vars)

\* Every statement over two locals.
AllForms ==
    [kinds |-> {"decl", "bind", "use", "arg", "move", "set", "assign", "refill", "ret",
                "retv", "if", "else", "end", "while", "whileuse", "break", "continue"},
     forms |-> {}, len |-> 7, names |-> 2]

\* Nested and consecutive branches and loops around one local.
Flow ==
    [kinds |-> {"decl", "arg", "move", "ret", "if", "else", "end", "while", "break",
                "continue"},
     forms |-> {}, len |-> 10, names |-> 1]

\* The forms the compiler accepts and gets wrong.
Unsound ==
    [kinds |-> {"decl", "bind", "arg", "set", "assign", "retmove", "stmtmove",
                "whilemove", "usebin", "movebin", "if", "end", "while", "ret", "break"},
     forms |-> {"self_assign", "cond_move", "ret_move", "stmt_move", "loop_return",
                "binary_memo"},
     len |-> 6, names |-> 2]

MCGrammars == {AllForms, Flow, Unsound}

\* One unsound form at a time: with one of these as the family and Faultless as the
\* invariant, TLC finds the shortest program that shows the finding.
Only(form, kinds) == {[kinds |-> kinds, forms |-> {form}, len |-> 6, names |-> 2]}

SelfAssign  == Only("self_assign", {"decl", "use", "assign"})
CondMove    == Only("cond_move", {"decl", "whilemove", "end"})
StmtMove    == Only("stmt_move", {"decl", "stmtmove"})
RetMove     == Only("ret_move", {"decl", "retmove"})
LoopReturn  == Only("loop_return", {"decl", "arg", "while", "end", "ret"})
BinaryMemo  == Only("binary_memo", {"decl", "usebin", "movebin", "while", "end"})

\* Nothing the memcheck runtime reports happens.
Faultless == fault = {}
=============================================================================
