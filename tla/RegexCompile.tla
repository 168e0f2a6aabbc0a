---------------------------- MODULE RegexCompile ----------------------------
(***************************************************************************)
(* The pattern compiler of runtime/ls_regex.c: recursive descent over the  *)
(* pattern, emitting the program of a Pike VM and repairing the absolute   *)
(* program counters whenever emitted code is moved or copied.              *)
(*                                                                         *)
(* A pattern is a sequence of tokens [k, v, n, m]: k the kind, v a set of  *)
(* characters (a literal or a class), n and m the bounds of {n,m} (m = -1  *)
(* for none) or, for a class, n = 1 when it is negated.  An instruction is *)
(* [op, v, a, b].  Program counters start at 1 where the code's start at 0.*)
(* A class is its set of characters instead of an index into a table.      *)
(***************************************************************************)
EXTENDS Integers, Sequences, FiniteSets

CONSTANTS Chars,      \* the characters texts are made of
          MaxInstrs,  \* MAX_INSTRS
          MaxGroups,  \* MAX_GROUPS, group 0 included
          MaxDepth    \* RE_MAX_DEPTH

Tok(k) == [k |-> k, v |-> {}, n |-> 0, m |-> 0]
Lit(ch) == [Tok("lit") EXCEPT !.v = {ch}]

Instr(op, v, a, b) == [op |-> op, v |-> v, a |-> a, b |-> b]

\* Compiler: the cursor, the handle's program and flags, the group counter.
Start(pat, flags) ==
  [pat |-> pat, pos |-> 1, prog |-> <<>>, flags |-> flags, groups |-> 0,
   depth |-> 0, err |-> FALSE]

Fail(c) == [c EXCEPT !.err = TRUE]
Peek(c) == IF c.pos <= Len(c.pat) THEN c.pat[c.pos].k ELSE "end"
Advance(c) == [c EXCEPT !.pos = @ + 1]
Size(c) == Len(c.prog)

\* emit: refused, and the instruction lost, when the program is full.
Full(c) == Size(c) >= MaxInstrs - 1
EmitOr(c, onFull, op, v, a, b) ==
  IF Full(c) THEN onFull ELSE [c EXCEPT !.prog = Append(@, Instr(op, v, a, b))]
Emit(c, op, v, a, b) == EmitOr(c, Fail(c), op, v, a, b)
EmitUnchecked(c, op, v, a, b) == EmitOr(c, c, op, v, a, b)

----------------------------------------------------------------------------
\* Moving and copying code.

\* The operands of an instruction that lie in lo..hi, moved by delta.
Retarget(i, lo, hi, delta) ==
  LET moved(o) == IF lo <= o /\ o <= hi THEN o + delta ELSE o
  IN CASE i.op = "split"            -> [i EXCEPT !.a = moved(@), !.b = moved(@)]
       [] i.op \in {"jump", "look"} -> [i EXCEPT !.a = moved(@)]
       [] OTHER                     -> i

\* The first target that moves when one slot is opened at `at`: for code that
\* moved, `at` itself; for the code before it only what lies behind `at`,
\* because `at` stays the entry of the construct.
FirstMoved(pc, at) == IF pc > at THEN at ELSE at + 1

\* memmove by one slot and re_fixup_pcs_after_shift, then the new
\* instruction in the vacated slot.
Shifted(prog, at, new) ==
  LET fixed(i, pc) == Retarget(i, FirstMoved(pc, at), Len(prog) + 1, 1)
  IN [pc \in 1..(Len(prog) + 1) |->
        CASE pc = at -> new
          [] pc < at -> fixed(prog[pc], pc)
          [] pc > at -> fixed(prog[pc - 1], pc)]

LastOwn_Exclusive(src, len) == src + len - 1

\* The last target that belongs to a copied body: one past its end.
LastOwn(src, len) == src + len

\* memcpy of prog[src .. src+len) to the end and re_fixup_pcs_after_copy.
Copied(prog, src, len) ==
  prog \o [i \in 1..len |-> Retarget(prog[src + i - 1], src, LastOwn(src, len),
                                     Len(prog) + 1 - src)]

----------------------------------------------------------------------------
\* Quantifiers.

\* `lazy` swaps the preferred and the other branch of the SPLIT.
Split(first, second, lazy) ==
  IF lazy THEN Instr("split", {}, second, first) ELSE Instr("split", {}, first, second)

Optional(c, at, lazy) ==
  IF Size(c) + 1 > MaxInstrs THEN Fail(c)
  ELSE [c EXCEPT !.prog = Shifted(@, at, Split(at + 1, Len(@) + 2, lazy))]

Starred(c, at, lazy) ==
  LET end == Size(c) + 3
      opened == [c EXCEPT !.prog = Shifted(@, at, Split(at + 1, end, lazy))]
  IN IF Size(c) + 1 > MaxInstrs THEN Fail(c)
     ELSE Emit(opened, "jump", {}, at, 0)

Repeated(c, at, lazy) ==
  LET s == Split(at, Size(c) + 2, lazy)
  IN Emit(c, "split", {}, s.a, s.b)

apply_quantifier(c, at, q, lazy) ==
  CASE q = "?" -> Optional(c, at, lazy)
    [] q = "*" -> Starred(c, at, lazy)
    [] q = "+" -> Repeated(c, at, lazy)

\* One more copy of the body, refused when the program would grow too large.
MoreBody(c, src, len, room) ==
  IF Size(c) + len + room >= MaxInstrs - 4 THEN Fail(c)
  ELSE [c EXCEPT !.prog = Copied(@, src, len)]

RECURSIVE Mandatory(_, _, _, _), Optionals(_, _, _, _, _)
Mandatory(c, src, len, k) ==
  IF k <= 0 \/ c.err THEN c
  ELSE Mandatory(MoreBody(c, src, len, 0), src, len, k - 1)
Optionals(c, src, len, k, lazy) ==
  IF k <= 0 \/ c.err THEN c
  ELSE LET d == MoreBody(c, src, len, 2)
       IN IF d.err THEN d
          ELSE Optionals(Optional(d, Size(c) + 1, lazy), src, len, k - 1, lazy)

\* The path for a zero lower bound: the copy already emitted becomes optional,
\* and the body to copy has moved behind its SPLIT.
ZeroOrMore(c, at, len, m, lazy) ==
  CASE m = 0  -> [c EXCEPT !.prog = SubSeq(@, 1, at - 1)]
    [] m = -1 -> Starred(c, at, lazy)
    [] m > 0  -> LET first == Optional(c, at, lazy)
                 IN IF first.err THEN first
                    ELSE Optionals(first, at + 1, len, m - 1, lazy)

\* What follows the n mandatory copies: a starred one, or m - n optional ones.
Remainder(c, at, len, left, lazy) ==
  IF c.err THEN c
  ELSE IF left < 0
       THEN IF Size(c) + len + 2 > MaxInstrs THEN Fail(c)
            ELSE Starred([c EXCEPT !.prog = Copied(@, at, len)], Size(c) + 1, lazy)
       ELSE Optionals(c, at, len, left, lazy)

apply_count(c, at, n, m, lazy) ==
  LET len == Size(c) + 1 - at
  IN IF n = 0 THEN ZeroOrMore(c, at, len, m, lazy)
     ELSE Remainder(Mandatory(c, at, len, n - 1), at, len, IF m = -1 THEN -1 ELSE m - n, lazy)

----------------------------------------------------------------------------
\* Atoms, pieces, concatenations, alternatives.

\* parse_class_body: the listed characters, or all the others.
ClassOf(tok) == IF tok.n = 1 THEN Chars \ tok.v ELSE tok.v

AtomOps == [any |-> "any", bol |-> "bol", eol |-> "eol", bos |-> "bos", eos |-> "eos",
            wordb |-> "wordb", nwordb |-> "nwordb", word |-> "word", nword |-> "nword"]

RECURSIVE parse_expr(_), parse_concat(_), parse_branches(_, _, _)

\* A group's contents up to its ')'.
Closed(d) == IF d.err \/ Peek(d) # ")" THEN Fail(d) ELSE Advance(d)
Enclosed(c) == Closed(parse_expr(c))

\* (...) and (?<name>...): SAVE, contents, SAVE.  The closing SAVE is emitted
\* without a look at the result.
SaveEnd(d, id) == IF d.err THEN d ELSE EmitUnchecked(d, "save", {}, 2 * id + 1, 0)
Capturing(c, id) ==
  IF id >= MaxGroups \/ Full(c) THEN Fail(c)
  ELSE SaveEnd(Enclosed(Emit([c EXCEPT !.groups = id], "save", {}, 2 * id, 0)), id)

\* (?=...) and (?!...): LOOKAHEAD, contents, MATCH; the operand is the pc
\* behind the MATCH.
LookEnd(d, la) ==
  IF d.err THEN d
  ELSE [EmitUnchecked(d, "match", {}, 0, 0) EXCEPT !.prog[la].a = Size(d) + 2]
Looking(c, negative) ==
  IF Full(c) THEN Fail(c)
  ELSE LookEnd(Enclosed(Emit(c, "look", {}, 0, negative)), Size(c) + 1)

Atom(d, tok) ==
  CASE tok.k = "("    -> Capturing(d, d.groups + 1)
    [] tok.k = "(?:"  -> Enclosed(d)
    [] tok.k \in {"(?=", "(?!"} -> Looking(d, IF tok.k = "(?!" THEN 1 ELSE 0)
    [] tok.k = "(?f)" -> [d EXCEPT !.flags = @ \cup tok.v]
    [] tok.k = "bad"  -> Fail(d)
    [] tok.k = "set"  -> Emit(d, "class", ClassOf(tok), 0, 0)
    [] tok.k = "lit"  -> Emit(d, "char", tok.v, 0, 0)
    [] tok.k \in DOMAIN AtomOps -> Emit(d, AtomOps[tok.k], {}, 0, 0)
    [] OTHER          -> Emit(d, "char", {tok.k}, 0, 0)   \* a stray quantifier
parse_atom(c) == Atom(Advance(c), c.pat[c.pos])

\* A lazy mark after a quantifier.
Lazily(c) == Peek(c) = "?"
SkipLazy(c) == IF Lazily(c) THEN Advance(c) ELSE c

\* {n,m}, refused when m is too large or below n.
Counted(c, at, tok) ==
  IF tok.m > 255 \/ (tok.m # -1 /\ tok.m < tok.n) THEN Fail(c)
  ELSE apply_count(SkipLazy(c), at, tok.n, tok.m, Lazily(c))

\* The quantifier behind an atom that emitted code from `at` on.
Quantified(d, at) ==
  IF d.err \/ Size(d) < at THEN d
  ELSE IF Peek(d) \in {"*", "+", "?"}
       THEN apply_quantifier(SkipLazy(Advance(d)), at, Peek(d), Lazily(Advance(d)))
  ELSE IF Peek(d) = "{" THEN Counted(Advance(d), at, d.pat[d.pos])
  ELSE d
parse_piece(c) == Quantified(parse_atom(c), Size(c) + 1)

parse_concat(c) ==
  IF c.err \/ Peek(c) \in {"end", ")", "|"} THEN c ELSE parse_concat(parse_piece(c))

MaxBranches == 64   \* the size of jump_patches

\* The JUMPs behind the branches lead to the end of the alternation.
Land(d, jumps) ==
  [d EXCEPT !.prog = [pc \in 1..Size(d) |->
                        IF pc \in jumps THEN [d.prog[pc] EXCEPT !.a = Size(d) + 1]
                        ELSE d.prog[pc]]]

\* The branch that starts at `at` gets a SPLIT of its own when another '|'
\* follows.
NextBranch(d, at, jumps) ==
  IF d.err THEN d
  ELSE IF Peek(d) # "|" THEN Land(d, jumps)
  ELSE IF Size(d) + 1 >= MaxInstrs THEN Fail(d)
  ELSE parse_branches([d EXCEPT !.prog = Shifted(@, at, Split(0, 0, FALSE))], at, jumps)

\* One '|' after the branch that starts at `at` behind its SPLIT: the JUMP to
\* the end, the SPLIT's second target, then the next branch.
Behind(c, at, jumps) ==
  NextBranch(parse_concat([c EXCEPT !.prog[at] = Instr("split", {}, at + 1, Size(c) + 1)]),
             Size(c) + 1, jumps)
parse_branches(c, at, jumps) ==
  IF Cardinality(jumps) >= MaxBranches THEN Fail(c)
  ELSE Behind(EmitUnchecked(Advance(c), "jump", {}, 0, 0), at, jumps \cup {Size(c) + 1})

Branches(d, at) ==
  IF d.err \/ Peek(d) # "|" THEN d
  ELSE IF Size(d) + 2 >= MaxInstrs THEN Fail(d)
  ELSE parse_branches([d EXCEPT !.prog = Shifted(@, at, Split(0, 0, FALSE))], at, {})
parse_expr(c) ==
  IF c.depth >= MaxDepth THEN Fail(c)
  ELSE [Branches(parse_concat([c EXCEPT !.depth = @ + 1]), Size(c) + 1) EXCEPT !.depth = c.depth]

\* The parsing half of __ls_regex_compile.
Finish(c) ==
  IF c.err \/ c.pos <= Len(c.pat) THEN Fail(c)
  ELSE EmitUnchecked(EmitUnchecked(c, "save", {}, 1, 0), "match", {}, 0, 0)
Compiled(pat, flags) == Finish(parse_expr(Emit(Start(pat, flags), "save", {}, 0, 0)))
=============================================================================
