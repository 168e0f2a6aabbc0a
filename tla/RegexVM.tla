------------------------------ MODULE RegexVM ------------------------------
(***************************************************************************)
(* The analyses and the three engines of runtime/ls_regex.c over a program *)
(* compiled by RegexCompile: the Pike VM with its list of threads in       *)
(* priority order, the one-pass walk of a single pc, and the lazily cached *)
(* DFA, with the prefilters that choose the start positions.               *)
(*                                                                         *)
(* Positions in a text start at 0 as in the code.  A thread is [pc, saved];*)
(* saved maps every slot to a position or -1.                              *)
(***************************************************************************)
EXTENDS RegexCompile, TLC

CONSTANTS MaxThreads,  \* MAX_THREADS
          MaxDfaProg   \* RE_DFA_MAX_PROG

WordChars == {"a", "b", "A"} \cap Chars
Lower(ch) == IF ch = "A" THEN "a" ELSE ch
At(text, pos) == text[pos + 1]

\* re_slot_count: two slots for every group and for the whole match.
Slots(re) == 0..(2 * re.groups + 1)
Unset(re) == [s \in Slots(re) |-> -1]

\* The byte test of a consuming instruction, the same in every engine.
Consumes(re, i, ch) ==
  LET fold == "i" \in re.flags
  IN CASE i.op = "char"  -> IF fold THEN Lower(ch) \in {Lower(x) : x \in i.v} ELSE ch \in i.v
       [] i.op = "any"   -> ch # "n" \/ "s" \in re.flags
       [] i.op = "class" -> (IF fold THEN Lower(ch) ELSE ch) \in i.v
       [] i.op = "word"  -> ch \in WordChars
       [] i.op = "nword" -> ch \notin WordChars

Consuming == {"char", "any", "class", "word", "nword"}
Anchors == {"bol", "eol", "bos", "eos"}

\* The zero-width tests.
Holds(re, op, text, pos) ==
  LET wordAt(p) == p >= 0 /\ p < Len(text) /\ At(text, p) \in WordChars
      multi == "m" \in re.flags
  IN CASE op = "bol" -> pos = 0 \/ (multi /\ At(text, pos - 1) = "n")
       [] op = "eol" -> pos = Len(text) \/ (multi /\ At(text, pos) = "n")
       [] op = "bos" -> pos = 0
       [] op = "eos" -> pos = Len(text)
       [] op = "wordb"  -> wordAt(pos - 1) # wordAt(pos)
       [] op = "nwordb" -> wordAt(pos - 1) = wordAt(pos)

----------------------------------------------------------------------------
\* Compile-time analyses.

\* re_build_prefilter: the run of CHARs behind the opening SAVE, ...
Literal(re) ==
  LET n == CHOOSE k \in 0..(Len(re.prog) - 1) :
             /\ \A pc \in 2..(k + 1) : re.prog[pc].op = "char"
             /\ k + 2 > Len(re.prog) \/ re.prog[k + 2].op # "char"
  IN [i \in 1..n |-> CHOOSE ch \in re.prog[i + 1].v : TRUE]
\* ... whether the pattern is nothing else, ...
LitIsWhole(re) ==
  LET n == Len(Literal(re))
  IN /\ n > 0
     /\ n + 3 <= Len(re.prog)
     /\ re.prog[n + 2].op = "save" /\ re.prog[n + 2].a = 1
     /\ re.prog[n + 3].op = "match"
\* ... or the class every match starts with.
FirstBytes(re) == IF re.prog[2].op = "class" THEN re.prog[2].v ELSE Chars

Prefilter(re) ==
  IF "i" \in re.flags THEN [lit |-> <<>>, whole |-> FALSE, first |-> Chars]
  ELSE [lit |-> Literal(re), whole |-> LitIsWhole(re), first |-> FirstBytes(re)]

\* re_detect_anchor: only the first instruction behind SAVE 0 counts.
AnchorMode(re) ==
  CASE Len(re.prog) < 2         -> 0
    [] re.prog[2].op = "bos"    -> 1
    [] re.prog[2].op = "bol"    -> IF "m" \in re.flags THEN 2 ELSE 1
    [] OTHER                    -> 0

\* re_first_set: the pcs an epsilon walk from pc reaches; anchors are stepped
\* over as if they held.
RECURSIVE Reach(_, _, _)
Reach(re, todo, seen) ==
  IF todo = {} THEN seen
  ELSE LET pc == CHOOSE p \in todo : TRUE
           i  == re.prog[pc]
           nx == CASE i.op = "save" \/ i.op \in Anchors -> {pc + 1}
                   [] i.op = "jump"  -> {i.a}
                   [] i.op = "split" -> {i.a, i.b}
                   [] OTHER          -> {}
       IN Reach(re, (todo \cup nx) \ (seen \cup {pc}), seen \cup {pc})

re_first_set(re, pc) ==
  LET r == Reach(re, {pc}, {})
  IN [bytes |-> {ch \in Chars : \E q \in r : re.prog[q].op \in Consuming
                                             /\ Consumes(re, re.prog[q], ch)},
      empty |-> \E q \in r : re.prog[q].op = "match"]

SplitPcs(re) == {pc \in 1..Len(re.prog) : re.prog[pc].op = "split"}

\* re_is_onepass, from the two first sets of every SPLIT.
re_is_onepass(re, tab) ==
  /\ \A pc \in 1..Len(re.prog) : re.prog[pc].op \notin {"look", "wordb", "nwordb"}
  /\ \A pc \in SplitPcs(re) :
       /\ tab[pc].a.bytes \cap tab[pc].b.bytes = {}
       /\ ~(tab[pc].a.bytes # {} /\ tab[pc].a.empty)
       /\ ~(tab[pc].b.bytes # {} /\ tab[pc].b.empty)

re_dfa_check_eligible_AnyAnchor(re, onepass) ==
  onepass /\ "m" \notin re.flags /\ Len(re.prog) <= MaxDfaProg

\* re_dfa_check_eligible
re_dfa_check_eligible(re, onepass) ==
  /\ onepass
  /\ "m" \notin re.flags
  /\ Len(re.prog) \in 1..MaxDfaProg
  /\ \A pc \in 1..Len(re.prog) : re.prog[pc].op \in {"bol", "bos"} => pc = 2

\* __ls_regex_compile: program, prefilter, anchor, one-pass tables, DFA table.
FirstSets(c) == [pc \in SplitPcs(c) |-> [a |-> re_first_set(c, c.prog[pc].a),
                                         b |-> re_first_set(c, c.prog[pc].b)]]
Analysed(c, tab) ==
  [prog |-> c.prog, flags |-> c.flags, groups |-> c.groups,
   pre |-> Prefilter(c), anchor |-> AnchorMode(c), onepass |-> re_is_onepass(c, tab),
   splits |-> tab, dfa |-> re_dfa_check_eligible(c, re_is_onepass(c, tab))]
WithTables(c) == Analysed(c, FirstSets(c))
Handle(pat, flags) == WithTables(Compiled(pat, flags))

----------------------------------------------------------------------------
\* The Pike VM.  st = [next, vis, ms, found]: the threads gathered for the next
\* position in ascending priority, the pcs visited at this position, the
\* captures of the match found, and whether this closure found one.

RECURSIVE add_thread(_, _, _, _, _), Steps(_, _, _, _, _), Walk(_, _, _, _, _, _)

Seeded(re, text, start, seed) ==
  Steps(re, text, start, seed.next,
        [found |-> seed.ms[0] >= 0 /\ seed.ms[1] >= 0, ms |-> seed.ms])

\* vm_exec_range from pc at `start`; the captures found, or <<>>.  The seed's
\* match counts only when both slots of group 0 were set.
vm_exec_range(re, text, start, pc) ==
  Seeded(re, text, start,
         add_thread(re, [next |-> <<>>, vis |-> {}, ms |-> Unset(re), found |-> FALSE],
                    [pc |-> pc, saved |-> Unset(re)], text, start))

Fork_SecondFirst(re, st, t, text, pos) ==
  LET i    == re.prog[t.pc]
      sb   == add_thread(re, st, [t EXCEPT !.pc = i.b], text, pos)
      sa   == add_thread(re, [sb EXCEPT !.found = FALSE], [t EXCEPT !.pc = i.a], text, pos)
  IN [sa EXCEPT !.found = @ \/ sb.found]

\* OP_SPLIT: the preferred branch first, so that it claims shared pcs; the other
\* one only if the first found no match; its block goes in front.
Fork(re, st, t, text, pos) ==
  LET i    == re.prog[t.pc]
      base == Len(st.next)
      sa   == add_thread(re, st, [t EXCEPT !.pc = i.a], text, pos)
      sb   == add_thread(re, sa, [t EXCEPT !.pc = i.b], text, pos)
      lenA == Len(sa.next)
  IN IF sa.found THEN sa
     ELSE [sb EXCEPT !.next = SubSeq(@, 1, base) \o SubSeq(@, lenA + 1, Len(@))
                                \o SubSeq(@, base + 1, lenA)]

\* OP_LOOKAHEAD: a VM of its own over the body.
Looks(re, t, text, pos) ==
  LET i == re.prog[t.pc]
  IN vm_exec_range(re, text, pos, t.pc + 1).found # (i.b = 1)

add_thread(re, st, t, text, pos) ==
  LET i    == re.prog[t.pc]
      here == [st EXCEPT !.vis = @ \cup {t.pc}]
      goto(pc) == add_thread(re, here, [t EXCEPT !.pc = pc], text, pos)
  IN IF t.pc > Len(re.prog) \/ t.pc \in st.vis THEN st
     ELSE CASE i.op = "save"  -> add_thread(re, here, [t EXCEPT !.pc = @ + 1, !.saved[i.a] = pos], text, pos)
            [] i.op = "jump"  -> goto(i.a)
            [] i.op = "split" -> Fork(re, here, t, text, pos)
            [] i.op = "look"  -> IF Looks(re, t, text, pos) THEN goto(i.a) ELSE here
            [] i.op = "match" -> [here EXCEPT !.ms = t.saved, !.found = TRUE]
            [] i.op \in Consuming ->
                 IF Len(st.next) < MaxThreads THEN [here EXCEPT !.next = Append(@, t)] ELSE here
            [] OTHER -> IF Holds(re, i.op, text, pos) THEN goto(t.pc + 1) ELSE here

\* A thread's block in front of the `old` threads gathered before it.
InFront(s, old) == [s EXCEPT !.next = SubSeq(@, old + 1, Len(@)) \o SubSeq(@, 1, old)]
Moved(re, text, pos, rest, best, s) ==
  IF s.found THEN [next |-> s.next, best |-> [found |-> TRUE, ms |-> s.ms]]
  ELSE Walk(re, text, pos, rest, s, best)

\* The threads of one position from the highest priority down, each one's block
\* in front of those before it; the first match cuts the rest.
Walk(re, text, pos, cur, st, best) ==
  LET t == cur[Len(cur)]
      rest == SubSeq(cur, 1, Len(cur) - 1)
  IN IF cur = <<>> THEN [next |-> st.next, best |-> best]
     ELSE IF ~Consumes(re, re.prog[t.pc], At(text, pos)) THEN Walk(re, text, pos, rest, st, best)
     ELSE Moved(re, text, pos, rest, best,
                InFront(add_thread(re, [st EXCEPT !.ms = best.ms, !.found = FALSE],
                                   [t EXCEPT !.pc = @ + 1], text, pos + 1),
                        Len(st.next)))

StepTo(re, text, pos, w) == Steps(re, text, pos, w.next, w.best)
Steps(re, text, pos, cur, best) ==
  IF cur = <<>> \/ pos = Len(text) THEN best
  ELSE StepTo(re, text, pos + 1,
              Walk(re, text, pos, cur, [next |-> <<>>, vis |-> {}, ms |-> best.ms, found |-> FALSE],
                   best))

----------------------------------------------------------------------------
\* The one-pass walk.

NoMatch(re)  == [found |-> FALSE, hang |-> FALSE, ms |-> Unset(re)]
Matched(ms)  == [found |-> TRUE, hang |-> FALSE, ms |-> ms]
Hang(re)     == [found |-> FALSE, hang |-> TRUE, ms |-> Unset(re)]

\* The branch a SPLIT takes at a byte (or at the end of the text), 0 for none.
Chosen(re, pc, bytes) ==
  LET i == re.prog[pc] IN
  CASE bytes \cap re.splits[pc].a.bytes # {} -> i.a
    [] bytes \cap re.splits[pc].b.bytes # {} -> i.b
    [] re.splits[pc].a.empty                 -> i.a
    [] re.splits[pc].b.empty                 -> i.b
    [] OTHER                                 -> 0

NextByte(text, pos) == IF pos < Len(text) THEN {At(text, pos)} ELSE {}

\* vm_exec_onepass.  `seen` holds the pcs since the last byte: the walk depends
\* on nothing else, so a pc met twice means that it never ends.
RECURSIVE OnePass(_, _, _, _, _, _)
OnePass(re, text, pc, pos, ms, seen) ==
  LET i == re.prog[pc]
      goto(q) == OnePass(re, text, q, pos, ms, seen \cup {pc})
      q0 == Chosen(re, pc, NextByte(text, pos))
  IN IF pc \in seen THEN Hang(re)
     ELSE CASE i.op = "save"  -> OnePass(re, text, pc + 1, pos, [ms EXCEPT ![i.a] = pos], seen \cup {pc})
            [] i.op = "jump"  -> goto(i.a)
            [] i.op = "split" -> IF q0 = 0 THEN NoMatch(re) ELSE goto(q0)
            [] i.op = "match" -> Matched(ms)
            [] i.op \in Anchors -> IF Holds(re, i.op, text, pos) THEN goto(pc + 1) ELSE NoMatch(re)
            [] OTHER -> IF pos < Len(text) /\ Consumes(re, i, At(text, pos))
                        THEN OnePass(re, text, pc + 1, pos + 1, ms, {})
                        ELSE NoMatch(re)
vm_exec_onepass(re, text, start) == OnePass(re, text, 1, start, Unset(re), {})

----------------------------------------------------------------------------
\* The lazy DFA.  trans maps the <<state, byte>> pairs met so far to their
\* successors; DEAD, ACCEPT and LOOPS stand beside the pcs.

DEAD == -1
ACCEPT == -3
LOOPS == -4

\* re_dfa_resolve
RECURSIVE Resolve(_, _, _, _)
Resolve(re, pc, bytes, seen) ==
  LET i == re.prog[pc]
      goto(q) == Resolve(re, q, bytes, seen \cup {pc})
      q0 == Chosen(re, pc, bytes)
  IN IF pc \in seen THEN LOOPS
     ELSE CASE i.op = "save"  -> goto(pc + 1)
            [] i.op = "jump"  -> goto(i.a)
            [] i.op = "split" -> IF q0 = 0 THEN DEAD ELSE goto(q0)
            [] i.op \in {"eol", "eos"} -> IF bytes = {} THEN goto(pc + 1) ELSE DEAD
            [] i.op \in {"bol", "bos"} -> goto(pc + 1)
            [] i.op = "match" -> ACCEPT
            [] OTHER          -> pc

\* re_dfa_step behind the cache: the successor of a state at a byte.
Successor(re, pc, ch) ==
  LET r == Resolve(re, pc, {ch}, {})
  IN IF r < 0 THEN r ELSE IF Consumes(re, re.prog[r], ch) THEN r + 1 ELSE DEAD

\* re_dfa_step: fill the cell on first use.
Filled(re, trans, pc, ch) ==
  IF <<pc, ch>> \in DOMAIN trans THEN trans
  ELSE [x \in DOMAIN trans \cup {<<pc, ch>>} |->
          IF x \in DOMAIN trans THEN trans[x] ELSE Successor(re, pc, ch)]

\* vm_exec_dfa: the end of the match that starts at `start`, or DEAD or LOOPS.
RECURSIVE Dfa(_, _, _, _, _)
AtEnd(fin, pos) == CASE fin = ACCEPT -> pos [] fin = LOOPS -> LOOPS [] OTHER -> DEAD
DfaFrom(re, text, pos, tr, r) ==
  CASE r = ACCEPT -> [end |-> pos, trans |-> tr]
    [] r # ACCEPT /\ r < 0 -> [end |-> r, trans |-> tr]
    [] OTHER -> Dfa(re, text, tr, r, pos + 1)
DfaMove(re, text, pc, pos, tr) == DfaFrom(re, text, pos, tr, tr[<<pc, At(text, pos)>>])
Dfa(re, text, trans, pc, pos) ==
  IF pos >= Len(text) THEN [end |-> AtEnd(Resolve(re, pc, {}, {}), pos), trans |-> trans]
  ELSE DfaMove(re, text, pc, pos, Filled(re, trans, pc, At(text, pos)))

----------------------------------------------------------------------------
\* Where a match may start.

\* __ls_str_find
Occurs(text, lit, at) ==
  at + Len(lit) <= Len(text) /\ \A k \in 1..Len(lit) : text[at + k] = lit[k]
FindFrom(text, lit, from) ==
  LET hits == {p \in from..Len(text) : Occurs(text, lit, p)}
  IN IF hits = {} THEN -1 ELSE CHOOSE p \in hits : \A q \in hits : p <= q

\* The candidates at or after `start` of anchor_mode, the literal prefix and
\* the first-byte set, in the order the loops of re_exec_vm_* try them.
Candidates(re, text, start) ==
  LET lineStart(p) == p = 0 \/ p = Len(text) \/ At(text, p - 1) = "n"
  IN {p \in start..Len(text) :
        CASE re.anchor = 1 -> p = 0
          [] re.anchor = 2 -> lineStart(p)
          [] OTHER -> IF re.pre.lit # <<>> THEN Occurs(text, re.pre.lit, p)
                      ELSE p = Len(text) \/ At(text, p) \in re.pre.first}

MinOf(S) == CHOOSE x \in S : \A y \in S : x <= y

\* The first candidate on which the engine says yes.
RECURSIVE Search(_, _, _), SearchDfa(_, _, _, _)
TryAt(re, text, p) ==
  IF re.onepass THEN vm_exec_onepass(re, text, p)
  ELSE vm_exec_range(re, text, p, 1) @@ [hang |-> FALSE]
FirstHit(re, text, cands, r) ==
  IF r.found \/ r.hang THEN r ELSE Search(re, text, cands \ {MinOf(cands)})
FirstHitDfa(re, text, cands, p, d) ==
  CASE d.end = LOOPS -> Hang(re) @@ [trans |-> d.trans]
    [] d.end = DEAD  -> SearchDfa(re, text, cands \ {p}, d.trans)
    [] OTHER -> Matched([Unset(re) EXCEPT ![0] = p, ![1] = d.end]) @@ [trans |-> d.trans]
Search(re, text, cands) ==
  IF cands = {} THEN NoMatch(re)
  ELSE FirstHit(re, text, cands, TryAt(re, text, MinOf(cands)))
SearchDfa(re, text, cands, trans) ==
  IF cands = {} THEN NoMatch(re) @@ [trans |-> trans]
  ELSE FirstHitDfa(re, text, cands, MinOf(cands), Dfa(re, text, trans, 1, MinOf(cands)))

\* __ls_regex_exec: a literal pattern is answered by the string search.
Exec(re, text, start) ==
  LET at == FindFrom(text, re.pre.lit, start)
  IN IF re.pre.whole
     THEN IF at < 0 THEN NoMatch(re)
          ELSE Matched([Unset(re) EXCEPT ![0] = at, ![1] = at + Len(re.pre.lit)])
     ELSE Search(re, text, Candidates(re, text, start))

\* __ls_regex_exec_dfa: match and span only; not eligible means Exec.
ExecDfa(re, text, start, trans) ==
  IF re.pre.whole \/ ~re.dfa THEN Exec(re, text, start) @@ [trans |-> trans]
  ELSE SearchDfa(re, text, Candidates(re, text, start), trans)
=============================================================================
