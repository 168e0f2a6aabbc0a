------------------------------ MODULE RegexRef ------------------------------
(***************************************************************************)
(* What a pattern means, independently of how runtime/ls_regex.c compiles  *)
(* and runs it: a syntax tree, its spelling as tokens, and the ordered list*)
(* of ways it can match at a position, the preferred one first.            *)
(***************************************************************************)
EXTENDS RegexVM, FiniteSetsExt

Node(k, v, kids, n, m, lazy) ==
  [k |-> k, v |-> v, kids |-> kids, n |-> n, m |-> m, lazy |-> lazy]
Leaf(k) == Node(k, {}, <<>>, 0, 0, FALSE)
Char(ch) == Node("lit", {ch}, <<>>, 0, 0, FALSE)
Class(S, neg) == Node("set", S, <<>>, neg, 0, FALSE)
Cat(x, y) == Node("cat", {}, <<x, y>>, 0, 0, FALSE)
Alt(x, y) == Node("alt", {}, <<x, y>>, 0, 0, FALSE)
Alt3(x, y, z) == Node("alt", {}, <<x, y, z>>, 0, 0, FALSE)
Group(x) == Node("group", {}, <<x>>, 0, 0, FALSE)
Ahead(x, neg) == Node("look", {}, <<x>>, neg, 0, FALSE)
Rep(x, n, m, lazy) == Node("rep", {}, <<x>>, n, m, lazy)

----------------------------------------------------------------------------
RECURSIVE Tokens(_), Groups(_), Nullable(_), EmptyLoop(_), EmptyAhead(_), AsRun(_)

\* A tree inside a quantifier or a concatenation is spelled with (?:...).
Wrapped(x) == IF x.k \in {"cat", "alt", "rep"}
              THEN <<Tok("(?:")>> \o Tokens(x) \o <<Tok(")")>> ELSE Tokens(x)

Quantifier(x) ==
  CASE x.n = 0 /\ x.m = 1  -> Tok("?")
    [] x.n = 0 /\ x.m = -1 -> Tok("*")
    [] x.n = 1 /\ x.m = -1 -> Tok("+")
    [] OTHER               -> [Tok("{") EXCEPT !.n = x.n, !.m = x.m]

Tokens(x) ==
  LET part(i) == IF x.kids[i].k = "alt" THEN Wrapped(x.kids[i]) ELSE Tokens(x.kids[i])
  IN CASE x.k = "lit"   -> <<[Tok("lit") EXCEPT !.v = x.v]>>
       [] x.k = "set"   -> <<[Tok("set") EXCEPT !.v = x.v, !.n = x.n]>>
       [] x.k = "cat"   -> part(1) \o part(2)
       [] x.k = "alt"   -> IF Len(x.kids) = 2
                           THEN Tokens(x.kids[1]) \o <<Tok("|")>> \o Tokens(x.kids[2])
                           ELSE Tokens(x.kids[1]) \o <<Tok("|")>> \o Tokens(x.kids[2])
                                  \o <<Tok("|")>> \o Tokens(x.kids[3])
       [] x.k = "group" -> <<Tok("(")>> \o Tokens(x.kids[1]) \o <<Tok(")")>>
       [] x.k = "look"  -> <<Tok(IF x.n = 1 THEN "(?!" ELSE "(?=")>> \o Tokens(x.kids[1])
                             \o <<Tok(")")>>
       [] x.k = "rep"   -> Wrapped(x.kids[1]) \o <<Quantifier(x)>>
                             \o (IF x.lazy THEN <<Tok("?")>> ELSE <<>>)
       [] OTHER         -> <<Tok(x.k)>>

Kids(x) == {x.kids[i] : i \in DOMAIN x.kids}

Groups(x) == (IF x.k = "group" THEN 1 ELSE 0)
             + MapThenSumSet(LAMBDA i : Groups(x.kids[i]), DOMAIN x.kids)

Nullable(x) ==
  CASE x.k \in {"lit", "set", "any", "word", "nword"} -> FALSE
    [] x.k = "cat"   -> \A y \in Kids(x) : Nullable(y)
    [] x.k = "alt"   -> \E y \in Kids(x) : Nullable(y)
    [] x.k = "group" -> Nullable(x.kids[1])
    [] x.k = "rep"   -> x.n = 0 \/ Nullable(x.kids[1])
    [] OTHER         -> TRUE

\* A loop whose body can match nothing: which iterations such a loop takes is a
\* matter of convention, and the engine cuts the ones that do not advance.
EmptyLoop(x) == \/ x.k = "rep" /\ x.m = -1 /\ Nullable(x.kids[1])
                \/ \E y \in Kids(x) : EmptyLoop(y)

\* A lookahead whose body can match nothing.  The engine does not see such a
\* match: vm_exec_range counts one found before the first character only when
\* slots 0 and 1 are set, and the body of a lookahead sets neither.
EmptyAhead(x) == \/ x.k = "look" /\ Nullable(x.kids[1])
                 \/ \E y \in Kids(x) : EmptyAhead(y)

\* The pattern with every lookahead read as the engine runs it (m = 1): its
\* body is there only when the way it prefers consumes something.
AsRun(x) == [x EXCEPT !.m = IF x.k = "look" THEN 1 ELSE @,
                      !.kids = [i \in DOMAIN x.kids |-> AsRun(x.kids[i])]]

\* What the engine is held to: the pattern's own meaning, except under a
\* lookahead whose body can match nothing.
Meant(x) == IF EmptyAhead(x) THEN AsRun(x) ELSE x

----------------------------------------------------------------------------
\* The ways x matches from a position: [pos, caps] in order of preference.
\* `base` is the number of groups opened to the left of x.

RECURSIVE Ways(_, _, _, _, _), WaysAll(_, _, _, _, _, _), Loop(_, _, _, _, _, _)

SameChar(fl, S, ch) ==
  IF "i" \in fl THEN Lower(ch) \in {Lower(x) : x \in S} ELSE ch \in S

Eats(fl, x, ch) ==
  CASE x.k = "lit"   -> SameChar(fl, x.v, ch)
    [] x.k = "set"   -> SameChar(fl, x.v, ch) # (x.n = 1)
    [] x.k = "any"   -> ch # "n" \/ "s" \in fl
    [] x.k = "word"  -> ch \in WordChars
    [] x.k = "nword" -> ch \notin WordChars

\* Every way of a list, continued by `next`.
WaysAll(fl, text, x, base, ways, tag) ==
  IF ways = <<>> THEN <<>>
  ELSE (IF tag = "loop" THEN Loop(fl, text, x, base, Head(ways), x.n)
        ELSE Ways(fl, text, x, base, Head(ways)))
       \o WaysAll(fl, text, x, base, Tail(ways), tag)

\* Optional iterations from here, at most `left`, then stop; the other way
\* round when lazy.  An unbounded loop takes only iterations that advance.
Loop(fl, text, x, base, p, left) ==
  LET once == SelectSeq(Ways(fl, text, x.kids[1], base, p), LAMBDA q : q.pos > p.pos \/ x.m # -1)
      more == WaysAll(fl, text, [x EXCEPT !.n = left - 1], base, once, "loop")
      stop == <<p>>
  IN IF left = 0 THEN stop ELSE IF x.lazy THEN stop \o more ELSE more \o stop

RECURSIVE Times(_, _, _, _, _, _)
Times(fl, text, x, base, ways, k) ==
  IF k = 0 THEN ways
  ELSE Times(fl, text, x, base, WaysAll(fl, text, x.kids[1], base, ways, "one"), k - 1)

Ways(fl, text, x, base, p) ==
  LET kid(i) == x.kids[i]
      g == base + 1
  IN CASE x.k \in {"lit", "set", "any", "word", "nword"} ->
            IF p.pos < Len(text) /\ Eats(fl, x, At(text, p.pos))
            THEN <<[p EXCEPT !.pos = @ + 1]>> ELSE <<>>
       [] x.k = "cat" ->
            WaysAll(fl, text, kid(2), base + Groups(kid(1)), Ways(fl, text, kid(1), base, p), "one")
       [] x.k = "alt" ->
            Ways(fl, text, kid(1), base, p)
              \o Ways(fl, text, kid(2), base + Groups(kid(1)), p)
              \o (IF Len(x.kids) = 2 THEN <<>>
                  ELSE Ways(fl, text, kid(3), base + Groups(kid(1)) + Groups(kid(2)), p))
       [] x.k = "group" ->
            LET open == [p EXCEPT !.caps[2 * g] = p.pos]
                inner == Ways(fl, text, kid(1), g, open)
            IN [i \in DOMAIN inner |-> [inner[i] EXCEPT !.caps[2 * g + 1] = inner[i].pos]]
       [] x.k = "look" ->
            LET ws == Ways(fl, text, kid(1), base, p)
                seen == ws # <<>> /\ (x.m = 1 => ws[1].pos > p.pos)
            IN IF seen # (x.n = 1) THEN <<p>> ELSE <<>>
       [] x.k = "rep" ->
            LET reps == Times(fl, text, x, base, <<p>>, x.n)
                left == IF x.m = -1 THEN Len(text) + 1 ELSE x.m - x.n
            IN WaysAll(fl, text, [x EXCEPT !.n = left], base, reps, "loop")
       [] OTHER ->
            IF Holds([flags |-> fl], x.k, text, p.pos) THEN <<p>> ELSE <<>>

\* The ways of the whole pattern from `start`, captures included.
WaysAt(fl, text, x, start) ==
  LET none == [s \in 0..(2 * Groups(x) + 1) |-> -1]
      ws == Ways(fl, text, x, 0, [pos |-> start, caps |-> [none EXCEPT ![0] = start]])
  IN [i \in DOMAIN ws |-> [ws[i] EXCEPT !.caps[1] = ws[i].pos]]

\* Leftmost-first: the first start with a match, and its preferred way.
Preferred(fl, text, x, from) ==
  LET starts == {p \in from..Len(text) : WaysAt(fl, text, x, p) # <<>>}
  IN IF starts = {} THEN [found |-> FALSE]
     ELSE [found |-> TRUE, ms |-> WaysAt(fl, text, x, MinOf(starts))[1].caps]
=============================================================================
