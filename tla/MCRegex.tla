------------------------------ MODULE MCRegex ------------------------------
EXTENDS Regex

\* Atoms, what is built on them, and a second layer.
A0 == {Char("a"), Char("b"), Class({"a"}, 0), Class({"a"}, 1)}
Zero == {Leaf("bol"), Leaf("eol"), Leaf("wordb")}
Quants == {<<0, 1>>, <<0, -1>>, <<1, -1>>, <<0, 2>>, <<2, 3>>, <<2, -1>>}
Reps(S, lazies) == {Rep(x, q[1], q[2], l) : x \in S, q \in Quants, l \in lazies}
A1 == A0 \cup Zero \cup Reps(A0, BOOLEAN) \cup {Cat(x, y) : x, y \in A0 \cup Zero}
        \cup {Alt(x, y) : x, y \in A0 \cup Zero}
Inner == {Cat(Char("a"), Char("b")), Alt(Char("a"), Char("b")), Rep(Char("a"), 0, -1, FALSE),
          Alt(Char("a"), Cat(Char("a"), Char("b"))), Cat(Leaf("bol"), Char("a")),
          Rep(Char("a"), 0, 1, TRUE)}
A2 == Reps({Group(x) : x \in Inner} \cup Inner, BOOLEAN)
A3 == {Cat(x, y) : x \in A2, y \in {Char("a"), Char("b"), Leaf("eol")}}
        \cup {Cat(y, x) : x \in A2, y \in {Char("a"), Leaf("bol")}}
        \cup {Alt(Char("b"), x) : x \in A2} \cup {Alt(x, Char("b")) : x \in A2}
        \cup {Alt3(Char("b"), x, Char("a")) : x \in A2}
Bodies == Inner \cup Zero \cup {Alt(Leaf("eol"), Char("b")), Cat(Rep(Char("a"), 0, 1, FALSE), Leaf("eol"))}
Aheads == {Cat(Ahead(x, n), Char("a")) : x \in Bodies, n \in 0..1}
           \cup {Cat(Char("a"), Ahead(x, n)) : x \in Bodies, n \in 0..1}
Twice == Reps({Group(x) : x \in Inner}, {FALSE})
NoFlags(S, n) == {<<x, {}, n>> : x \in S}
MCPatterns == NoFlags((A1 \cup A2 \cup A3 \cup Aheads) \ Twice, 1) \cup NoFlags(Twice, 2)
                \cup {<<x, f, 1>> : x \in {Cat(Leaf("bol"), Char("a")), Cat(Char("a"), Leaf("eol")),
                                        Cat(Leaf("any"), Char("b")), Rep(Class({"a"}, 0), 1, -1, TRUE),
                                        Cat(Char("a"), Rep(Leaf("word"), 0, -1, FALSE))},
                                  f \in {{"m"}, {"i"}, {"s"}}}
MCMalformed == {<<Tok("("), Lit("a")>>, <<Tok(")")>>, <<Tok("bad")>>, <<Tok("(?="), Lit("a")>>,
                <<Lit("a"), [Tok("{") EXCEPT !.n = 3, !.m = 2]>>}
MCChars == {"a", "b", "A", "n"}
MCTexts == UNION {[1..n -> {"a", "b"}] : n \in 0..3}
             \cup {<<"a", "n", "a">>, <<"n", "b">>, <<"A", "b">>}
MCCache == {<<1>>, <<2>>, <<3>>, <<4>>}
=============================================================================
