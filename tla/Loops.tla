------------------------------- MODULE Loops --------------------------------
(***************************************************************************)
(* while loops as functions, without a recursive operator, and the rule    *)
(* for reasoning about them.                                               *)
(***************************************************************************)
EXTENDS WellFoundedInduction, TLAPS

\* A loop of the code over the states S: while (!done(x)) x = step(x).
Iterate(S, done, step, x) ==
    LET run[y \in S] == IF done[y] THEN y ELSE run[step[y]] IN run[x]

\* A loop does what its text says: it stops in x, or goes on from step(x).
LEMMA IterateUnfold ==
    ASSUME NEW S, NEW done, NEW step, \A y \in S : ~done[y] => step[y] \in S, NEW x \in S
    PROVE  Iterate(S, done, step, x) = IF done[x] THEN x ELSE Iterate(S, done, step, step[x])
<1> DEFINE Shut(R) == \A y \in S : /\ done[y] => <<y, y>> \in R
                                   /\ ~done[y] => \A v \in S : <<step[y], v>> \in R => <<y, v>> \in R
           Least == {p \in S \X S : \A R \in SUBSET (S \X S) : Shut(R) => p \in R}
<1>1. Shut(Least)
  OBVIOUS
<1>2. \A y \in S, v \in S : <<y, v>> \in Least => IF done[y] THEN v = y ELSE <<step[y], v>> \in Least
  <2> DEFINE Inv == {p \in Least : IF done[p[1]] THEN p[2] = p[1] ELSE <<step[p[1]], p[2]>> \in Least}
  <2>1. Shut(Inv)
    <3> SUFFICES ASSUME NEW y \in S
                 PROVE  /\ done[y] => <<y, y>> \in Inv
                        /\ ~done[y] => \A v \in S : <<step[y], v>> \in Inv => <<y, v>> \in Inv
      OBVIOUS
    <3> HIDE DEF Least
    <3> QED
      BY <1>1
  <2>2. Inv \in SUBSET (S \X S)
    OBVIOUS
  <2> QED
    BY <2>1, <2>2
<1> HIDE DEF Least
<1> DEFINE Ends(y) == {v \in S : <<y, v>> \in Least}
           g == [y \in S |-> CHOOSE v : v \in Ends(y)]
<1>3. ASSUME NEW y \in S, done[y] PROVE g[y] = y
  <2>1. Ends(y) = {y}
    BY <1>1, <1>2, <1>3
  <2> QED
    BY <2>1
<1>4. ASSUME NEW y \in S, ~done[y] PROVE g[y] = g[step[y]]
  <2>1. Ends(y) = Ends(step[y])
    BY <1>1, <1>2, <1>4
  <2> HIDE DEF Ends
  <2> QED
    BY <2>1, <1>4
<1> HIDE DEF Ends, g
<1>5. DOMAIN g = S /\ g = [y \in S |-> g[y]]
  BY DEF g
<1>6. g = [y \in S |-> IF done[y] THEN y ELSE g[step[y]]]
  BY <1>3, <1>4, <1>5
<1>7. \E h : h = [y \in S |-> IF done[y] THEN y ELSE h[step[y]]]
  BY <1>6
<1> DEFINE run == CHOOSE h : h = [y \in S |-> IF done[y] THEN y ELSE h[step[y]]]
<1>8. run = [y \in S |-> IF done[y] THEN y ELSE run[step[y]]]
  BY <1>7, Zenon
<1>9. \A y : Iterate(S, done, step, y) = run[y]
  BY DEF Iterate
<1> HIDE DEF run
<1>10. run[x] = IF done[x] THEN x ELSE run[step[x]]
  BY <1>8
<1> QED
  BY <1>9, <1>10

\* The rule for while loops: with an invariant I and a variant m the loop ends
\* in a state of I in which it is done.
LEMMA WhileRule ==
    ASSUME NEW S, NEW done, NEW step, \A y \in S : ~done[y] => step[y] \in S,
           NEW I \in SUBSET S, NEW m \in [S -> Nat],
           \A y \in I : ~done[y] => step[y] \in I /\ m[step[y]] < m[y]
    PROVE  \A x \in I : LET e == Iterate(S, done, step, x) IN e \in I /\ done[e]
<1> DEFINE run(x) == Iterate(S, done, step, x)
           T == {x \in I : ~(run(x) \in I /\ done[run(x)])}
           M == {m[x] : x \in T}
<1> SUFFICES ASSUME T # {} PROVE FALSE
  OBVIOUS
<1>1. \A x \in S : run(x) = IF done[x] THEN x ELSE run(step[x])
  BY IterateUnfold
<1> HIDE DEF run
<1>2. M \subseteq Nat /\ M # {}
  OBVIOUS
<1>3. \E u \in M : \A v \in M : ~(<<v, u>> \in OpToRel(<, Nat))
  BY <1>2, WFMin, NatLessThanWellFounded, Zenon
<1>4. PICK u \in M : \A v \in M : ~ (v < u)
  BY <1>2, <1>3 DEF OpToRel
<1>5. PICK x \in T : u = m[x]
  BY <1>4
<1>6. ~done[x]
  BY <1>1, <1>5
<1>7. step[x] \in I /\ m[step[x]] < m[x]
  BY <1>5, <1>6
<1>8. step[x] \notin T
  BY <1>4, <1>5, <1>7
<1>9. run(x) = run(step[x])
  BY <1>1, <1>5, <1>6
<1> QED
  BY <1>5, <1>7, <1>8, <1>9

=============================================================================
