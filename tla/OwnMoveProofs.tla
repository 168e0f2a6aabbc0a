--------------------------- MODULE OwnMoveProofs ---------------------------
(***************************************************************************)
(* Machine-checked proofs about the ownership pipeline, second part: on    *)
(* every path of every program without the unsound forms, a local that a   *)
(* statement reads owns its value.  What the move checker calls live was   *)
(* moved on no path to here; what clone elision took is read on no path    *)
(* from here; so no drop hits a dead block.                                *)
(***************************************************************************)
EXTENDS OwnScopeProofs

-----------------------------------------------------------------------------
(* What the move checker establishes. *)

\* s moves v away, as the checker sees it.
Marks(s, v) == (s.k \in Binary /\ s.w = v) \/ (s.k \in MoveForm /\ s.v = v)

\* j may have run before control is at p: it stands before p, and the two are
\* not in different branches of one if.
Precedes(P, M, j, p) ==
    /\ j < p
    /\ \A e \in Positions(P) : j < e /\ e < p => ~(Splits(P, M, e, j) /\ Splits(P, M, e, p))

\* Nothing that may have run before p moves v.
Clean(P, M, v, p) == \A j \in Positions(P) : Marks(P[j], v) => ~Precedes(P, M, j, p)

LiveClean(P, M, S, p) == \A v \in Vars : S[v] = "live" => Clean(P, M, v, p)

\* What is in scope at p is defined in S.
InView(P, M, S, p) ==
    \A v \in Vars : \A d \in Positions(P) : DeclOf(P, d, v) /\ Visible(P, M, d, p) => S[v] # "undef"

\* e is the else of the if at i.
ElseAt(P, M, i, e) == e \in Positions(P) /\ P[e].k = "else" /\ Around(P, M, e) = Around(P, M, i) \cup {i}

\* The loop at i does not move v.
Still(P, M, i, v) == i \in DOMAIN M /\ \A j \in Positions(P) : i < j /\ j <= M[i] => ~Marks(P[j], v)

\* The states of a frame are right where they were taken.
FrameOk(P, M, F) ==
    /\ LiveClean(P, M, F.base, F.at) /\ InView(P, M, F.base, F.at)
    /\ F.k = "else" => \A e \in Positions(P) : ElseAt(P, M, F.at, e) =>
                          LiveClean(P, M, F.other, e) /\ InView(P, M, F.other, e)

Tracked ==
    /\ LiveClean(prog, mate, st, pos) /\ InView(prog, mate, st, pos)
    /\ \A x \in Depths : FrameOk(prog, mate, frames[x])

\* The loop of frame F does not move what is live in S and was declared outside.
StillFor(P, M, F, S) == \A v \in Vars : F.base[v] # "undef" /\ S[v] = "live" => Still(P, M, F.at, v)

\* In the second walk of a loop, what is live was not moved by the first.
Rewalked ==
    \A x \in Depths : frames[x].k \in Loops /\ frames[x].pass = 2 =>
        /\ frames[x].at \in DOMAIN mate
        /\ StillFor(prog, mate, frames[x], st)
        /\ \A y \in Depths : x < y => StillFor(prog, mate, frames[x], frames[y].base)

\* Errors at p were reported: p was walked last outside first walks of loops.
Settled(p) == /\ p \in Positions(prog) /\ p < pos
              /\ \A x \in Depths : frames[x].k \in Loops /\ frames[x].pass = 1 => p <= frames[x].at

\* What no error at p means.
Verdict(P, M, A, p) ==
    /\ p \in DOMAIN A /\ A[p] \in States
    /\ \A v \in Needs(P[p]) : A[p][v] = "live"
    /\ LiveClean(P, M, A[p], p) /\ InSight(P, M, A[p], p)
    /\ \A v \in Vars : Marks(P[p], v) =>
          \A i \in Around(P, M, p) : P[i].k \in Loops =>
              \A d \in Positions(P) : DeclOf(P, d, v) => ~Visible(P, M, d, i)

\* The statement at p is none of the unsound forms.
SaneAt(P, M, p) ==
    /\ P[p].k \notin {"whilemove", "retmove", "stmtmove"} \cup InBinary
    /\ P[p].k \in Binary => P[p].v # P[p].w
    /\ P[p].k \in Returns /\ (\E l \in Around(P, M, p) : P[l].k \in Loops) =>
          \E t \in Around(P, M, p) :
             /\ P[t].k = "if" /\ Around(P, M, p) = Around(P, M, t) \cup {t}
             /\ ~InElse(P, M, t, p)
             /\ \A j \in t .. p : P[j].k \notin Exits

Sane(P, M) == \A p \in Positions(P) : SaneAt(P, M, p)

-----------------------------------------------------------------------------
(* What may have run before. *)

\* A statement that is neither a branch nor an end comes before the next one,
\* and so does what came before it.
LEMMA PrecStep ==
    ASSUME NEW P, NEW M, Closing(P, M), NEW p \in Positions(P), P[p].k \notin {"end", "else"}, NEW j \in Nat
    PROVE  Precedes(P, M, j, p + 1) <=> Precedes(P, M, j, p) \/ j = p
<1>1. p \in Nat /\ Positions(P) \subseteq Nat
  BY Numbers
<1>2. \A e \in Positions(P) : e < p => (Splits(P, M, e, p + 1) <=> Splits(P, M, e, p))
  <2>1. CASE P[p].k \in Opens
    <3>1. Around(P, M, p + 1) = Around(P, M, p) \cup {p}
      BY <2>1, AroundOpen
    <3>2. \A e \in Positions(P) : e < p => p \notin Around(P, M, e)
      BY <1>1 DEF Around
    <3> QED
      BY <3>1, <3>2 DEF Splits
  <2>2. CASE P[p].k \notin Opens
    <3>1. Around(P, M, p + 1) = Around(P, M, p)
      BY <2>2, AroundSame
    <3> QED
      BY <3>1 DEF Splits
  <2> QED
    BY <2>1, <2>2
<1>3. \A e \in Positions(P) : P[e].k = "else" /\ j < e /\ e < p + 1 => e < p
  BY <1>1
<1>4. ASSUME Precedes(P, M, j, p + 1), j # p PROVE Precedes(P, M, j, p)
  BY <1>1, <1>2, <1>4 DEF Precedes
<1>5. ASSUME Precedes(P, M, j, p) PROVE Precedes(P, M, j, p + 1)
  <2>1. j < p + 1
    BY <1>1, <1>5 DEF Precedes
  <2>2. ASSUME NEW e \in Positions(P), j < e, e < p + 1, Splits(P, M, e, j), Splits(P, M, e, p + 1) PROVE FALSE
    <3>1. P[e].k = "else"
      BY <2>2 DEF Splits
    <3>2. e < p
      BY <3>1, <1>3, <2>2
    <3> QED
      BY <3>2, <1>2, <2>2, <1>5 DEF Precedes
  <2> QED
    BY <2>1, <2>2 DEF Precedes
<1>6. ASSUME j = p PROVE Precedes(P, M, j, p + 1)
  BY <1>1, <1>6 DEF Precedes
<1> QED
  BY <1>4, <1>5, <1>6

\* Leaving the block at i from anywhere inside, or skipping it, loses nothing.
LEMMA PrecOut ==
    ASSUME NEW P, NEW M, Closing(P, M), NEW i \in DOMAIN M, NEW q \in Nat, i \in Around(P, M, q) \/ q = i,
           NEW j \in Nat, Precedes(P, M, j, q)
    PROVE  Precedes(P, M, j, M[i] + 1)
<1>1. /\ i \in Nat /\ M[i] \in Nat /\ i < M[i] /\ i \in Positions(P) /\ P[i].k \in Opens
      /\ Positions(P) \subseteq Nat
  BY Numbers DEF Closing
<1>2. i <= q /\ q <= M[i]
  BY <1>1 DEF Around
<1>3. Around(P, M, M[i] + 1) = Around(P, M, i)
  BY AroundEnd
<1>4. Around(P, M, i) \subseteq Around(P, M, q)
  BY AroundNested
<1>5. ASSUME NEW e \in Positions(P), j < e, e < M[i] + 1, Splits(P, M, e, j), Splits(P, M, e, M[i] + 1) PROVE FALSE
  <2>1. CASE e < q
    <3>1. Splits(P, M, e, q)
      BY <1>5, <1>3, <1>4 DEF Splits
    <3> QED
      BY <3>1, <2>1, <1>5 DEF Precedes
  <2>2. CASE q <= e
    <3>1. e # i
      BY <1>1, <1>5 DEF Splits, Opens, Loops
    <3>2. i < e /\ e <= M[i]
      BY <3>1, <2>2, <1>1, <1>2, <1>5
    <3>3. i \in Around(P, M, e)
      BY <3>2, <1>1 DEF Around
    <3>4. i \notin Around(P, M, i)
      BY <1>1 DEF Around
    <3> QED
      BY <3>3, <3>4, <1>5, <1>3 DEF Splits
  <2> QED
    BY <2>1, <2>2, <1>1
<1>6. j < M[i] + 1
  BY <1>1, <1>2 DEF Precedes
<1> QED
  BY <1>5, <1>6 DEF Precedes

\* What came before the block of i came before i.
LEMMA PrecIn ==
    ASSUME NEW P, NEW M, Closing(P, M), NEW q \in Nat, NEW i \in Around(P, M, q),
           NEW j \in Nat, j < i, Precedes(P, M, j, q)
    PROVE  Precedes(P, M, j, i)
<1>1. i \in Nat /\ i < q /\ Positions(P) \subseteq Nat
  BY Numbers DEF Around
<1>2. Around(P, M, i) \subseteq Around(P, M, q)
  BY AroundNested
<1>3. \A e \in Positions(P) : Splits(P, M, e, i) => Splits(P, M, e, q)
  BY <1>2 DEF Splits
<1> QED
  BY <1>1, <1>3 DEF Precedes

\* The block of an else is the block of one if, which is no other block.
LEMMA ElseOwner ==
    ASSUME NEW P, NEW M, Closing(P, M), Elses(P, M), NEW i \in Nat, NEW e \in Positions(P), P[e].k = "else",
           Around(P, M, e) \subseteq Around(P, M, i) \cup {i}, i \in Around(P, M, e)
    PROVE  P[i].k = "if" /\ ElseAt(P, M, i, e)
<1>1. PICK t \in Positions(P) : P[t].k = "if" /\ t < e /\ Around(P, M, e) = Around(P, M, t) \cup {t}
  BY DEF Elses
<1>2. t \in Nat /\ t \in Around(P, M, i) \cup {i}
  BY <1>1, Numbers
<1>3. t <= i
  BY <1>2 DEF Around
<1>4. i \in Around(P, M, t) \cup {t}
  BY <1>1
<1>5. i <= t
  BY <1>4, <1>2 DEF Around
<1>6. i = t
  BY <1>3, <1>5, <1>2
<1> QED
  BY <1>6, <1>1 DEF ElseAt

\* Behind the end of a block: nothing new came before, unless it came before the
\* else of that block.
LEMMA PrecEnd ==
    ASSUME NEW P, NEW M, Closing(P, M), Elses(P, M), NEW i \in DOMAIN M, NEW j \in Nat, j < M[i],
           Precedes(P, M, j, M[i] + 1)
    PROVE  Precedes(P, M, j, M[i]) \/ \E e : ElseAt(P, M, i, e) /\ Precedes(P, M, j, e)
<1>1. /\ i \in Nat /\ M[i] \in Nat /\ i < M[i] /\ i \in Positions(P) /\ Positions(P) \subseteq Nat
  BY Numbers DEF Closing
<1>2. Around(P, M, M[i] + 1) = Around(P, M, i) /\ Around(P, M, M[i]) = Around(P, M, i) \cup {i}
  BY AroundEnd
<1>3. ASSUME NEW f \in Positions(P), j < f, f < M[i] + 1, Splits(P, M, f, j),
             Around(P, M, f) \subseteq Around(P, M, i) \cup {i}
      PROVE  ElseAt(P, M, i, f)
  <2>1. P[f].k = "else"
    BY <1>3 DEF Splits
  <2>2. i \in Around(P, M, f)
    <3> SUFFICES ASSUME i \notin Around(P, M, f) PROVE FALSE
      OBVIOUS
    <3>1. Splits(P, M, f, M[i] + 1)
      BY <1>3, <1>2, <2>1 DEF Splits
    <3> QED
      BY <3>1, <1>3 DEF Precedes
  <2> QED
    BY <2>1, <2>2, <1>3, <1>1, ElseOwner
<1>4. ASSUME ~Precedes(P, M, j, M[i]) PROVE \E e : ElseAt(P, M, i, e) /\ Precedes(P, M, j, e)
  <2>1. PICK e \in Positions(P) : j < e /\ e < M[i] /\ Splits(P, M, e, j) /\ Splits(P, M, e, M[i])
    BY <1>4 DEF Precedes
  <2>2. ElseAt(P, M, i, e)
    BY <2>1, <1>2, <1>3, <1>1 DEF Splits
  <2>3. ASSUME NEW f \in Positions(P), j < f, f < e, Splits(P, M, f, j), Splits(P, M, f, e) PROVE FALSE
    <3>1. ElseAt(P, M, i, f)
      BY <2>3, <2>2, <2>1, <1>3, <1>1 DEF Splits, ElseAt
    <3>2. f = e
      BY <3>1, <2>2 DEF ElseAt, Elses
    <3> QED
      BY <3>2, <2>3, <1>1
  <2>4. Precedes(P, M, j, e)
    BY <2>1, <2>3 DEF Precedes
  <2> QED
    BY <2>2, <2>4
<1> QED
  BY <1>4

\* In the else branch: what came before it came before the if.
LEMMA PrecElse ==
    ASSUME NEW P, NEW M, Closing(P, M), NEW i \in Positions(P), P[i].k \in Opens,
           NEW e, ElseAt(P, M, i, e), i < e, NEW j \in Nat, Precedes(P, M, j, e + 1)
    PROVE  j \in {i, e} \/ Precedes(P, M, j, i)
<1>1. i \in Nat /\ e \in Nat /\ e \in Positions(P) /\ Positions(P) \subseteq Nat
  BY Numbers DEF ElseAt
<1>2. P[e].k = "else" /\ Around(P, M, e + 1) = Around(P, M, e) /\ Around(P, M, e) = Around(P, M, i) \cup {i}
  BY <1>1, AroundSame DEF ElseAt, Opens, Loops
<1>3. CASE i < j /\ j < e
  <2>1. i \in Around(P, M, j)
    BY <1>1, <1>2, <1>3, AroundBetween
  <2>2. Around(P, M, i) \subseteq Around(P, M, j)
    BY <2>1, AroundNested
  <2>3. Splits(P, M, e, j) /\ Splits(P, M, e, e + 1)
    BY <2>1, <2>2, <1>2 DEF Splits
  <2> QED
    BY <2>3, <1>1, <1>3 DEF Precedes
<1>4. CASE j < i
  <2>1. Precedes(P, M, j, e)
    <3>1. \A f \in Positions(P) : Splits(P, M, f, e) => Splits(P, M, f, e + 1)
      BY <1>2 DEF Splits
    <3> QED
      BY <3>1, <1>1, <1>4 DEF Precedes
  <2>2. i \in Around(P, M, e)
    BY <1>2
  <2> QED
    BY <2>1, <2>2, <1>1, <1>4, PrecIn
<1>5. j < e + 1
  BY DEF Precedes
<1> QED
  BY <1>1, <1>3, <1>4, <1>5

\* Entering the else branch loses nothing of what came before the if.
LEMMA PrecOther ==
    ASSUME NEW P, NEW M, Closing(P, M), NEW i \in Positions(P), P[i].k \in Opens,
           NEW e, ElseAt(P, M, i, e), i < e, NEW j \in Nat, Precedes(P, M, j, i)
    PROVE  Precedes(P, M, j, e + 1)
<1>1. i \in Nat /\ e \in Nat /\ e \in Positions(P) /\ Positions(P) \subseteq Nat /\ j < i
  BY Numbers DEF ElseAt, Precedes
<1>2. P[e].k = "else" /\ Around(P, M, e + 1) = Around(P, M, e) /\ Around(P, M, e) = Around(P, M, i) \cup {i}
  BY <1>1, AroundSame DEF ElseAt, Opens, Loops
<1>3. ASSUME NEW f \in Positions(P), j < f, f < e + 1, Splits(P, M, f, j), Splits(P, M, f, e + 1) PROVE FALSE
  <2>0. P[f].k = "else" /\ f # i
    BY <1>3 DEF Splits, Opens, Loops
  <2>1. CASE f < i
    <3>1. i \notin Around(P, M, f)
      BY <2>1, <1>1 DEF Around
    <3>2. Splits(P, M, f, i)
      BY <3>1, <1>2, <1>3 DEF Splits
    <3> QED
      BY <3>2, <2>1, <1>3 DEF Precedes
  <2>2. CASE i < f
    <3>1. i \in Around(P, M, f)
      BY <2>2, <1>1, <1>2, <1>3, AroundBetween
    <3>2. i \notin Around(P, M, j)
      BY <1>1 DEF Around
    <3> QED
      BY <3>1, <3>2, <1>3 DEF Splits
  <2> QED
    BY <2>0, <2>1, <2>2, <1>1
<1> QED
  BY <1>1, <1>3 DEF Precedes

\* Appending a statement changes nothing of what came before.
LEMMA PrecStable ==
    ASSUME NEW P, NEW M, NEW Q, NEW N, Extends(P, M, Q, N), NEW p \in Nat, p <= Len(P) + 1, NEW j \in Nat
    PROVE  Precedes(Q, N, j, p) <=> Precedes(P, M, j, p)
<1>1. /\ Len(P) \in Nat /\ Len(Q) \in Nat /\ Len(P) <= Len(Q) /\ \A i \in Positions(P) : Q[i] = P[i]
  BY DEF Extends
<1>2. Around(Q, N, p) = Around(P, M, p)
  BY AroundStable
<1>3. ASSUME j < p PROVE \A e \in Nat : j < e /\ e < p => (Splits(Q, N, e, j) /\ Splits(Q, N, e, p) <=> Splits(P, M, e, j) /\ Splits(P, M, e, p))
  <2> SUFFICES ASSUME NEW e \in Nat, j < e, e < p
               PROVE  Splits(Q, N, e, j) /\ Splits(Q, N, e, p) <=> Splits(P, M, e, j) /\ Splits(P, M, e, p)
    OBVIOUS
  <2>1. e <= Len(P) + 1 /\ j <= Len(P) + 1 /\ e \in Positions(P)
    BY <1>1, <1>3 DEF Positions
  <2>2. Around(Q, N, e) = Around(P, M, e) /\ Around(Q, N, j) = Around(P, M, j)
    BY <2>1, AroundStable
  <2> QED
    BY <2>1, <2>2, <1>1, <1>2 DEF Splits
<1>4. \A e : j < e /\ e < p => (e \in Positions(Q) <=> e \in Positions(P))
  BY <1>1 DEF Positions
<1>5. Positions(Q) \subseteq Nat /\ Positions(P) \subseteq Nat
  BY <1>1 DEF Positions
<1> QED
  BY <1>3, <1>4, <1>5 DEF Precedes

-----------------------------------------------------------------------------
(* Clean names. *)

\* Statements that bracket blocks move nothing.
LEMMA BracketsMoveNothing ==
    ASSUME NEW s, s.k \in {"if", "while", "whileuse", "else", "end"}, NEW v
    PROVE  ~Marks(s, v)
  BY DEF Marks, Binary, MoveForm

\* A statement that does not move v adds no move before the next one.
LEMMA CleanStep ==
    ASSUME NEW P, NEW M, Closing(P, M), NEW p \in Positions(P), P[p].k \notin {"end", "else"}, NEW v,
           Clean(P, M, v, p), ~Marks(P[p], v)
    PROVE  Clean(P, M, v, p + 1)
<1>1. Positions(P) \subseteq Nat
  BY Numbers
<1> QED
  BY <1>1, PrecStep DEF Clean

\* The end of a loop body, and of an if without else.
LEMMA CleanEnd ==
    ASSUME NEW P, NEW M, Closing(P, M), Elses(P, M), NEW i \in DOMAIN M, NEW v, Clean(P, M, v, M[i]),
           \A e : ElseAt(P, M, i, e) => Clean(P, M, v, e)
    PROVE  Clean(P, M, v, M[i] + 1)
<1>1. Positions(P) \subseteq Nat /\ M[i] \in Nat /\ M[i] \in Positions(P) /\ P[M[i]].k = "end"
  BY Numbers DEF Closing
<1>2. SUFFICES ASSUME NEW j \in Positions(P), Marks(P[j], v), Precedes(P, M, j, M[i] + 1) PROVE FALSE
  BY DEF Clean
<1>3. j # M[i]
  BY <1>1, <1>2, BracketsMoveNothing
<1>4. j \in Nat /\ j < M[i]
  BY <1>1, <1>2, <1>3 DEF Precedes
<1>5. Precedes(P, M, j, M[i]) \/ \E e : ElseAt(P, M, i, e) /\ Precedes(P, M, j, e)
  BY <1>2, <1>4, PrecEnd
<1> QED
  BY <1>5, <1>2 DEF Clean

\* The else branch starts with what was moved before the if: what its then
\* branch moves does not run before it.
LEMMA CleanElse ==
    ASSUME NEW P, NEW M, Closing(P, M), NEW i \in Positions(P), P[i].k = "if",
           NEW e, ElseAt(P, M, i, e), i < e, NEW v, Clean(P, M, v, i)
    PROVE  Clean(P, M, v, e + 1)
<1>1. Positions(P) \subseteq Nat /\ P[e].k = "else" /\ P[i].k \in Opens
  BY Numbers DEF ElseAt, Opens
<1>2. SUFFICES ASSUME NEW j \in Positions(P), Marks(P[j], v), Precedes(P, M, j, e + 1) PROVE FALSE
  BY DEF Clean
<1>3. j \notin {i, e}
  BY <1>1, <1>2, BracketsMoveNothing
<1>4. Precedes(P, M, j, i)
  BY <1>1, <1>2, <1>3, PrecElse
<1> QED
  BY <1>4, <1>2 DEF Clean

\* A longer program has no more moves before a position it already had.
LEMMA CleanStable ==
    ASSUME NEW P, NEW M, NEW Q, NEW N, Extends(P, M, Q, N), NEW p \in Nat, p <= Len(P) + 1, NEW v, Clean(P, M, v, p)
    PROVE  Clean(Q, N, v, p)
<1>1. Len(P) \in Nat /\ Len(Q) \in Nat /\ \A i \in Positions(P) : Q[i] = P[i]
  BY DEF Extends
<1>2. SUFFICES ASSUME NEW j \in Positions(Q), Marks(Q[j], v), Precedes(Q, N, j, p) PROVE FALSE
  BY DEF Clean
<1>3. j \in Nat /\ j < p /\ j \in Positions(P)
  BY <1>1, <1>2 DEF Precedes, Positions
<1>4. Precedes(P, M, j, p)
  BY <1>2, <1>3, PrecStable
<1> QED
  BY <1>1, <1>2, <1>3, <1>4 DEF Clean

\* A name that is clean at the end of a loop was not moved in its body.
LEMMA CleanLoop ==
    ASSUME NEW P, NEW M, Closing(P, M), Elses(P, M), NEW i \in DOMAIN M, P[i].k \in Loops, NEW v,
           Clean(P, M, v, M[i])
    PROVE  Still(P, M, i, v)
<1>1. /\ Positions(P) \subseteq Nat /\ M[i] \in Nat /\ M[i] \in Positions(P) /\ P[M[i]].k = "end" /\ i \in Nat
      /\ i \in Positions(P)
  BY Numbers DEF Closing
<1>2. SUFFICES ASSUME NEW j \in Positions(P), i < j, j <= M[i], Marks(P[j], v) PROVE FALSE
  BY DEF Still
<1>3. j # M[i]
  BY <1>1, <1>2, BracketsMoveNothing
<1>4. Around(P, M, M[i]) = Around(P, M, i) \cup {i}
  BY AroundEnd
<1>5. ASSUME NEW e \in Positions(P), j < e, e < M[i], Splits(P, M, e, M[i]) PROVE FALSE
  <2>1. i \in Around(P, M, e)
    <3>1. i < e /\ e <= M[i] /\ e \in Nat
      BY <1>5, <1>1, <1>2
    <3>2. P[i].k \in Opens
      BY DEF Opens
    <3> QED
      BY <3>1, <3>2, <1>1 DEF Around
  <2>2. P[i].k = "if"
    BY <2>1, <1>4, <1>5, <1>1, ElseOwner DEF Splits
  <2> QED
    BY <2>2 DEF Loops
<1>6. Precedes(P, M, j, M[i])
  BY <1>1, <1>2, <1>3, <1>5 DEF Precedes
<1> QED
  BY <1>6, <1>2 DEF Clean

-----------------------------------------------------------------------------
(* What is in scope is defined. *)

\* A longer program shows no further declaration at a position it already had.
LEMMA ViewStable ==
    ASSUME NEW P, NEW M, NEW Q, NEW N, Extends(P, M, Q, N), NEW S, NEW p \in Nat, p <= Len(P) + 1,
           InView(P, M, S, p)
    PROVE  InView(Q, N, S, p)
<1>1. Len(P) \in Nat /\ Len(Q) \in Nat /\ \A i \in Positions(P) : Q[i] = P[i]
  BY DEF Extends
<1>2. SUFFICES ASSUME NEW v \in Vars, NEW d \in Positions(Q), DeclOf(Q, d, v), Visible(Q, N, d, p)
               PROVE  S[v] # "undef"
  BY DEF InView
<1>3. d \in Nat /\ d < p /\ d \in Positions(P)
  BY <1>1, <1>2 DEF Visible, Positions
<1>4. Visible(P, M, d, p) /\ DeclOf(P, d, v)
  BY <1>1, <1>2, <1>3, VisStable DEF DeclOf
<1> QED
  BY <1>3, <1>4 DEF InView

\* Behind a plain statement, the names in view are the old ones and the one it
\* declares.
LEMMA ViewStep ==
    ASSUME NEW P, NEW M, Closing(P, M), NEW p \in Positions(P),
           P[p].k \notin Opens \cup {"end", "else"}, NEW S, InView(P, M, S, p), NEW T,
           \A v \in Vars : S[v] # "undef" \/ (P[p].k \in Decls /\ P[p].v = v) => T[v] # "undef"
    PROVE  InView(P, M, T, p + 1)
<1>1. Positions(P) \subseteq Nat
  BY Numbers
<1>2. SUFFICES ASSUME NEW v \in Vars, NEW d \in Positions(P), DeclOf(P, d, v), Visible(P, M, d, p + 1)
               PROVE  T[v] # "undef"
  BY DEF InView
<1>3. Visible(P, M, d, p) \/ d = p
  BY <1>1, <1>2, VisStep
<1> QED
  BY <1>2, <1>3 DEF InView, DeclOf

\* A branch or loop opens without declaring a name.
LEMMA ViewOpen ==
    ASSUME NEW P, NEW M, Closing(P, M), NEW p \in Positions(P), P[p].k \in Opens, NEW S, InView(P, M, S, p)
    PROVE  InView(P, M, S, p + 1)
<1>1. Positions(P) \subseteq Nat
  BY Numbers
<1>2. \A v : ~DeclOf(P, p, v)
  BY DEF DeclOf, Opens, Loops, Decls
<1> QED
  BY <1>1, <1>2, VisOpen DEF InView

\* Behind a block, the names in view are those at its head.
LEMMA ViewSkip ==
    ASSUME NEW P, NEW M, Closing(P, M), NEW i \in DOMAIN M, NEW S, InView(P, M, S, i), NEW T,
           \A v \in Vars : S[v] # "undef" => T[v] # "undef"
    PROVE  InView(P, M, T, M[i] + 1)
<1>1. \A d, v : DeclOf(P, d, v) => P[d].k \notin Opens
  BY DEF DeclOf, Opens, Loops, Decls
<1> QED
  BY <1>1, VisSkip DEF InView

\* At the start of an else branch, the names in view are those at the if.
LEMMA ViewElse ==
    ASSUME NEW P, NEW M, Closing(P, M), NEW i \in Positions(P), P[i].k \in Opens,
           NEW e, ElseAt(P, M, i, e), i < e, NEW S, InView(P, M, S, i)
    PROVE  InView(P, M, S, e + 1)
<1>1. \A d, v : DeclOf(P, d, v) => P[d].k \notin Opens \cup {"else"}
  BY DEF DeclOf, Opens, Loops, Decls
<1>2. e \in Positions(P) /\ P[e].k = "else" /\ Around(P, M, e) = Around(P, M, i) \cup {i}
  BY DEF ElseAt
<1> QED
  BY <1>1, <1>2, VisElse DEF InView

\* What is defined outside a block is defined inside.
LEMMA ViewInside ==
    ASSUME NEW P, NEW M, Closing(P, M), NEW q \in Nat, NEW i \in Around(P, M, q), NEW S, InSight(P, M, S, i),
           NEW T, InView(P, M, T, q), NEW v \in Vars, S[v] # "undef"
    PROVE  T[v] # "undef"
<1>1. PICK d \in Positions(P) : DeclOf(P, d, v) /\ Visible(P, M, d, i)
  BY DEF InSight
<1>2. d \in Nat
  BY Numbers
<1>3. Visible(P, M, d, q)
  BY <1>1, <1>2, VisOut
<1> QED
  BY <1>1, <1>3 DEF InView

-----------------------------------------------------------------------------
(* The sound forms. *)

\* Every form that marks its operand moved first asks that it be live.
LEMMA MarksNeeds ==
    ASSUME NEW s \in Statement, NEW v \in Vars, s.k \in Binary => s.v # s.w, Marks(s, v)
    PROVE  v \in Needs(s)
<1>1. v # NoVar
  BY ProgramAssumption
<1>2. MoveForm \cap Decls = {}
  BY DEF MoveForm, Decls
<1> QED
  BY <1>1, <1>2 DEF Marks, Needs

\* A longer program has the same elses.
LEMMA ElseStable ==
    ASSUME NEW P, NEW M, NEW Q, NEW N, Extends(P, M, Q, N), NEW i \in Nat, i <= Len(P) + 1, NEW e \in Positions(P)
    PROVE  ElseAt(Q, N, i, e) <=> ElseAt(P, M, i, e)
<1>1. Len(P) \in Nat /\ Len(Q) \in Nat /\ Q[e] = P[e] /\ e \in Nat /\ e <= Len(P) + 1 /\ e \in Positions(Q)
  BY DEF Extends, Positions
<1>2. Around(Q, N, e) = Around(P, M, e) /\ Around(Q, N, i) = Around(P, M, i)
  BY <1>1, AroundStable
<1> QED
  BY <1>1, <1>2 DEF ElseAt

\* A longer program keeps every position in the branch it was in.
LEMMA InElseStable ==
    ASSUME NEW P, NEW M, NEW Q, NEW N, Extends(P, M, Q, N), NEW i \in Nat, NEW p \in Nat, i < p, p <= Len(P) + 1
    PROVE  InElse(Q, N, i, p) <=> InElse(P, M, i, p)
<1>1. Len(P) \in Nat /\ Len(Q) \in Nat /\ Len(P) <= Len(Q)
  BY DEF Extends
<1>2. \A e : e < p => (e \in Positions(Q) <=> e \in Positions(P))
  BY <1>1 DEF Positions
<1>3. i <= Len(P) + 1
  BY <1>1
<1> QED
  BY <1>2, <1>3, ElseStable DEF InElse, ElseAt

\* A longer program keeps a statement out of the unsound forms.
LEMMA SaneStable ==
    ASSUME NEW P, NEW M, NEW Q, NEW N, Extends(P, M, Q, N), NEW p \in Positions(P), SaneAt(P, M, p)
    PROVE  SaneAt(Q, N, p)
<1>1. Len(P) \in Nat /\ Len(Q) \in Nat /\ Len(P) <= Len(Q) /\ \A i \in Positions(P) : Q[i] = P[i]
  BY DEF Extends
<1>2. p \in Nat /\ p <= Len(P) + 1 /\ Q[p] = P[p] /\ p \in 1 .. Len(P)
  BY <1>1 DEF Positions
<1>3. Around(Q, N, p) = Around(P, M, p)
  BY <1>2, AroundStable
<1>4. \A t \in Around(P, M, p) : t \in Nat /\ t < p /\ t \in Positions(P) /\ t <= Len(P) + 1 /\ t >= 1
  BY <1>1, <1>2 DEF Around, Positions
<1>5. \A t \in Around(P, M, p) : Q[t] = P[t] /\ Around(Q, N, t) = Around(P, M, t)
                                  /\ (InElse(Q, N, t, p) <=> InElse(P, M, t, p))
  BY <1>1, <1>2, <1>4, AroundStable, InElseStable
<1>6. \A t \in Around(P, M, p) : \A j \in t .. p : Q[j] = P[j]
  <2> TAKE t \in Around(P, M, p)
  <2> TAKE j \in t .. p
  <2>1. j \in Positions(P)
    BY <1>2, <1>4, <1>1 DEF Positions
  <2> QED
    BY <2>1, <1>1
<1>7. P[p].k \notin {"whilemove", "retmove", "stmtmove"} \cup InBinary /\ (P[p].k \in Binary => P[p].v # P[p].w)
  BY DEF SaneAt
<1>8. ASSUME P[p].k \in Returns, NEW l \in Around(P, M, p), P[l].k \in Loops
      PROVE  \E t \in Around(P, M, p) :
             /\ Q[t].k = "if" /\ Around(Q, N, p) = Around(Q, N, t) \cup {t}
             /\ ~InElse(Q, N, t, p)
             /\ \A j \in t .. p : Q[j].k \notin Exits
  <2>1. PICK t \in Around(P, M, p) :
             /\ P[t].k = "if" /\ Around(P, M, p) = Around(P, M, t) \cup {t}
             /\ ~InElse(P, M, t, p)
             /\ \A j \in t .. p : P[j].k \notin Exits
    BY <1>8 DEF SaneAt
  <2> QED
    BY <2>1, <1>5, <1>6, <1>3
<1>9. ASSUME Q[p].k \in Returns, \E l \in Around(Q, N, p) : Q[l].k \in Loops
      PROVE  \E t \in Around(Q, N, p) :
             /\ Q[t].k = "if" /\ Around(Q, N, p) = Around(Q, N, t) \cup {t}
             /\ ~InElse(Q, N, t, p)
             /\ \A j \in t .. p : Q[j].k \notin Exits
  BY <1>8, <1>9, <1>2, <1>3, <1>5
<1> QED
  BY <1>2, <1>7, <1>9 DEF SaneAt

\* A loop has no else.
LEMMA NoElseOfLoop ==
    ASSUME NEW P, NEW M, Closing(P, M), Elses(P, M), NEW i \in Nat, NEW e, ElseAt(P, M, i, e)
    PROVE  P[i].k = "if"
  BY ElseOwner DEF ElseAt

\* Under the sound forms, the statement a checker step adds is none of the
\* unsound ones, and the earlier ones stay so.
LEMMA CheckSane ==
    ASSUME Shape, phase = "check", Walk, NEW s \in Stmt, Checks(s), SoundForms, Sane(prog, mate)
    PROVE  Sane(prog', mate')
<1>0. Walking /\ Grown(s)
  BY CheckGrows DEF Walk
<1>g. /\ Extends(prog, mate, prog', mate') /\ pos \in Nat /\ pos \in Positions(prog') /\ prog'[pos] = s
      /\ pos \in 1 .. Len(prog) + 1 /\ Closing(prog, mate) /\ Elses(prog, mate) /\ Stack /\ Defined /\ s \in Statement
  BY <1>0 DEF Grown, Walking, Shape
<1>l. Len(prog) \in Nat /\ Len(prog') \in Nat
  BY <1>g DEF Extends
<1>1. prog' = IF pos <= Len(prog) THEN prog ELSE Append(prog, s)
  BY StepEffect
<1>2. \A p \in Positions(prog) : SaneAt(prog', mate', p)
  BY <1>g, SaneStable DEF Sane
<1>3. CASE pos <= Len(prog)
  BY <1>1, <1>2, <1>3 DEF Sane
<1>4. CASE ~(pos <= Len(prog))
  <2>1. pos = Len(prog) + 1 /\ prog' = Append(prog, s)
    BY <1>1, <1>4, <1>g, <1>l
  <2>2. Positions(prog') = Positions(prog) \cup {pos} /\ \A j \in Positions(prog) : prog'[j] = prog[j]
    BY <2>1, <1>g, Appended DEF Shape
  <2>3. Wellformed(s) /\ Allowed(s)
    BY <1>4 DEF Stmt
  <2>4. gram.forms = {}
    BY DEF SoundForms
  <2>5. s.k \notin {"whilemove", "retmove", "stmtmove"} \cup InBinary
    BY <2>3, <2>4 DEF Allowed
  <2>6. ASSUME s.k \in Binary PROVE s.v # s.w
    <3>1. CASE s.k = "assign"
      BY <2>3, <2>4, <3>1 DEF Allowed
    <3>2. CASE s.k = "bind"
      <4>1. s.v # NoVar /\ s.w # NoVar /\ s.w \in Vars
        BY <2>6, <1>g DEF Statement
      <4>2. s.v \notin Declared /\ st[s.w] # "undef"
        BY <4>1, <3>2, <2>3 DEF Wellformed, Decls
      <4>3. PICK d \in Positions(prog) : DeclOf(prog, d, s.w)
        BY <4>1, <4>2, <1>g DEF Defined, InSight
      <4>4. s.w \in Declared
        BY <4>3 DEF DeclOf, Declared, Positions
      <4> QED
        BY <4>2, <4>4
    <3> QED
      BY <3>1, <3>2, <2>6 DEF Binary
  <2>7. ASSUME s.k \in Returns, NEW l \in Around(prog', mate', pos), prog'[l].k \in Loops
        PROVE  \E t \in Around(prog', mate', pos) :
                 /\ prog'[t].k = "if" /\ Around(prog', mate', pos) = Around(prog', mate', t) \cup {t}
                 /\ ~InElse(prog', mate', t, pos)
                 /\ \A j \in t .. pos : prog'[j].k \notin Exits
    <3>1. Around(prog', mate', pos) = Around(prog, mate, pos)
      BY <1>g, <2>1, <1>l, AroundStable
    <3>2. PICK x \in Depths : frames[x].at = l
      BY <3>1, <1>g, <2>7 DEF Stack
    <3>3. l \in Positions(prog) /\ prog[l].k \in Loops /\ l \in Nat
      BY <2>2, <2>7, <3>1, <1>g, Numbers
    <3>4. ~InElse(prog, mate, l, pos)
      BY <3>3, <1>g, NoElseOfLoop DEF InElse, ElseAt, Loops
    <3>5. frames[x].k \in Loops
      BY <3>2, <3>3, <3>4, <1>g DEF Stack
    <3>6. InLoop /\ frames # <<>>
      BY <3>5 DEF InLoop, Depths
    <3>7. Top.k = "if" /\ \A j \in Top.at .. Len(prog) : prog[j].k \notin Exits
      BY <2>3, <2>4, <2>7, <3>6 DEF Allowed
    <3>8. /\ Top.at \in Around(prog, mate, pos) /\ Top.at \in Nat
          /\ Around(prog, mate, pos) = Around(prog, mate, Top.at) \cup {Top.at}
          /\ Top.k = IF InElse(prog, mate, Top.at, pos) THEN "else" ELSE prog[Top.at].k
      BY <3>6, <1>g, TopFacts
    <3>9. Top.at < pos /\ Top.at \in Positions(prog) /\ Top.at >= 1
      BY <3>8, <1>l DEF Around, Positions
    <3>10. Around(prog', mate', Top.at) = Around(prog, mate, Top.at)
      BY <3>8, <3>9, <2>1, <1>l, <1>g, AroundStable
    <3>11. ~InElse(prog, mate, Top.at, pos) /\ prog[Top.at].k = "if"
      BY <3>7, <3>8
    <3>12. ~InElse(prog', mate', Top.at, pos)
      BY <3>8, <3>9, <3>11, <2>1, <1>g, <1>l, InElseStable
    <3>13. ASSUME NEW j \in Top.at .. pos PROVE prog'[j].k \notin Exits
      <4>1. CASE j = pos
        BY <4>1, <1>g, <2>7 DEF Exits, Returns
      <4>2. CASE j # pos
        <5>1. j \in Top.at .. Len(prog) /\ j \in Positions(prog)
          BY <4>2, <2>1, <1>l, <3>8, <3>9, <3>13 DEF Positions
        <5> QED
          BY <5>1, <3>7, <2>2
      <4> QED
        BY <4>1, <4>2
    <3>14. prog'[Top.at].k = "if"
      BY <3>9, <3>11, <2>2
    <3> QED
      BY <3>1, <3>8, <3>10, <3>12, <3>13, <3>14
  <2>8. SaneAt(prog', mate', pos)
    BY <2>5, <2>6, <2>7, <1>g DEF SaneAt
  <2> QED
    BY <2>2, <2>8, <1>2 DEF Sane
<1> QED
  BY <1>3, <1>4

-----------------------------------------------------------------------------
(* One step of the checker keeps the states right. *)

\* A longer program moves nothing more before a position it already had.
LEMMA LiveStable ==
    ASSUME NEW P, NEW M, NEW Q, NEW N, Extends(P, M, Q, N), NEW p \in Nat, p <= Len(P) + 1, NEW S, LiveClean(P, M, S, p)
    PROVE  LiveClean(Q, N, S, p)
  BY CleanStable DEF LiveClean

\* A longer program moves nothing more in a block that was closed.
LEMMA StillStable ==
    ASSUME NEW P, NEW M, NEW Q, NEW N, Extends(P, M, Q, N), Closing(P, M), NEW i, NEW v, Still(P, M, i, v)
    PROVE  Still(Q, N, i, v)
<1>1. /\ Len(P) \in Nat /\ Len(Q) \in Nat /\ \A j \in Positions(P) : Q[j] = P[j]
      /\ i \in DOMAIN N /\ N[i] = M[i] /\ M[i] \in Positions(P)
  BY DEF Extends, Still, Closing
<1>2. i \in Nat
  BY Numbers DEF Still
<1>3. \A j \in Positions(Q) : i < j /\ j <= M[i] => j \in Positions(P)
  BY <1>1, <1>2 DEF Positions
<1> QED
  BY <1>1, <1>3 DEF Still

\* What a step of the checker starts from, in terms of the program it leaves.
Before(s) ==
    /\ Grown(s) /\ Shape /\ Stack /\ Defined /\ st \in States
    /\ Tracked /\ Rewalked /\ Sane(prog', mate')

\* What a checker step may use of the state it starts in.
LEMMA BeforeFacts ==
    ASSUME NEW s, Before(s)
    PROVE  /\ Closing(prog', mate') /\ Elses(prog', mate') /\ Scoped(prog', mate') /\ prog' \in Seq(Statement)
           /\ pos \in Nat /\ pos \in Positions(prog') /\ prog'[pos] = s /\ s \in Statement
           /\ LiveClean(prog', mate', st, pos) /\ InView(prog', mate', st, pos) /\ InSight(prog', mate', st, pos)
           /\ Around(prog', mate', pos) = Around(prog, mate, pos)
           /\ \A x \in Depths : /\ FrameOk(prog', mate', frames[x]) /\ InSight(prog', mate', frames[x].base, frames[x].at)
                                /\ frames[x].at \in Around(prog', mate', pos) /\ frames[x].at \in Nat
                                /\ frames[x] \in Frame
<1>1. /\ Grown(s) /\ Closing(prog, mate) /\ Stack /\ Defined /\ Tracked
  BY DEF Before, Shape
<1>2. /\ Closing(prog', mate') /\ Elses(prog', mate') /\ Scoped(prog', mate') /\ prog' \in Seq(Statement)
      /\ pos \in Nat /\ pos \in Positions(prog') /\ prog'[pos] = s /\ s \in Statement /\ pos <= Len(prog) + 1
      /\ Extends(prog, mate, prog', mate')
  BY <1>1 DEF Grown, Shape
<1>3. Around(prog', mate', pos) = Around(prog, mate, pos) /\ InSight(prog', mate', st, pos)
  BY <1>1, GrownFacts
<1>4. LiveClean(prog', mate', st, pos) /\ InView(prog', mate', st, pos)
  BY <1>1, <1>2, LiveStable, ViewStable DEF Tracked
<1>5. ASSUME NEW x \in Depths
      PROVE  /\ FrameOk(prog', mate', frames[x]) /\ InSight(prog', mate', frames[x].base, frames[x].at)
             /\ frames[x].at \in Around(prog', mate', pos) /\ frames[x].at \in Nat
             /\ frames[x] \in Frame
  <2> DEFINE F == frames[x]
  <2>1. F.at \in Nat /\ F.at < pos /\ InSight(prog', mate', F.base, F.at)
    BY <1>1, <1>2, FrameStable
  <2>2. F.at \in Around(prog', mate', pos) /\ F \in Frame
    BY <1>1, <1>3 DEF Stack, Depths
  <2>3. Len(prog) \in Nat /\ F.at <= Len(prog) + 1
    BY <2>1, <1>2 DEF Extends
  <2>4. FrameOk(prog, mate, F)
    BY <1>1 DEF Tracked
  <2>5. LiveClean(prog', mate', F.base, F.at) /\ InView(prog', mate', F.base, F.at)
    BY <2>1, <2>3, <2>4, <1>2, LiveStable, ViewStable DEF FrameOk
  <2>6. ASSUME F.k = "else", NEW e \in Positions(prog'), ElseAt(prog', mate', F.at, e)
        PROVE  LiveClean(prog', mate', F.other, e) /\ InView(prog', mate', F.other, e)
    <3>1. InElse(prog, mate, F.at, pos)
      <4>1. prog[F.at].k # "else"
        BY <1>1, FrameStable, <1>2 DEF Opens, Loops
      <4> QED
        BY <4>1, <2>6, <1>1 DEF Stack
    <3>2. PICK f \in Positions(prog) : ElseAt(prog, mate, F.at, f)
      BY <3>1 DEF InElse, ElseAt
    <3>3. ElseAt(prog', mate', F.at, f)
      <4>1. F.at \in Nat /\ F.at <= Len(prog) + 1 /\ Extends(prog, mate, prog', mate')
        BY <2>1, <2>3, <1>2
      <4>2. ElseAt(prog', mate', F.at, f) <=> ElseAt(prog, mate, F.at, f)
        BY <4>1, ElseStable
      <4> QED
        BY <3>2, <4>2
    <3>4. e = f
      BY <3>3, <2>6, <1>2 DEF ElseAt, Elses
    <3>5. LiveClean(prog, mate, F.other, f) /\ InView(prog, mate, F.other, f)
      BY <2>4, <2>6, <3>2 DEF FrameOk
    <3>6. f \in Nat /\ f <= Len(prog) + 1
      BY <2>3 DEF Positions
    <3> QED
      BY <3>4, <3>5, <3>6, <1>2, LiveStable, ViewStable
  <2>7. FrameOk(prog', mate', F)
    BY <2>5, <2>6 DEF FrameOk
  <2> QED
    BY <2>1, <2>2, <2>7
<1> QED
  BY <1>2, <1>3, <1>4, <1>5

\* Loops of the second walk stay still for a state that has no more live names.
LEMMA StillKept ==
    ASSUME NEW s, Before(s), NEW x \in Depths, frames[x].k \in Loops, frames[x].pass = 2
    PROVE  /\ frames[x].at \in DOMAIN mate'
           /\ \A T : (\A v \in Vars : frames[x].base[v] # "undef" /\ T[v] = "live" => st[v] = "live") =>
                        StillFor(prog', mate', frames[x], T)
           /\ \A y \in Depths : x < y => StillFor(prog', mate', frames[x], frames[y].base)
<1>1. Extends(prog, mate, prog', mate') /\ Closing(prog, mate)
  BY DEF Before, Grown, Shape
<1>2. /\ frames[x].at \in DOMAIN mate
      /\ StillFor(prog, mate, frames[x], st)
      /\ \A y \in Depths : x < y => StillFor(prog, mate, frames[x], frames[y].base)
  BY DEF Before, Rewalked
<1>3. frames[x].at \in DOMAIN mate'
  BY <1>1, <1>2 DEF Extends
<1>4. \A v : Still(prog, mate, frames[x].at, v) => Still(prog', mate', frames[x].at, v)
  BY <1>1, StillStable
<1> QED
  BY <1>2, <1>3, <1>4 DEF StillFor

\* A statement that neither opens nor closes a block: the lattice of
\* checker_try_mark_moved follows the moves that may have run.
LEMMA MovePlain ==
    ASSUME NEW s, Before(s), s.k \notin Opens \cup {"else", "end"}, frames' = frames, pos' = pos + 1,
           \A v \in Vars : st'[v] = "live" => ~Marks(s, v) /\ (st[v] = "live" \/ (s.k \in Decls /\ s.v = v)),
           \A v \in Vars : st[v] # "undef" \/ (s.k \in Decls /\ s.v = v) => st'[v] # "undef"
    PROVE  Tracked' /\ Rewalked'
<1>1. /\ Closing(prog', mate') /\ Scoped(prog', mate') /\ prog' \in Seq(Statement)
      /\ pos \in Nat /\ pos \in Positions(prog') /\ prog'[pos] = s
      /\ LiveClean(prog', mate', st, pos) /\ InView(prog', mate', st, pos)
      /\ \A x \in Depths : /\ FrameOk(prog', mate', frames[x]) /\ InSight(prog', mate', frames[x].base, frames[x].at)
                           /\ frames[x].at \in Around(prog', mate', pos) /\ frames[x].at \in Nat
  BY BeforeFacts
<1>2. Positions(prog') \subseteq Nat /\ \A j \in Positions(prog') : prog'[j] \in Statement
  BY <1>1 DEF Positions
<1>3. InView(prog', mate', st', pos + 1)
  BY <1>1, ViewStep
<1>4. ASSUME NEW v \in Vars, st'[v] = "live" PROVE Clean(prog', mate', v, pos + 1)
  <2>1. CASE st[v] = "live"
    <3>1. Clean(prog', mate', v, pos)
      BY <2>1, <1>1 DEF LiveClean
    <3> QED
      BY <3>1, <1>1, <1>4, CleanStep
  <2>2. CASE s.k \in Decls /\ s.v = v
    <3>1. SUFFICES ASSUME NEW j \in Positions(prog'), Marks(prog'[j], v), Precedes(prog', mate', j, pos + 1) PROVE FALSE
      BY DEF Clean
    <3>2. j # pos
      BY <3>1, <1>1, <1>4
    <3>3. j \in Nat /\ j < pos
      BY <3>1, <3>2, <1>1, <1>2 DEF Precedes
    <3>4. SaneAt(prog', mate', j)
      BY DEF Before, Sane
    <3>5. v \in Needs(prog'[j])
      BY <3>1, <3>4, <1>2, MarksNeeds DEF SaneAt
    <3>6. PICK d \in Positions(prog') : DeclOf(prog', d, v) /\ Visible(prog', mate', d, j)
      BY <3>5, <1>1 DEF Scoped
    <3>7. d = pos
      BY <3>6, <2>2, <1>1 DEF Scoped, DeclOf
    <3> QED
      BY <3>3, <3>6, <3>7, <1>1 DEF Visible
  <2> QED
    BY <2>1, <2>2, <1>4
<1>5. Tracked'
  <2>1. LiveClean(prog', mate', st', pos')
    BY <1>4 DEF LiveClean
  <2>2. Depths' = Depths
    BY DEF Depths
  <2> QED
    BY <1>1, <1>3, <2>1, <2>2 DEF Tracked
<1>6. ASSUME NEW x \in Depths, NEW v \in Vars, frames[x].base[v] # "undef", st'[v] = "live" PROVE st[v] = "live"
  <2> SUFFICES ASSUME s.k \in Decls /\ s.v = v PROVE FALSE
    BY <1>6
  <2>1. PICK d \in Positions(prog') : DeclOf(prog', d, v) /\ Visible(prog', mate', d, frames[x].at)
    BY <1>1, <1>6 DEF InSight
  <2>2. d = pos
    BY <2>1, <1>1 DEF Scoped, DeclOf
  <2>3. frames[x].at < pos /\ frames[x].at \in Nat
    BY <1>1 DEF Around
  <2> QED
    BY <2>1, <2>2, <2>3, <1>1 DEF Visible
<1>7. Rewalked'
  <2>2. Depths' = Depths
    BY DEF Depths
  <2>3. \A x \in Depths : frames[x].k \in Loops /\ frames[x].pass = 2 =>
        /\ frames[x].at \in DOMAIN mate'
        /\ StillFor(prog', mate', frames[x], st')
        /\ \A y \in Depths : x < y => StillFor(prog', mate', frames[x], frames[y].base)
    BY <1>6, StillKept
  <2> QED
    BY <2>2, <2>3 DEF Rewalked
<1> QED
  BY <1>5, <1>7

\* The head of an if or loop: the snapshot it takes is the state at the head.
LEMMA MoveOpen ==
    ASSUME NEW s, Before(s), s.k \in Opens, pos' = pos + 1, st' = st,
           frames' = Append(frames, [k |-> s.k, at |-> pos, base |-> st, other |-> st, pass |-> 1])
    PROVE  Tracked' /\ Rewalked'
<1> DEFINE F == [k |-> s.k, at |-> pos, base |-> st, other |-> st, pass |-> 1]
<1>1. /\ Closing(prog', mate') /\ pos \in Nat /\ pos \in Positions(prog') /\ prog'[pos] = s
      /\ LiveClean(prog', mate', st, pos) /\ InView(prog', mate', st, pos)
      /\ \A x \in Depths : FrameOk(prog', mate', frames[x])
  BY BeforeFacts
<1>2. /\ frames \in Seq(Frame) /\ Len(frames) \in Nat /\ Depths' = Depths \cup {Len(frames) + 1}
      /\ frames'[Len(frames) + 1] = F /\ \A x \in Depths : frames'[x] = frames[x] /\ x < Len(frames) + 1
  BY DEF Before, Stack, Depths
<1>3. \A v : ~Marks(s, v)
  <2>1. s.k # "whilemove"
    BY <1>1 DEF Before, Sane, SaneAt
  <2> QED
    BY <2>1, BracketsMoveNothing DEF Opens, Loops
<1>4. LiveClean(prog', mate', st', pos')
  <2>1. s.k \notin {"end", "else"}
    BY DEF Opens, Loops
  <2> QED
    BY <2>1, <1>1, <1>3, CleanStep DEF LiveClean
<1>5. InView(prog', mate', st', pos')
  BY <1>1, ViewOpen
<1>6. FrameOk(prog', mate', F)
  <2>1. F.k # "else" /\ F.base = st /\ F.at = pos
    BY DEF Opens, Loops
  <2> QED
    BY <2>1, <1>1 DEF FrameOk
<1>7. Tracked'
  BY <1>1, <1>2, <1>4, <1>5, <1>6 DEF Tracked
<1>8. ASSUME NEW x \in Depths', frames'[x].k \in Loops, frames'[x].pass = 2
      PROVE  /\ frames'[x].at \in DOMAIN mate'
             /\ StillFor(prog', mate', frames'[x], st')
             /\ \A y \in Depths' : x < y => StillFor(prog', mate', frames'[x], frames'[y].base)
  <2>1. F.pass # 2 /\ F.base = st
    OBVIOUS
  <2> HIDE DEF F
  <2>2. x \in Depths /\ frames'[x] = frames[x]
    BY <2>1, <1>2, <1>8
  <2>3. /\ frames[x].at \in DOMAIN mate'
        /\ StillFor(prog', mate', frames[x], st)
        /\ \A y \in Depths : x < y => StillFor(prog', mate', frames[x], frames[y].base)
    BY <2>2, <1>8, StillKept
  <2> QED
    BY <2>1, <2>2, <2>3, <1>2
<1>9. Rewalked'
  BY <1>8 DEF Rewalked
<1> QED
  BY <1>7, <1>9

\* The block an end or an else belongs to, in the program the step leaves.
LEMMA TopBlock ==
    ASSUME NEW s, Before(s), s.k \in {"else", "end"}
    PROVE  /\ frames # <<>> /\ Len(frames) \in Depths /\ Len(frames) \in Nat /\ Top = frames[Len(frames)] /\ Top \in Frame
           /\ Top.at \in Nat /\ Top.at < pos /\ Top.at \in Positions(prog') /\ prog'[Top.at] = prog[Top.at]
           /\ prog'[Top.at].k \in Opens
           /\ Around(prog', mate', pos) = Around(prog', mate', Top.at) \cup {Top.at}
           /\ Top.k = IF InElse(prog', mate', Top.at, pos) THEN "else" ELSE prog'[Top.at].k
<1>1. Grown(s) /\ Closing(prog, mate) /\ Stack /\ Defined /\ frames # <<>> /\ pos \in Nat
  BY DEF Before, Shape, Grown
<1>2. /\ Len(frames) \in Nat /\ Len(frames) \in Depths /\ Top \in Frame
      /\ Around(prog, mate, pos) = Around(prog, mate, Top.at) \cup {Top.at}
      /\ Top.k = IF InElse(prog, mate, Top.at, pos) THEN "else" ELSE prog[Top.at].k
  BY <1>1, TopFacts
<1>3. Top = frames[Len(frames)]
  BY DEF Top
<1>4. /\ Top.at \in Nat /\ Top.at < pos /\ Top.at \in Positions(prog') /\ prog'[Top.at] = prog[Top.at]
      /\ prog[Top.at].k \in Opens
      /\ InElse(prog', mate', Top.at, pos) <=> InElse(prog, mate, Top.at, pos)
  BY <1>1, <1>2, <1>3, FrameStable
<1>5. Around(prog', mate', pos) = Around(prog, mate, pos)
  BY BeforeFacts
<1>6. Around(prog', mate', Top.at) = Around(prog, mate, Top.at)
  <2>1. Extends(prog, mate, prog', mate') /\ pos <= Len(prog) + 1 /\ Len(prog) \in Nat
    BY <1>1 DEF Grown, Extends
  <2> QED
    BY <2>1, <1>1, <1>4, AroundStable
<1> QED
  BY <1>1, <1>2, <1>3, <1>4, <1>5, <1>6

\* At an else the snapshot of the if is restored, and the state behind the then
\* branch is kept for the merge.
LEMMA MoveElse ==
    ASSUME NEW s, Before(s), s.k = "else", pos' = pos + 1, st' = Top.base,
           frames' = Append(Pop, [Top EXCEPT !.k = "else", !.other = st])
    PROVE  Tracked' /\ Rewalked'
<1> DEFINE F == [Top EXCEPT !.k = "else", !.other = st]
           n == Len(frames)
           i == Top.at
<1>1. /\ Closing(prog', mate') /\ Elses(prog', mate') /\ pos \in Nat /\ pos \in Positions(prog') /\ prog'[pos] = s
      /\ LiveClean(prog', mate', st, pos) /\ InView(prog', mate', st, pos)
      /\ \A x \in Depths : FrameOk(prog', mate', frames[x])
  BY BeforeFacts
<1>2. /\ frames # <<>> /\ n \in Depths /\ n \in Nat /\ Top = frames[n] /\ Top \in Frame
      /\ i \in Nat /\ i < pos /\ i \in Positions(prog') /\ prog'[i].k \in Opens
      /\ Around(prog', mate', pos) = Around(prog', mate', i) \cup {i}
  BY TopBlock
<1>3. /\ F \in Frame /\ F.at = i /\ F.base = Top.base /\ F.k = "else" /\ F.other = st
  BY <1>2 DEF Frame, Before
<1>4. /\ Depths' = Depths /\ frames'[n] = F /\ \A x \in Depths : x # n => frames'[x] = frames[x]
  BY <1>2, <1>3, SwapTop DEF Before
<1> HIDE DEF F
<1>5. ElseAt(prog', mate', i, pos)
  BY <1>1, <1>2 DEF ElseAt
<1>6. prog'[i].k = "if"
  BY <1>5, <1>1, <1>2, NoElseOfLoop
<1>7. LiveClean(prog', mate', st', pos') /\ InView(prog', mate', st', pos')
  <2>1. LiveClean(prog', mate', Top.base, i) /\ InView(prog', mate', Top.base, i)
    BY <1>1, <1>2 DEF FrameOk
  <2>2. LiveClean(prog', mate', Top.base, pos + 1)
    BY <2>1, <1>1, <1>2, <1>5, <1>6, CleanElse DEF LiveClean
  <2>3. InView(prog', mate', Top.base, pos + 1)
    BY <2>1, <1>1, <1>2, <1>5, ViewElse
  <2> QED
    BY <2>2, <2>3
<1>8. FrameOk(prog', mate', F)
  <2>1. FrameOk(prog', mate', Top)
    BY <1>1, <1>2
  <2>2. \A e \in Positions(prog') : ElseAt(prog', mate', i, e) => e = pos
    BY <1>5, <1>1 DEF ElseAt, Elses
  <2> QED
    BY <2>1, <2>2, <1>1, <1>3 DEF FrameOk
<1>9. Tracked'
  BY <1>1, <1>2, <1>4, <1>7, <1>8 DEF Tracked
<1>10. ASSUME NEW x \in Depths', frames'[x].k \in Loops, frames'[x].pass = 2
       PROVE  /\ frames'[x].at \in DOMAIN mate'
              /\ StillFor(prog', mate', frames'[x], st')
              /\ \A y \in Depths' : x < y => StillFor(prog', mate', frames'[x], frames'[y].base)
  <2>1. x # n
    BY <1>3, <1>4, <1>10 DEF Loops
  <2>2. x \in Depths /\ frames'[x] = frames[x] /\ x < n
    BY <2>1, <1>2, <1>4, <1>10 DEF Depths
  <2>3. /\ frames[x].at \in DOMAIN mate'
        /\ \A y \in Depths : x < y => StillFor(prog', mate', frames[x], frames[y].base)
    BY <2>2, <1>10, StillKept
  <2>4. \A y \in Depths : frames'[y].base = frames[y].base
    BY <1>2, <1>3, <1>4
  <2>5. StillFor(prog', mate', frames[x], Top.base)
    BY <2>2, <2>3, <1>2
  <2> QED
    BY <2>2, <2>3, <2>4, <2>5, <1>4
<1>11. Rewalked'
  BY <1>10 DEF Rewalked
<1> QED
  BY <1>9, <1>11

\* An end that leaves its block: after the merge only what is live behind every
\* branch stays live.
LEMMA MovePop ==
    ASSUME NEW s, Before(s), s.k = "end", frames' = Pop, pos' = pos + 1,
           \A v \in Vars : st'[v] = "live" => st[v] = "live" /\ (Top.k = "else" => Top.other[v] = "live"),
           \A v \in Vars : Top.base[v] # "undef" => st'[v] # "undef"
    PROVE  Tracked' /\ Rewalked'
<1> DEFINE n == Len(frames)
           i == Top.at
<1>1. /\ Closing(prog', mate') /\ Elses(prog', mate') /\ pos \in Nat /\ pos \in Positions(prog') /\ prog'[pos] = s
      /\ LiveClean(prog', mate', st, pos)
      /\ \A x \in Depths : FrameOk(prog', mate', frames[x])
  BY BeforeFacts
<1>2. /\ frames # <<>> /\ n \in Depths /\ n \in Nat /\ Top = frames[n] /\ Top \in Frame
      /\ i \in Nat /\ i < pos /\ i \in Positions(prog') /\ prog'[i].k \in Opens
      /\ Top.k = IF InElse(prog', mate', i, pos) THEN "else" ELSE prog'[i].k
  BY TopBlock
<1>3. i \in DOMAIN mate' /\ mate'[i] = pos
  BY DEF Before, Grown
<1>4. /\ Depths' = 1 .. n - 1 /\ \A x \in Depths' : x \in Depths /\ frames'[x] = frames[x]
  <2>1. frames \in Seq(Frame)
    BY DEF Before, Stack
  <2>2. Len(Pop) = n - 1 /\ \A x \in 1 .. n - 1 : Pop[x] = frames[x]
    BY <2>1, <1>2, PopFacts
  <2> QED
    BY <2>2, <1>2 DEF Depths
<1>5. FrameOk(prog', mate', Top)
  BY <1>1, <1>2
<1>6. InView(prog', mate', st', pos + 1)
  BY <1>1, <1>3, <1>5, ViewSkip DEF FrameOk
<1>7. ASSUME NEW v \in Vars, st'[v] = "live" PROVE Clean(prog', mate', v, pos + 1)
  <2>1. Clean(prog', mate', v, mate'[i])
    BY <1>1, <1>3, <1>7 DEF LiveClean
  <2>2. ASSUME NEW e, ElseAt(prog', mate', i, e) PROVE Clean(prog', mate', v, e)
    <3>1. e \in Positions(prog') /\ prog'[e].k = "else" /\ i \in Around(prog', mate', e)
      BY <2>2 DEF ElseAt
    <3>2. e <= pos /\ e \in Nat /\ e # pos
      BY <3>1, <1>1, <1>3, Numbers DEF Around
    <3>3. InElse(prog', mate', i, pos)
      BY <3>1, <3>2, <2>2, <1>1 DEF InElse, ElseAt
    <3>4. Top.k = "else"
      BY <3>3, <1>2
    <3> QED
      BY <3>1, <3>4, <2>2, <1>5, <1>7 DEF FrameOk, LiveClean
  <2>3. Clean(prog', mate', v, mate'[i] + 1)
    BY <2>1, <2>2, <1>1, <1>3, CleanEnd
  <2> QED
    BY <2>3, <1>3
<1>8. Tracked'
  BY <1>1, <1>4, <1>6, <1>7 DEF Tracked, LiveClean
<1>9. ASSUME NEW x \in Depths', frames'[x].k \in Loops, frames'[x].pass = 2
      PROVE  /\ frames'[x].at \in DOMAIN mate'
             /\ StillFor(prog', mate', frames'[x], st')
             /\ \A y \in Depths' : x < y => StillFor(prog', mate', frames'[x], frames'[y].base)
  <2>1. x \in Depths /\ frames'[x] = frames[x]
    BY <1>4, <1>9
  <2>2. /\ frames[x].at \in DOMAIN mate'
        /\ StillFor(prog', mate', frames[x], st')
        /\ \A y \in Depths : x < y => StillFor(prog', mate', frames[x], frames[y].base)
    BY <2>1, <1>9, StillKept
  <2> QED
    BY <2>1, <2>2, <1>4
<1>10. Rewalked'
  BY <1>9 DEF Rewalked
<1> QED
  BY <1>8, <1>10

\* The end of a loop's first walk: the second walk starts from the merge of the
\* head and the end of the body.
LEMMA MoveAgain ==
    ASSUME NEW s, Before(s), s.k = "end", Top.k \in Loops, pos' = Top.at + 1,
           frames' = Append(Pop, [Top EXCEPT !.pass = 2]),
           \A v \in Vars : st'[v] = "live" => Top.base[v] = "live" /\ st[v] = "live",
           \A v \in Vars : Top.base[v] # "undef" => st'[v] # "undef"
    PROVE  Tracked' /\ Rewalked'
<1> DEFINE n == Len(frames)
           i == Top.at
           F == [Top EXCEPT !.pass = 2]
<1>1. /\ Closing(prog', mate') /\ Elses(prog', mate') /\ pos \in Nat /\ pos \in Positions(prog') /\ prog'[pos] = s
      /\ LiveClean(prog', mate', st, pos)
      /\ \A x \in Depths : FrameOk(prog', mate', frames[x])
  BY BeforeFacts
<1>2. /\ frames # <<>> /\ n \in Depths /\ n \in Nat /\ Top = frames[n] /\ Top \in Frame
      /\ i \in Nat /\ i < pos /\ i \in Positions(prog') /\ prog'[i].k \in Opens
      /\ Top.k = IF InElse(prog', mate', i, pos) THEN "else" ELSE prog'[i].k
  BY TopBlock
<1>3. i \in DOMAIN mate' /\ mate'[i] = pos
  BY DEF Before, Grown
<1>4. prog'[i].k \in Loops /\ Top.k # "else"
  BY <1>2 DEF Loops
<1>5. /\ F \in Frame /\ F.at = i /\ F.base = Top.base /\ F.k = Top.k
  BY <1>2 DEF Frame
<1>6. /\ Depths' = Depths /\ frames'[n] = F /\ \A x \in Depths : x # n => frames'[x] = frames[x]
  BY <1>2, <1>5, SwapTop DEF Before
<1> HIDE DEF F
<1>7. FrameOk(prog', mate', Top)
  BY <1>1, <1>2
<1>8. InView(prog', mate', st', i + 1)
  <2>1. InView(prog', mate', Top.base, i + 1)
    BY <1>1, <1>2, <1>7, ViewOpen DEF FrameOk
  <2> QED
    BY <2>1 DEF InView
<1>9. LiveClean(prog', mate', st', i + 1)
  <2>1. SUFFICES ASSUME NEW v \in Vars, st'[v] = "live" PROVE Clean(prog', mate', v, i + 1)
    BY DEF LiveClean
  <2>2. Clean(prog', mate', v, i)
    BY <2>1, <1>7 DEF FrameOk, LiveClean
  <2>3. prog'[i].k # "whilemove"
    BY <1>2 DEF Before, Sane, SaneAt
  <2>4. ~Marks(prog'[i], v) /\ prog'[i].k \notin {"end", "else"}
    BY <2>3, <1>4, BracketsMoveNothing DEF Loops
  <2> QED
    BY <2>2, <2>4, <1>1, <1>2, CleanStep
<1>10. Tracked'
  <2>1. FrameOk(prog', mate', F)
    BY <1>4, <1>5, <1>7 DEF FrameOk
  <2> QED
    BY <2>1, <1>1, <1>2, <1>6, <1>8, <1>9 DEF Tracked
<1>11. ASSUME NEW x \in Depths', frames'[x].k \in Loops, frames'[x].pass = 2
       PROVE  /\ frames'[x].at \in DOMAIN mate'
              /\ StillFor(prog', mate', frames'[x], st')
              /\ \A y \in Depths' : x < y => StillFor(prog', mate', frames'[x], frames'[y].base)
  <2>1. CASE x = n
    <3>1. \A y \in Depths' : ~(x < y)
      BY <2>1, <1>2, <1>6 DEF Depths
    <3>2. ASSUME NEW v \in Vars, st'[v] = "live" PROVE Still(prog', mate', i, v)
      <4>1. Clean(prog', mate', v, mate'[i])
        BY <3>2, <1>1, <1>3 DEF LiveClean
      <4> QED
        BY <4>1, <1>1, <1>3, <1>4, CleanLoop
    <3>3. StillFor(prog', mate', F, st')
      BY <3>2, <1>5 DEF StillFor
    <3> QED
      BY <2>1, <3>1, <3>3, <1>3, <1>5, <1>6
  <2>2. CASE x # n
    <3>1. x \in Depths /\ frames'[x] = frames[x]
      BY <2>2, <1>6, <1>11
    <3>2. /\ frames[x].at \in DOMAIN mate'
          /\ StillFor(prog', mate', frames[x], st')
          /\ \A y \in Depths : x < y => StillFor(prog', mate', frames[x], frames[y].base)
      BY <3>1, <1>11, StillKept
    <3>3. \A y \in Depths : frames'[y].base = frames[y].base
      BY <1>2, <1>5, <1>6
    <3> QED
      BY <3>1, <3>2, <3>3, <1>6
  <2> QED
    BY <2>1, <2>2
<1>12. Rewalked'
  BY <1>11 DEF Rewalked
<1> QED
  BY <1>10, <1>12

\* checker_try_mark_moved: what is still live is not the marked name.
LEMMA MarkLive ==
    ASSUME NEW S \in States, NEW w
    PROVE  \A v \in Vars : /\ Mark(S, w)[v] = "live" => v # w /\ S[v] = "live"
                           /\ S[v] # "undef" => Mark(S, w)[v] # "undef"
  BY DEF Mark, States

\* A name defined outside the innermost block is defined at its end and was at
\* its else.
LEMMA TopDefined ==
    ASSUME NEW s, Before(s), s.k = "end", NEW v \in Vars, Top.base[v] # "undef"
    PROVE  st[v] # "undef" /\ (Top.k = "else" => Top.other[v] # "undef")
<1>1. /\ Closing(prog', mate') /\ pos \in Nat /\ InView(prog', mate', st, pos)
      /\ \A x \in Depths : FrameOk(prog', mate', frames[x]) /\ InSight(prog', mate', frames[x].base, frames[x].at)
      /\ \A x \in Depths : frames[x].at \in Around(prog', mate', pos)
  BY BeforeFacts
<1>2. /\ Len(frames) \in Depths /\ Top = frames[Len(frames)] /\ prog'[Top.at].k \in Opens
      /\ Top.k = IF InElse(prog', mate', Top.at, pos) THEN "else" ELSE prog'[Top.at].k
  BY TopBlock
<1>3. Top.at \in Around(prog', mate', pos) /\ FrameOk(prog', mate', Top) /\ InSight(prog', mate', Top.base, Top.at)
  BY <1>1, <1>2
<1>4. st[v] # "undef"
  BY <1>1, <1>3, ViewInside
<1>5. ASSUME Top.k = "else" PROVE Top.other[v] # "undef"
  <2>1. InElse(prog', mate', Top.at, pos)
    BY <1>2, <1>5 DEF Opens, Loops
  <2>2. PICK e \in Positions(prog') : ElseAt(prog', mate', Top.at, e)
    BY <2>1 DEF InElse, ElseAt
  <2>3. e \in Nat /\ Top.at \in Around(prog', mate', e) /\ InView(prog', mate', Top.other, e)
    BY <2>2, <1>3, <1>5, <1>1, Numbers DEF ElseAt, FrameOk
  <2> QED
    BY <2>3, <1>1, <1>3, ViewInside
<1> QED
  BY <1>4, <1>5

\* Every step of the checker: what it holds live, no statement that may have run
\* before has moved.
LEMMA CheckMoves ==
    ASSUME Shape, phase = "check", Walk, NEW s \in Stmt, Checks(s), Tracked, Rewalked, SoundForms, Sane(prog, mate)
    PROVE  Before(s) /\ Tracked' /\ Rewalked'
<1>1. Before(s)
  <2>1. Grown(s) /\ Walking
    BY CheckGrows DEF Walk
  <2>2. Sane(prog', mate')
    BY CheckSane
  <2> QED
    BY <2>1, <2>2 DEF Before, Walking
<1>2. /\ s \in Statement /\ st \in States /\ s.k \notin {"whilemove", "retmove", "stmtmove"} \cup InBinary
      /\ s.k \in Binary => s.v # s.w
  <2>1. pos \in Positions(prog') /\ prog'[pos] = s /\ s \in Statement
    BY <1>1, BeforeFacts
  <2>2. SaneAt(prog', mate', pos)
    BY <1>1, <2>1 DEF Before, Sane
  <2> QED
    BY <2>1, <2>2, <1>1 DEF SaneAt, Before
<1>3. CASE CheckDecl(s)
  <2> DEFINE T == [st EXCEPT ![s.v] = "live"]
  <2>1. /\ s.k \in Decls /\ frames' = frames /\ pos' = pos + 1 /\ s.v \in Vars
        /\ st' = IF s.k = "bind" THEN Mark(T, s.w) ELSE T
    BY <1>2, <1>3, Operands DEF CheckDecl, Record, Decls, Unary, Binary
  <2>2. T \in States /\ \A v \in Vars : T[v] = IF v = s.v THEN "live" ELSE st[v]
    BY <1>2 DEF States, Status
  <2> HIDE DEF T
  <2>3. s.k \notin Opens \cup {"else", "end"}
    BY <2>1 DEF Decls, Opens, Loops
  <2>4. \A v \in Vars : Marks(s, v) <=> s.k = "bind" /\ v = s.w
    BY <2>1 DEF Marks, Decls, Binary, MoveForm
  <2>5. \A v \in Vars : /\ st'[v] = "live" => ~Marks(s, v) /\ T[v] = "live"
                        /\ T[v] # "undef" => st'[v] # "undef"
    BY <2>1, <2>2, <2>4, MarkLive
  <2>6. /\ \A v \in Vars : st'[v] = "live" => ~Marks(s, v) /\ (st[v] = "live" \/ (s.k \in Decls /\ s.v = v))
        /\ \A v \in Vars : st[v] # "undef" \/ (s.k \in Decls /\ s.v = v) => st'[v] # "undef"
    BY <2>1, <2>2, <2>5
  <2>7. Tracked' /\ Rewalked'
    BY <1>1, <2>1, <2>3, <2>6, MovePlain
  <2> QED
    BY <1>1, <2>7
<1>4. CASE CheckMemo(s)
  BY <1>2, <1>4 DEF CheckMemo
<1>5. CASE CheckRead(s)
  <2>1. /\ s.k \in {"use", "arg", "retv", "ret"} \cup Exits /\ frames' = frames /\ pos' = pos + 1 /\ st' = st
    BY <1>2, <1>5 DEF CheckRead, Record, InBinary
  <2>2. s.k \notin Opens \cup {"else", "end"} /\ s.k \notin Decls /\ \A v \in Vars : ~Marks(s, v)
    BY <2>1 DEF Decls, Opens, Loops, Exits, Marks, Binary, MoveForm
  <2>3. Tracked' /\ Rewalked'
    BY <1>1, <2>1, <2>2, MovePlain
  <2> QED
    BY <1>1, <2>3
<1>6. CASE CheckMove(s)
  <2>1. /\ s.k \in {"move", "refill"} /\ frames' = frames /\ pos' = pos + 1 /\ st' = Mark(st, s.v)
    BY <1>2, <1>6 DEF CheckMove, Record, InBinary
  <2>2. s.k \notin Opens \cup {"else", "end"} /\ s.k \notin Decls /\ \A v \in Vars : Marks(s, v) <=> v = s.v
    BY <2>1 DEF Decls, Opens, Loops, Marks, Binary, MoveForm
  <2>3. /\ \A v \in Vars : st'[v] = "live" => ~Marks(s, v) /\ st[v] = "live"
        /\ \A v \in Vars : st[v] # "undef" => st'[v] # "undef"
    BY <2>1, <2>2, <1>2, MarkLive
  <2>4. Tracked' /\ Rewalked'
    BY <1>1, <2>1, <2>2, <2>3, MovePlain
  <2> QED
    BY <1>1, <2>4
<1>7. CASE CheckAssign(s)
  <2>1. /\ s.k \in {"set", "assign"} /\ frames' = frames /\ pos' = pos + 1
        /\ st' = IF s.k = "assign" THEN Mark(st, s.w) ELSE st
    BY <1>7 DEF CheckAssign, Record
  <2>2. s.k \notin Opens \cup {"else", "end"} /\ s.k \notin Decls /\ \A v \in Vars : Marks(s, v) <=> s.k = "assign" /\ v = s.w
    BY <2>1 DEF Decls, Opens, Loops, Marks, Binary, MoveForm
  <2>3. /\ \A v \in Vars : st'[v] = "live" => ~Marks(s, v) /\ st[v] = "live"
        /\ \A v \in Vars : st[v] # "undef" => st'[v] # "undef"
    BY <2>1, <2>2, <1>2, MarkLive
  <2>4. Tracked' /\ Rewalked'
    BY <1>1, <2>1, <2>2, <2>3, MovePlain
  <2> QED
    BY <1>1, <2>4
<1>8. CASE CheckOpen(s)
  <2>1. /\ s.k \in Opens /\ pos' = pos + 1 /\ st' = st
        /\ frames' = Append(frames, [k |-> s.k, at |-> pos, base |-> st, other |-> st, pass |-> 1])
    BY <1>2, <1>8 DEF CheckOpen, Record
  <2>2. Tracked' /\ Rewalked'
    BY <1>1, <2>1, MoveOpen
  <2> QED
    BY <1>1, <2>2
<1>9. CASE CheckElse(s)
  <2>1. /\ s.k = "else" /\ pos' = pos + 1 /\ st' = Top.base
        /\ frames' = Append(Pop, [Top EXCEPT !.k = "else", !.other = st])
    BY <1>9 DEF CheckElse, Record
  <2>2. Tracked' /\ Rewalked'
    BY <1>1, <2>1, MoveElse
  <2> QED
    BY <1>1, <2>2
<1>e. ASSUME s.k = "end" PROVE Top.base \in States /\ Top.other \in States /\ Top.k \in Opens \cup {"else"}
  <2>1. Top \in Frame
    BY <1>1, <1>e, TopBlock
  <2> QED
    BY <2>1 DEF Frame
<1>10. CASE CheckEndIf(s)
  <2> DEFINE Joined == [v \in Vars |-> IF Top.k = "else" THEN Merge(Top.other[v], st[v]) ELSE Elevate(Top.base[v], st[v])]
  <2>1. s.k = "end" /\ pos' = pos + 1 /\ st' = Snap(Top.base, Joined) /\ frames' = Pop
    BY <1>10 DEF CheckEndIf, Record
  <2>2. ASSUME NEW v \in Vars, Top.base[v] # "undef"
        PROVE  /\ st'[v] # "undef"
               /\ st'[v] = "live" => st[v] = "live" /\ (Top.k = "else" => Top.other[v] = "live")
    <3>1. st[v] # "undef" /\ (Top.k = "else" => Top.other[v] # "undef")
      BY <1>1, <2>1, <2>2, TopDefined
    <3>2. st'[v] = IF Top.k = "else" THEN Merge(Top.other[v], st[v]) ELSE Elevate(Top.base[v], st[v])
      BY <2>1, <2>2 DEF Snap
    <3>3. st[v] \in Status /\ Top.other[v] \in Status /\ Top.base[v] \in Status
      BY <1>2, <1>e, <2>1 DEF States
    <3> QED
      BY <3>1, <3>2, <3>3 DEF Merge, Elevate, Status
  <2>3. \A v \in Vars : Top.base[v] = "undef" => st'[v] = "undef"
    BY <2>1 DEF Snap
  <2>4. Tracked' /\ Rewalked'
    BY <1>1, <2>1, <2>2, <2>3, MovePop
  <2> QED
    BY <1>1, <2>4
<1>11. CASE CheckEndLoop(s) /\ Top.pass = 1
  <2> DEFINE Seeded == [v \in Vars |-> Preseed(Top.base[v], st[v])]
  <2>1. /\ s.k = "end" /\ Top.k \in Loops /\ pos' = Top.at + 1 /\ st' = Snap(Top.base, Seeded)
        /\ frames' = Append(Pop, [Top EXCEPT !.pass = 2])
    BY <1>11 DEF CheckEndLoop
  <2>2. ASSUME NEW v \in Vars, Top.base[v] # "undef"
        PROVE  /\ st'[v] # "undef"
               /\ st'[v] = "live" => st[v] = "live" /\ Top.base[v] = "live"
    <3>1. st[v] # "undef"
      BY <1>1, <2>1, <2>2, TopDefined
    <3>2. st'[v] = Preseed(Top.base[v], st[v])
      BY <2>1, <2>2 DEF Snap
    <3>3. st[v] \in Status /\ Top.base[v] \in Status
      BY <1>2, <1>e, <2>1 DEF States
    <3> QED
      BY <3>1, <3>2, <3>3, <2>2 DEF Preseed, Status
  <2>3. \A v \in Vars : Top.base[v] = "undef" => st'[v] = "undef"
    BY <2>1 DEF Snap
  <2>4. Tracked' /\ Rewalked'
    BY <1>1, <2>1, <2>2, <2>3, MoveAgain
  <2> QED
    BY <1>1, <2>4
<1>12. CASE CheckEndLoop(s) /\ Top.pass # 1
  <2> DEFINE Done == [v \in Vars |-> Elevate(Top.base[v], st[v])]
  <2>1. /\ s.k = "end" /\ Top.k \in Loops /\ pos' = pos + 1 /\ st' = Snap(Top.base, Done) /\ frames' = Pop
    BY <1>12 DEF CheckEndLoop, Record
  <2>2. ASSUME NEW v \in Vars, Top.base[v] # "undef"
        PROVE  /\ st'[v] # "undef"
               /\ st'[v] = "live" => st[v] = "live"
    <3>1. st[v] # "undef"
      BY <1>1, <2>1, <2>2, TopDefined
    <3>2. st'[v] = Elevate(Top.base[v], st[v])
      BY <2>1, <2>2 DEF Snap
    <3>3. st[v] \in Status /\ Top.base[v] \in Status
      BY <1>2, <1>e, <2>1 DEF States
    <3> QED
      BY <3>1, <3>2, <3>3 DEF Elevate, Status
  <2>3. \A v \in Vars : Top.base[v] = "undef" => st'[v] = "undef"
    BY <2>1 DEF Snap
  <2>4. Top.k # "else"
    BY <2>1 DEF Loops
  <2>5. Tracked' /\ Rewalked'
    BY <1>1, <2>1, <2>2, <2>3, <2>4, MovePop
  <2> QED
    BY <1>1, <2>5
<1> QED
  BY <1>3, <1>4, <1>5, <1>6, <1>7, <1>8, <1>9, <1>10, <1>11, <1>12 DEF Checks

-----------------------------------------------------------------------------
(* What the checker accepted. *)

\* A longer program keeps what was judged of a statement.
LEMMA VerdictStable ==
    ASSUME NEW P, NEW M, NEW Q, NEW N, Extends(P, M, Q, N), NEW p \in Positions(P), NEW A, Verdict(P, M, A, p),
           NEW B, p \in DOMAIN B, B[p] = A[p]
    PROVE  Verdict(Q, N, B, p)
<1>1. Len(P) \in Nat /\ Len(Q) \in Nat /\ Len(P) <= Len(Q) /\ \A i \in Positions(P) : Q[i] = P[i]
  BY DEF Extends
<1>2. p \in Nat /\ p <= Len(P) + 1 /\ Q[p] = P[p]
  BY <1>1 DEF Positions
<1>3. Around(Q, N, p) = Around(P, M, p)
  BY <1>2, AroundStable
<1>4. LiveClean(Q, N, B[p], p) /\ InSight(Q, N, B[p], p)
  BY <1>2, LiveStable, SightStable DEF Verdict
<1>5. ASSUME NEW v \in Vars, Marks(Q[p], v), NEW i \in Around(Q, N, p), Q[i].k \in Loops,
             NEW d \in Positions(Q), DeclOf(Q, d, v), Visible(Q, N, d, i)
      PROVE  FALSE
  <2>1. i \in Around(P, M, p) /\ i \in Positions(P) /\ i \in Nat /\ i < p /\ i <= Len(P) + 1
    BY <1>1, <1>2, <1>3, <1>5 DEF Around, Positions
  <2>2. d \in Nat /\ d < i /\ d \in Positions(P)
    BY <1>1, <1>5, <2>1 DEF Visible, Positions
  <2>3. Visible(P, M, d, i)
    BY <2>1, <2>2, <1>5, VisStable
  <2>4. DeclOf(P, d, v) /\ P[i].k \in Loops /\ Marks(P[p], v)
    BY <2>1, <2>2, <1>1, <1>2, <1>5 DEF DeclOf
  <2> QED
    BY <2>1, <2>2, <2>3, <2>4, <1>5 DEF Verdict
<1> QED
  BY <1>2, <1>4, <1>5 DEF Verdict

\* A first walk ends by going back to its start.
LEMMA CheckFrames ==
    ASSUME NEW s, Before(s), Checks(s), s.k \notin InBinary
    PROVE  /\ pos' \in Nat /\ pos' <= pos + 1
           /\ \A x \in Depths : frames[x].k \in Loops /\ frames[x].pass = 1 =>
                 \/ pos' = frames[x].at + 1
                 \/ \E y \in Depths' : frames'[y].k \in Loops /\ frames'[y].pass = 1 /\ frames'[y].at = frames[x].at
<1>1. /\ Closing(prog', mate') /\ Elses(prog', mate') /\ pos \in Nat /\ pos \in Positions(prog') /\ prog'[pos] = s
      /\ frames \in Seq(Frame)
  BY BeforeFacts DEF Before, Stack
<1>2. CASE frames' = frames /\ pos' = pos + 1
  BY <1>1, <1>2 DEF Depths
<1>3. CASE CheckOpen(s)
  <2>1. PICK F : frames' = Append(frames, F) /\ pos' = pos + 1
    BY <1>3 DEF CheckOpen, Record
  <2>2. Len(frames) \in Nat /\ \A x \in Depths : x \in Depths' /\ frames'[x] = frames[x]
    BY <1>1, <2>1 DEF Depths
  <2>3. \A x \in Depths : frames[x].k \in Loops /\ frames[x].pass = 1 =>
                 \/ pos' = frames[x].at + 1
                 \/ \E y \in Depths' : frames'[y].k \in Loops /\ frames'[y].pass = 1 /\ frames'[y].at = frames[x].at
    BY <2>2
  <2>4. pos' \in Nat /\ pos' <= pos + 1
    BY <1>1, <2>1
  <2> QED
    BY <2>3, <2>4
<1>4. ASSUME s.k \in {"else", "end"}
      PROVE  /\ frames # <<>> /\ Len(frames) \in Depths /\ Len(frames) \in Nat /\ Top = frames[Len(frames)] /\ Top \in Frame
             /\ Top.at \in Nat /\ Top.at < pos
             /\ Around(prog', mate', pos) = Around(prog', mate', Top.at) \cup {Top.at}
             /\ Top.k = IF InElse(prog', mate', Top.at, pos) THEN "else" ELSE prog'[Top.at].k
  BY <1>4, TopBlock
<1>5. CASE CheckElse(s)
  <2> DEFINE F == [Top EXCEPT !.k = "else", !.other = st]
  <2>1. s.k = "else" /\ pos' = pos + 1 /\ frames' = Append(Pop, F)
    BY <1>5 DEF CheckElse, Record
  <2>2. F \in Frame /\ F.at = Top.at
    BY <1>4, <2>1 DEF Before, Frame
  <2>3. Depths' = Depths /\ \A x \in Depths : x # Len(frames) => frames'[x] = frames[x]
    BY <1>4, <2>1, <2>2, SwapTop DEF Before
  <2>4. ElseAt(prog', mate', Top.at, pos)
    BY <1>1, <1>4, <2>1 DEF ElseAt
  <2>5. prog'[Top.at].k = "if"
    BY <2>4, <1>1, <1>4, <2>1, NoElseOfLoop
  <2>6. Top.k \notin Loops
    BY <2>5, <1>4, <2>1 DEF Loops
  <2>7. \A x \in Depths : frames[x].k \in Loops /\ frames[x].pass = 1 =>
                 \/ pos' = frames[x].at + 1
                 \/ \E y \in Depths' : frames'[y].k \in Loops /\ frames'[y].pass = 1 /\ frames'[y].at = frames[x].at
    BY <1>4, <2>1, <2>3, <2>6
  <2>8. pos' \in Nat /\ pos' <= pos + 1
    BY <1>1, <2>1
  <2> QED
    BY <2>7, <2>8
<1>6. ASSUME frames' = Pop, pos' = pos + 1, s.k = "end", ~(Top.k \in Loops /\ Top.pass = 1)
      PROVE  \A x \in Depths : frames[x].k \in Loops /\ frames[x].pass = 1 =>
                 \E y \in Depths' : frames'[y].k \in Loops /\ frames'[y].pass = 1 /\ frames'[y].at = frames[x].at
  <2>1. Len(Pop) = Len(frames) - 1 /\ \A x \in 1 .. Len(frames) - 1 : Pop[x] = frames[x]
    BY <1>1, <1>4, <1>6, PopFacts
  <2>2. \A x \in Depths : x # Len(frames) => x \in Depths' /\ frames'[x] = frames[x]
    BY <2>1, <1>4, <1>6 DEF Depths
  <2> QED
    BY <2>2, <1>4, <1>6
<1>7. CASE CheckEndIf(s)
  <2>1. frames' = Pop /\ pos' = pos + 1 /\ s.k = "end" /\ ~(Top.k \in Loops)
    BY <1>7 DEF CheckEndIf, Record, Loops
  <2> QED
    BY <2>1, <1>1, <1>6
<1>8. CASE CheckEndLoop(s) /\ Top.pass # 1
  <2>1. frames' = Pop /\ pos' = pos + 1 /\ s.k = "end"
    BY <1>8 DEF CheckEndLoop, Record
  <2> QED
    BY <2>1, <1>1, <1>6, <1>8
<1>9. CASE CheckEndLoop(s) /\ Top.pass = 1
  <2> DEFINE F == [Top EXCEPT !.pass = 2]
  <2>1. s.k = "end" /\ pos' = Top.at + 1 /\ frames' = Append(Pop, F)
    BY <1>9 DEF CheckEndLoop
  <2>2. F \in Frame /\ F.at = Top.at
    BY <1>4, <2>1 DEF Frame
  <2>3. Depths' = Depths /\ \A x \in Depths : x # Len(frames) => frames'[x] = frames[x]
    BY <1>4, <2>1, <2>2, SwapTop DEF Before
  <2>4. \A x \in Depths : frames[x].k \in Loops /\ frames[x].pass = 1 =>
                 \/ pos' = frames[x].at + 1
                 \/ \E y \in Depths' : frames'[y].k \in Loops /\ frames'[y].pass = 1 /\ frames'[y].at = frames[x].at
    BY <1>4, <2>1, <2>3
  <2>5. pos' \in Nat /\ pos' <= pos + 1
    BY <1>1, <1>4, <2>1
  <2> QED
    BY <2>4, <2>5
<1>10. CASE CheckDecl(s) \/ CheckRead(s) \/ CheckMove(s) \/ CheckAssign(s)
  <2>1. frames' = frames /\ pos' = pos + 1
    BY <1>10 DEF CheckDecl, CheckRead, CheckMove, CheckAssign, Record
  <2> QED
    BY <2>1, <1>2
<1>11. CASE CheckMemo(s)
  BY <1>11 DEF CheckMemo
<1> QED
  BY <1>3, <1>5, <1>7, <1>8, <1>9, <1>10, <1>11 DEF Checks

\* Outside first walks every name a statement needs is checked to be live.
LEMMA CheckUsable ==
    ASSUME NEW s \in Statement, Checks(s), ~Silent, s.k \notin InBinary
    PROVE  \A v \in Needs(s) : st[v] = "live"
<1>1. \A v \in Needs(s) : v # NoVar /\ (v = s.v \/ v = s.w) /\ (s.k \in Decls => v = s.w)
  BY DEF Needs
<1>2. s.w # NoVar => s.k \in Binary
  BY DEF Statement
<1>3. CASE CheckDecl(s)
  BY <1>1, <1>2, <1>3 DEF CheckDecl, Usable, Decls, Binary
<1>4. CASE CheckRead(s) \/ CheckOpen(s)
  <2>1. s.k \notin Binary
    BY <1>4 DEF CheckRead, CheckOpen, Binary, Exits, Opens, Loops
  <2> QED
    BY <1>1, <1>2, <1>4, <2>1 DEF CheckRead, CheckOpen, Usable
<1>5. CASE CheckMove(s)
  <2>1. s.k \notin Binary
    BY <1>5 DEF CheckMove, Binary
  <2> QED
    BY <1>1, <1>2, <1>5, <2>1 DEF CheckMove, Usable
<1>6. CASE CheckAssign(s)
  BY <1>1, <1>2, <1>6 DEF CheckAssign, Usable, Binary
<1>7. CASE CheckElse(s) \/ CheckEndIf(s) \/ CheckEndLoop(s)
  <2>1. s.k \in {"else", "end"}
    BY <1>7 DEF CheckElse, CheckEndIf, CheckEndLoop
  <2>2. s.v = NoVar /\ s.w = NoVar
    BY <2>1 DEF Statement, Unary, Binary
  <2> QED
    BY <1>1, <2>2
<1>8. CASE CheckMemo(s)
  BY <1>8 DEF CheckMemo
<1> QED
  BY <1>3, <1>4, <1>5, <1>6, <1>7, <1>8 DEF Checks

\* A step of the checker judges the statement it walks, and keeps the judgements
\* that no second walk can still change.
LEMMA CheckJudged ==
    ASSUME Shape, phase = "check", Walk, NEW s \in Stmt, Checks(s), Tracked, Rewalked, SoundForms, Sane(prog, mate),
           \A p \in Positions(prog) : Settled(p) => Verdict(prog, mate, ann, p),
           ann' = [i \in DOMAIN ann \cup {pos} |-> IF i = pos THEN st ELSE ann[i]]
    PROVE  \A p \in Positions(prog') : Settled(p)' => Verdict(prog', mate', ann', p)
<1>1. Before(s)
  BY CheckMoves
<1>2. /\ Closing(prog', mate') /\ Elses(prog', mate')
      /\ pos \in Nat /\ pos \in Positions(prog') /\ prog'[pos] = s /\ s \in Statement
      /\ LiveClean(prog', mate', st, pos) /\ InSight(prog', mate', st, pos)
      /\ Around(prog', mate', pos) = Around(prog, mate, pos)
      /\ \A x \in Depths : FrameOk(prog', mate', frames[x]) /\ frames[x].at \in Around(prog', mate', pos)
                           /\ frames[x].at \in Nat /\ frames[x] \in Frame
  BY <1>1, BeforeFacts
<1>3. SaneAt(prog', mate', pos) /\ Extends(prog, mate, prog', mate') /\ st \in States /\ pos <= Len(prog) + 1
      /\ Closing(prog, mate) /\ Stack
  BY <1>1, <1>2 DEF Before, Sane, Grown, Shape
<1>4. s.k \notin InBinary /\ (s.k \in Binary => s.v # s.w)
  BY <1>2, <1>3 DEF SaneAt
<1>5. /\ pos' \in Nat /\ pos' <= pos + 1
      /\ \A x \in Depths : frames[x].k \in Loops /\ frames[x].pass = 1 =>
            \/ pos' = frames[x].at + 1
            \/ \E y \in Depths' : frames'[y].k \in Loops /\ frames'[y].pass = 1 /\ frames'[y].at = frames[x].at
  BY <1>1, <1>4, CheckFrames
<1>6. SUFFICES ASSUME NEW p \in Positions(prog'), Settled(p)' PROVE Verdict(prog', mate', ann', p)
  OBVIOUS
<1>7. p \in Nat /\ p < pos' /\ \A y \in Depths' : frames'[y].k \in Loops /\ frames'[y].pass = 1 => p <= frames'[y].at
  BY <1>6, <1>2, Numbers DEF Settled
<1>8. \A x \in Depths : frames[x].k \in Loops /\ frames[x].pass = 1 => p <= frames[x].at
  BY <1>5, <1>7, <1>2
<1>9. CASE p < pos
  <2>1. p \in Positions(prog)
    BY <1>9, <1>7, <1>3, <1>6, <1>2 DEF Positions, Extends
  <2>2. Settled(p)
    BY <2>1, <1>8, <1>9 DEF Settled
  <2>3. Verdict(prog, mate, ann, p)
    BY <2>1, <2>2
  <2>4. p \in DOMAIN ann
    BY <2>3 DEF Verdict
  <2>5. p \in DOMAIN ann' /\ ann'[p] = ann[p]
    BY <2>4, <1>9, <1>7, <1>2
  <2> QED
    BY <2>1, <2>3, <2>5, <1>3, VerdictStable
<1>10. CASE p = pos
  <2>1. \A x \in Depths : ~(frames[x].k \in Loops /\ frames[x].pass = 1)
    <3>1. \A x \in Depths : frames[x].at < pos
      BY <1>2 DEF Around
    <3> QED
      BY <3>1, <1>8, <1>10, <1>2
  <2>2. ~Silent
    BY <2>1 DEF Silent, Depths
  <2>3. \A v \in Needs(s) : st[v] = "live"
    BY <2>2, <1>2, <1>4, CheckUsable
  <2>4. pos \in DOMAIN ann' /\ ann'[pos] = st
    OBVIOUS
  <2>5. ASSUME NEW v \in Vars, Marks(s, v), NEW i \in Around(prog', mate', pos), prog'[i].k \in Loops,
               NEW d \in Positions(prog'), DeclOf(prog', d, v), Visible(prog', mate', d, i)
        PROVE  FALSE
    <3>1. st[v] = "live"
      BY <2>3, <2>5, <1>2, <1>4, MarksNeeds
    <3>2. PICK x \in Depths : frames[x].at = i
      BY <2>5, <1>2, <1>3 DEF Stack
    <3>3. i \in Nat /\ i < pos
      BY <2>5, <1>2, Numbers DEF Around
    <3>4. frames[x].k \in Loops
      <4>1. prog[i] = prog'[i]
        <5>1. i \in Positions(prog)
          BY <2>5, <1>2, <1>3, Numbers
        <5> QED
          BY <5>1, <1>3 DEF Extends
      <4>2. ~InElse(prog, mate, i, pos)
        BY <4>1, <2>5, <3>3, <1>3, NoElseOfLoop DEF InElse, ElseAt, Shape, Loops
      <4> QED
        BY <4>1, <4>2, <3>2, <2>5, <1>3 DEF Stack
    <3>5. frames[x].pass = 2
      BY <3>4, <2>1, <1>2 DEF Frame
    <3>6. frames[x].base[v] # "undef"
      BY <2>5, <3>2, <1>2 DEF FrameOk, InView
    <3>7. /\ frames[x].at \in DOMAIN mate'
          /\ StillFor(prog', mate', frames[x], st)
      BY <3>4, <3>5, <1>1, StillKept
    <3>8. Still(prog', mate', i, v)
      BY <3>1, <3>2, <3>6, <3>7 DEF StillFor
    <3>9. pos <= mate'[i]
      BY <3>2, <3>7, <2>5 DEF Around
    <3> QED
      BY <3>3, <3>8, <3>9, <2>5, <1>2 DEF Still
  <2> QED
    BY <2>3, <2>4, <2>5, <1>2, <1>3, <1>10 DEF Verdict
<1> QED
  BY <1>5, <1>7, <1>9, <1>10, <1>2

-----------------------------------------------------------------------------
(* What clone elision establishes: the names read later, at every point. *)

Names(f) == {v \in Vars : f[v]}
ReadBy(s) == {v \in Vars : Reads(s, v)}

\* What the loop at i names and does not declare.
LoopKeeps(P, M, i) ==
    {v \in Vars : /\ \E j \in i .. M[i] : Mentions(P[j], v)
                  /\ \A j \in i .. M[i] : ~(P[j].k \in Decls /\ P[j].v = v)}

\* U assigns to each position the names read on some path from there; this is
\* the equation of position p.
Flow(P, M, U, p) ==
    /\ P[p].k \in Returns => U[p] = ReadBy(P[p])
    /\ P[p].k = "end" => \A i \in DOMAIN M : M[i] = p =>
          U[p] = U[p + 1] \cup (IF P[i].k \in Loops THEN LoopKeeps(P, M, i) ELSE {})
    /\ P[p].k = "else" => \A i \in DOMAIN M : ElseAt(P, M, i, p) => U[p] = U[M[i] + 1]
    /\ P[p].k = "if" => /\ \A e : ElseAt(P, M, p, e) => U[p] = U[p + 1] \cup U[e + 1]
                        /\ (\A e : ~ElseAt(P, M, p, e)) => U[p] = U[p + 1] \cup U[M[p] + 1]
    /\ P[p].k \notin Returns \cup {"end", "else", "if"} => U[p] = U[p + 1] \cup ReadBy(P[p])

Reading == [Nat -> SUBSET Vars]

\* An argument tagged moved_out is not read later.
LastUses(P, U, T) == \A i \in T : i \in Positions(P) /\ (P[i].k = "arg" => P[i].v \notin U[i + 1])

\* The ifs the backward walk is inside of when it is to look at p.
IfsAt(P, M, p) == {i \in DOMAIN M : P[i].k = "if" /\ i <= p /\ p < M[i]}

EFrame == [after : [Vars -> BOOLEAN], other : [Vars -> BOOLEAN]]

\* The frame of the if at i, when the walk is to look at p.
Held(P, M, U, i, F, p) ==
    /\ Names(F.after) = U[M[i] + 1]
    /\ \A e : ElseAt(P, M, i, e) /\ p < e => Names(F.other) = U[e + 1]
    /\ (\A e : ElseAt(P, M, i, e) => e <= p) => Names(F.other) = U[M[i] + 1]

\* O names the ifs of the frames.
Nested(P, M, U, E, O, p) ==
    /\ E \in Seq(EFrame) /\ O \in Seq(Nat) /\ Len(O) = Len(E)
    /\ \A x, y \in 1 .. Len(O) : x < y => O[x] < O[y]
    /\ {O[x] : x \in 1 .. Len(O)} = IfsAt(P, M, p)
    /\ \A x \in 1 .. Len(O) : Held(P, M, U, O[x], E[x], p)

\* The state of the walk at pos, for a solution U of the equations behind pos.
Elided(U, O) ==
    /\ U \in Reading /\ U[Len(prog) + 1] = {}
    /\ \A p \in Positions(prog) : p > pos => Flow(prog, mate, U, p)
    /\ used \in [Vars -> BOOLEAN] /\ U[pos + 1] = Names(used)
    /\ Nested(prog, mate, U, eframes, O, pos)
    /\ LastUses(prog, U, moved_out)
    /\ \A i \in moved_out : prog[i].k = "arg" => i > pos

\* The equations speak of what lies behind.
LEMMA FlowLocal ==
    ASSUME NEW P, NEW M, Closing(P, M), Elses(P, M), NEW p \in Positions(P), P[p].k = "if" => p \in DOMAIN M,
           NEW U, NEW W, \A q \in Nat : p <= q => W[q] = U[q], Flow(P, M, U, p)
    PROVE  Flow(P, M, W, p)
<1>1. p \in Nat /\ p + 1 \in Nat /\ p <= p /\ p <= p + 1
  <2>1. p \in Nat
    BY Numbers
  <2> QED
    BY <2>1
<1>2. W[p] = U[p] /\ W[p + 1] = U[p + 1]
  BY <1>1
<1>3. ASSUME NEW i \in DOMAIN M, ElseAt(P, M, i, p) PROVE W[M[i] + 1] = U[M[i] + 1]
  <2>1. i \in Around(P, M, p) /\ M[i] \in Nat
    BY <1>3, Numbers DEF ElseAt
  <2>2. p <= M[i]
    BY <2>1 DEF Around
  <2>3. M[i] + 1 \in Nat /\ p <= M[i] + 1
    BY <1>1, <2>1, <2>2
  <2> QED
    BY <2>3
<1>4. ASSUME NEW e, ElseAt(P, M, p, e) PROVE W[e + 1] = U[e + 1]
  <2>1. e \in Positions(P) /\ p \in Around(P, M, e)
    BY <1>4 DEF ElseAt
  <2>2. e \in Nat /\ p < e
    BY <2>1, Numbers DEF Around
  <2>3. e + 1 \in Nat /\ p <= e + 1
    BY <1>1, <2>2
  <2> QED
    BY <2>3
<1>5. P[p].k = "if" => W[M[p] + 1] = U[M[p] + 1]
  <2> SUFFICES ASSUME P[p].k = "if" PROVE W[M[p] + 1] = U[M[p] + 1]
    OBVIOUS
  <2>1. M[p] \in Nat /\ p < M[p]
    BY Numbers DEF Closing
  <2>2. M[p] + 1 \in Nat /\ p <= M[p] + 1
    BY <1>1, <2>1
  <2> QED
    BY <2>2
<1> QED
  BY <1>2, <1>3, <1>4, <1>5 DEF Flow

\* An end closes one block.
LEMMA OneOpener ==
    ASSUME NEW P, NEW M, Closing(P, M), NEW i \in DOMAIN M, NEW h \in DOMAIN M, M[i] = M[h]
    PROVE  i = h
<1>1. /\ i \in Nat /\ h \in Nat /\ M[i] \in Nat /\ i < M[i] /\ h < M[h] /\ i \in Positions(P) /\ h \in Positions(P)
      /\ P[i].k \in Opens /\ P[h].k \in Opens
  BY Numbers DEF Closing
<1>2. ~(i < h)
  <2> SUFFICES ASSUME i < h PROVE FALSE
    OBVIOUS
  <2>1. h <= M[i]
    BY <1>1
  <2>2. M[h] < M[i]
    BY <1>1, <2>1 DEF Closing
  <2> QED
    BY <1>1, <2>2
<1>3. ~(h < i)
  <2> SUFFICES ASSUME h < i PROVE FALSE
    OBVIOUS
  <2>1. i <= M[h]
    BY <1>1
  <2>2. M[i] < M[h]
    BY <1>1, <2>1 DEF Closing
  <2> QED
    BY <1>1, <2>2
<1> QED
  BY <1>1, <1>2, <1>3

\* An else belongs to one if.
LEMMA OneOwner ==
    ASSUME NEW P, NEW M, Closing(P, M), NEW i \in Nat, NEW h \in Nat, NEW e, ElseAt(P, M, i, e), ElseAt(P, M, h, e)
    PROVE  i = h
<1>1. Around(P, M, i) \cup {i} = Around(P, M, h) \cup {h}
  BY DEF ElseAt
<1>2. i \in Around(P, M, h) => i < h
  BY DEF Around
<1>3. h \in Around(P, M, i) => h < i
  BY DEF Around
<1> QED
  BY <1>1, <1>2, <1>3

\* The last element off a sequence, and one on.
LEMMA Popped ==
    ASSUME NEW S, NEW s \in Seq(S), s # <<>>, NEW x \in S
    PROVE  LET t == SubSeq(s, 1, Len(s) - 1) IN
           /\ t \in Seq(S) /\ Len(t) = Len(s) - 1 /\ Len(s) \in Nat /\ Len(s) >= 1
           /\ \A k \in 1 .. Len(s) - 1 : t[k] = s[k]
           /\ Append(t, x) \in Seq(S) /\ Len(Append(t, x)) = Len(s)
           /\ Append(t, x)[Len(s)] = x
           /\ \A k \in 1 .. Len(s) - 1 : Append(t, x)[k] = s[k]
<1> DEFINE t == SubSeq(s, 1, Len(s) - 1)
<1>1. Len(s) \in Nat /\ Len(s) >= 1
  OBVIOUS
<1>2. t \in Seq(S) /\ Len(t) = Len(s) - 1 /\ \A k \in 1 .. Len(s) - 1 : t[k] = s[k]
  <2> DEFINE m == Len(s) - 1
  <2>1. 1 \in Int /\ m \in Int /\ \A i \in 1 .. m : s[i] \in S
    BY <1>1
  <2>m. m \in Nat
    BY <1>1
  <2> HIDE DEF m
  <2>2. /\ IF 1 <= m THEN m - 1 + 1 = m ELSE m = 0
        /\ m - 1 + 1 = m /\ \A k \in 1 .. m : 1 + k - 1 = k
    BY <2>m
  <2>3. /\ SubSeq(s, 1, m) \in Seq(S) /\ Len(SubSeq(s, 1, m)) = IF 1 <= m THEN m - 1 + 1 ELSE 0
        /\ \A k \in 1 .. m - 1 + 1 : SubSeq(s, 1, m)[k] = s[1 + k - 1]
    BY <2>1, SubSeqProperties
  <2>4. /\ SubSeq(s, 1, m) \in Seq(S) /\ Len(SubSeq(s, 1, m)) = m
        /\ \A k \in 1 .. m : SubSeq(s, 1, m)[k] = s[k]
    BY <2>2, <2>3
  <2> QED
    BY <2>4 DEF m
<1> HIDE DEF t
<1>3. Append(t, x) \in Seq(S) /\ Len(Append(t, x)) = Len(s) /\ Append(t, x)[Len(s)] = x
  BY <1>1, <1>2
<1>4. \A k \in 1 .. Len(s) - 1 : Append(t, x)[k] = s[k]
  BY <1>1, <1>2
<1>5. /\ t \in Seq(S) /\ Len(t) = Len(s) - 1 /\ Len(s) \in Nat /\ Len(s) >= 1
      /\ \A k \in 1 .. Len(s) - 1 : t[k] = s[k]
      /\ Append(t, x) \in Seq(S) /\ Len(Append(t, x)) = Len(s)
      /\ Append(t, x)[Len(s)] = x
      /\ \A k \in 1 .. Len(s) - 1 : Append(t, x)[k] = s[k]
  BY <1>1, <1>2, <1>3, <1>4
<1> QED
  BY <1>5 DEF t

\* Numbers of an if the walk is inside of.
LEMMA IfsFacts ==
    ASSUME NEW P, NEW M, Closing(P, M), NEW p \in Nat, NEW i \in IfsAt(P, M, p)
    PROVE  /\ i \in DOMAIN M /\ i \in Nat /\ i \in Positions(P) /\ M[i] \in Nat /\ M[i] \in Positions(P)
           /\ P[i].k = "if" /\ P[M[i]].k = "end" /\ i <= p /\ p < M[i]
           /\ \A h \in IfsAt(P, M, p) : i < h => M[h] < M[i]
<1>1. /\ i \in DOMAIN M /\ i \in Nat /\ i \in Positions(P) /\ M[i] \in Nat /\ M[i] \in Positions(P)
      /\ P[i].k = "if" /\ P[M[i]].k = "end" /\ i <= p /\ p < M[i]
  BY Numbers DEF IfsAt, Closing
<1>2. ASSUME NEW h \in IfsAt(P, M, p), i < h PROVE M[h] < M[i]
  <2>1. h \in DOMAIN M /\ h \in Nat /\ h \in Positions(P) /\ P[h].k \in Opens /\ h <= p
    BY Numbers DEF IfsAt, Closing
  <2>2. h <= M[i]
    BY <1>1, <2>1
  <2> QED
    BY <1>1, <1>2, <2>1, <2>2 DEF Closing
<1> QED
  BY <1>1, <1>2

\* A statement that is no if and ends none.
LEMMA IfsSame ==
    ASSUME NEW P, NEW M, Closing(P, M), NEW p \in Positions(P), P[p].k # "if",
           \A i \in DOMAIN M : M[i] = p => P[i].k # "if"
    PROVE  IfsAt(P, M, p - 1) = IfsAt(P, M, p)
<1>1. p \in Nat /\ p - 1 \in Int
  <2>1. p \in Nat
    BY Numbers
  <2> QED
    BY <2>1
<1>2. ASSUME NEW i \in DOMAIN M, P[i].k = "if" PROVE (i <= p /\ p < M[i]) <=> (i <= p - 1 /\ p - 1 < M[i])
  <2>1. i \in Nat /\ M[i] \in Nat /\ i # p /\ M[i] # p
    BY <1>2, Numbers
  <2> QED
    BY <1>1, <2>1
<1> QED
  BY <1>2 DEF IfsAt

\* The end of an if.
LEMMA IfsEnd ==
    ASSUME NEW P, NEW M, Closing(P, M), NEW i \in DOMAIN M, P[i].k = "if"
    PROVE  /\ IfsAt(P, M, M[i] - 1) = IfsAt(P, M, M[i]) \cup {i}
           /\ \A h \in IfsAt(P, M, M[i]) : h < i
<1>1. /\ i \in Nat /\ M[i] \in Nat /\ i < M[i] /\ P[M[i]].k = "end" /\ i \in Positions(P) /\ P[i].k \in Opens
  BY Numbers DEF Closing
<1>2. ASSUME NEW h \in DOMAIN M, P[h].k = "if", h # i
      PROVE  (h <= M[i] /\ M[i] < M[h]) <=> (h <= M[i] - 1 /\ M[i] - 1 < M[h])
  <2>1. h \in Nat /\ M[h] \in Nat /\ h # M[i] /\ M[h] # M[i]
    BY <1>1, <1>2, Numbers, OneOpener
  <2> QED
    BY <1>1, <2>1
<1>3. ~(M[i] < M[i]) /\ i <= M[i] - 1 /\ M[i] - 1 < M[i]
  BY <1>1
<1>4. IfsAt(P, M, M[i] - 1) = IfsAt(P, M, M[i]) \cup {i}
  BY <1>2, <1>3 DEF IfsAt
<1>5. ASSUME NEW h \in IfsAt(P, M, M[i]) PROVE h < i
  <2>1. h \in DOMAIN M /\ h \in Nat /\ M[h] \in Nat /\ h <= M[i] /\ M[i] < M[h] /\ h \in Positions(P) /\ P[h].k \in Opens
    BY Numbers DEF IfsAt, Closing
  <2>2. ~(i < h)
    BY <1>1, <2>1 DEF Closing
  <2>3. h # i
    BY <1>1, <2>1
  <2> QED
    BY <1>1, <2>1, <2>2, <2>3
<1> QED
  BY <1>4, <1>5

\* The head of an if.
LEMMA IfsOpen ==
    ASSUME NEW P, NEW M, Closing(P, M), NEW p \in DOMAIN M, P[p].k = "if"
    PROVE  /\ IfsAt(P, M, p - 1) = IfsAt(P, M, p) \ {p} /\ p \in IfsAt(P, M, p)
           /\ \A h \in IfsAt(P, M, p) : h <= p
<1>1. p \in Nat /\ M[p] \in Nat /\ p < M[p]
  BY Numbers DEF Closing
<1>2. ASSUME NEW i \in DOMAIN M, P[i].k = "if", i # p PROVE (i <= p /\ p < M[i]) <=> (i <= p - 1 /\ p - 1 < M[i])
  <2>1. i \in Nat /\ M[i] \in Nat /\ M[i] # p
    BY <1>2, Numbers DEF Closing
  <2> QED
    BY <1>1, <1>2, <2>1
<1>3. p <= p /\ ~(p <= p - 1)
  BY <1>1
<1> QED
  BY <1>1, <1>2, <1>3 DEF IfsAt

\* The if of an else.
LEMMA IfsElse ==
    ASSUME NEW P, NEW M, Closing(P, M), Elses(P, M), DOMAIN M = {i \in Positions(P) : P[i].k \in Opens},
           NEW p \in Positions(P), P[p].k = "else"
    PROVE  \E i \in IfsAt(P, M, p) : ElseAt(P, M, i, p) /\ \A h \in IfsAt(P, M, p) : h <= i
<1>1. PICK i \in Positions(P) : P[i].k = "if" /\ i < p /\ Around(P, M, p) = Around(P, M, i) \cup {i}
  BY DEF Elses
<1>2. i \in DOMAIN M /\ i \in Nat /\ p \in Nat /\ M[i] \in Nat /\ P[M[i]].k = "end"
  BY <1>1, Numbers DEF Closing, Opens
<1>3. i <= p /\ p < M[i]
  <2>1. p <= M[i] /\ p # M[i]
    BY <1>1, <1>2 DEF Around
  <2> QED
    BY <1>1, <1>2, <2>1
<1>4. ASSUME NEW h \in IfsAt(P, M, p) PROVE h <= i
  <2>1. h \in DOMAIN M /\ h \in Nat /\ M[h] \in Nat /\ h <= p /\ p < M[h] /\ h \in Positions(P) /\ P[h].k = "if"
    BY Numbers DEF IfsAt, Closing
  <2>2. h # p
    BY <2>1
  <2>3. h < p /\ p <= M[h]
    BY <1>2, <2>1, <2>2
  <2>4. h \in Around(P, M, p)
    BY <2>1, <2>3 DEF Around, Opens
  <2>5. h = i \/ h < i
    BY <1>1, <2>4 DEF Around
  <2> QED
    BY <1>2, <2>1, <2>5
<1> QED
  BY <1>1, <1>2, <1>3, <1>4 DEF IfsAt, ElseAt

\* A frame is right one statement before, unless its else is between.
LEMMA HeldBack ==
    ASSUME NEW P, NEW M, Closing(P, M), NEW p \in Positions(P), NEW i \in IfsAt(P, M, p),
           NEW U, NEW W, \A q \in Nat : p < q => W[q] = U[q], NEW F, Held(P, M, U, i, F, p), ~ElseAt(P, M, i, p)
    PROVE  Held(P, M, W, i, F, p - 1)
<1>1. p \in Nat /\ Positions(P) \subseteq Nat
  BY Numbers
<1>2. M[i] \in Nat /\ p < M[i]
  BY <1>1, IfsFacts
<1>3. M[i] + 1 \in Nat /\ p < M[i] + 1
  BY <1>1, <1>2
<1>4. W[M[i] + 1] = U[M[i] + 1]
  BY <1>3
<1>5. ASSUME NEW e, ElseAt(P, M, i, e) PROVE (p - 1 < e <=> p < e) /\ (e <= p - 1 <=> e <= p) /\ (p < e => W[e + 1] = U[e + 1])
  <2>1. e \in Nat /\ e # p
    BY <1>1, <1>5 DEF ElseAt
  <2>2. e + 1 \in Nat /\ (p < e => p < e + 1)
    BY <1>1, <2>1
  <2>3. (p - 1 < e <=> p < e) /\ (e <= p - 1 <=> e <= p)
    BY <1>1, <2>1
  <2> QED
    BY <2>2, <2>3
<1> QED
  BY <1>4, <1>5 DEF Held

\* The frame of an if at its end: both branches start behind it.
LEMMA HeldNew ==
    ASSUME NEW P, NEW M, Closing(P, M), NEW i \in DOMAIN M, NEW U, NEW W, \A q \in Nat : M[i] < q => W[q] = U[q],
           NEW f, Names(f) = U[M[i] + 1]
    PROVE  Held(P, M, W, i, [after |-> f, other |-> f], M[i] - 1)
<1>1. M[i] \in Nat /\ P[M[i]].k = "end"
  BY Numbers DEF Closing
<1>2. M[i] + 1 \in Nat /\ M[i] < M[i] + 1
  BY <1>1
<1>3. W[M[i] + 1] = U[M[i] + 1]
  BY <1>2
<1>4. ASSUME NEW e, ElseAt(P, M, i, e) PROVE ~(M[i] - 1 < e)
  <2>1. e \in Positions(P) /\ P[e].k = "else" /\ i \in Around(P, M, e)
    BY <1>4 DEF ElseAt
  <2>2. e \in Nat /\ e <= M[i] /\ e # M[i]
    BY <1>1, <2>1, Numbers DEF Around
  <2> QED
    BY <1>1, <2>2
<1> QED
  BY <1>3, <1>4 DEF Held

\* The frame of an if at its else.
LEMMA HeldElse ==
    ASSUME NEW P, NEW M, Closing(P, M), Elses(P, M), NEW p \in Positions(P), NEW i \in IfsAt(P, M, p), ElseAt(P, M, i, p),
           NEW U, NEW W, \A q \in Nat : p < q => W[q] = U[q], NEW F \in EFrame, Held(P, M, U, i, F, p),
           NEW f, Names(f) = U[p + 1]
    PROVE  Held(P, M, W, i, [F EXCEPT !.other = f], p - 1)
<1> DEFINE G == [F EXCEPT !.other = f]
<1>1. p \in Nat
  BY Numbers
<1>2. M[i] \in Nat /\ p < M[i]
  BY <1>1, IfsFacts
<1>3. M[i] + 1 \in Nat /\ p < M[i] + 1 /\ p + 1 \in Nat /\ p < p + 1 /\ ~(p <= p - 1)
  BY <1>1, <1>2
<1>4. W[M[i] + 1] = U[M[i] + 1] /\ W[p + 1] = U[p + 1]
  BY <1>3
<1>5. \A e : ElseAt(P, M, i, e) => e = p
  BY DEF Elses, ElseAt
<1>6. G.after = F.after /\ G.other = f
  BY DEF EFrame
<1> HIDE DEF G
<1> QED
  BY <1>3, <1>4, <1>5, <1>6 DEF Held, G

\* The stack where no if begins, ends or changes branch.
LEMMA NestedSame ==
    ASSUME NEW P, NEW M, Closing(P, M), NEW p \in Positions(P), P[p].k \notin {"if", "else"},
           \A i \in DOMAIN M : M[i] = p => P[i].k # "if",
           NEW U, NEW W, \A q \in Nat : p < q => W[q] = U[q], NEW E, NEW O, Nested(P, M, U, E, O, p)
    PROVE  Nested(P, M, W, E, O, p - 1)
<1>1. IfsAt(P, M, p - 1) = IfsAt(P, M, p)
  BY IfsSame
<1>2. ASSUME NEW x \in 1 .. Len(O) PROVE Held(P, M, W, O[x], E[x], p - 1)
  <2>1. O[x] \in IfsAt(P, M, p) /\ Held(P, M, U, O[x], E[x], p)
    BY DEF Nested
  <2>2. ~ElseAt(P, M, O[x], p)
    BY DEF ElseAt
  <2> QED
    BY <2>1, <2>2, HeldBack
<1> QED
  BY <1>1, <1>2 DEF Nested

\* The end of an if pushes its frame.
LEMMA NestedPush ==
    ASSUME NEW P, NEW M, Closing(P, M), NEW i \in DOMAIN M, P[i].k = "if",
           NEW U, NEW W, \A q \in Nat : M[i] < q => W[q] = U[q], NEW E, NEW O, Nested(P, M, U, E, O, M[i]),
           NEW f \in [Vars -> BOOLEAN], Names(f) = U[M[i] + 1]
    PROVE  Nested(P, M, W, Append(E, [after |-> f, other |-> f]), Append(O, i), M[i] - 1)
<1> DEFINE F == [after |-> f, other |-> f]
           E2 == Append(E, F)
           O2 == Append(O, i)
<1>1. /\ E \in Seq(EFrame) /\ O \in Seq(Nat) /\ Len(O) = Len(E) /\ Len(O) \in Nat
      /\ \A x, y \in 1 .. Len(O) : x < y => O[x] < O[y]
      /\ {O[x] : x \in 1 .. Len(O)} = IfsAt(P, M, M[i])
      /\ \A x \in 1 .. Len(O) : Held(P, M, U, O[x], E[x], M[i])
  BY DEF Nested
<1>2. F \in EFrame /\ i \in Nat /\ M[i] \in Positions(P) /\ P[M[i]].k = "end"
  BY Numbers DEF EFrame, Closing
<1>3. Held(P, M, W, i, F, M[i] - 1)
  BY HeldNew
<1>4. IfsAt(P, M, M[i] - 1) = IfsAt(P, M, M[i]) \cup {i} /\ \A h \in IfsAt(P, M, M[i]) : h < i
  BY IfsEnd
<1> HIDE DEF F
<1>5. /\ E2 \in Seq(EFrame) /\ O2 \in Seq(Nat) /\ Len(O2) = Len(O) + 1 /\ Len(E2) = Len(O) + 1
      /\ O2[Len(O) + 1] = i /\ E2[Len(O) + 1] = F
      /\ \A x \in 1 .. Len(O) : O2[x] = O[x] /\ E2[x] = E[x]
  BY <1>1, <1>2
<1>6. \A x \in 1 .. Len(O) + 1 : x \in 1 .. Len(O) \/ x = Len(O) + 1
  BY <1>1
<1>7. Len(O) + 1 \in 1 .. Len(O) + 1 /\ \A x \in 1 .. Len(O) : x \in 1 .. Len(O) + 1
  BY <1>1
<1> HIDE DEF E2, O2
<1>8. ASSUME NEW x \in 1 .. Len(O) PROVE Held(P, M, W, O[x], E[x], M[i] - 1)
  <2>1. O[x] \in IfsAt(P, M, M[i]) /\ Held(P, M, U, O[x], E[x], M[i])
    BY <1>1
  <2>2. ~ElseAt(P, M, O[x], M[i])
    BY <1>2 DEF ElseAt
  <2> QED
    BY <1>2, <2>1, <2>2, HeldBack
<1>9. {O2[x] : x \in 1 .. Len(O) + 1} = IfsAt(P, M, M[i] - 1)
  <2>1. ASSUME NEW h \in IfsAt(P, M, M[i] - 1) PROVE \E x \in 1 .. Len(O) + 1 : O2[x] = h
    <3>1. CASE h = i
      BY <1>5, <1>7, <3>1
    <3>2. CASE h # i
      <4>1. PICK x \in 1 .. Len(O) : O[x] = h
        BY <1>1, <1>4, <3>2
      <4> QED
        BY <1>5, <1>7, <4>1
    <3> QED
      BY <3>1, <3>2
  <2>2. ASSUME NEW x \in 1 .. Len(O) + 1 PROVE O2[x] \in IfsAt(P, M, M[i] - 1)
    BY <1>1, <1>4, <1>5, <1>6
  <2> QED
    BY <2>1, <2>2
<1>10. ASSUME NEW x \in 1 .. Len(O) + 1, NEW y \in 1 .. Len(O) + 1, x < y PROVE O2[x] < O2[y]
  <2>1. x \in 1 .. Len(O)
    BY <1>1, <1>10
  <2>2. O2[x] = O[x] /\ O[x] \in IfsAt(P, M, M[i])
    BY <1>1, <1>5, <2>1
  <2>3. CASE y = Len(O) + 1
    BY <1>4, <1>5, <2>2, <2>3
  <2>4. CASE y \in 1 .. Len(O)
    BY <1>1, <1>5, <1>10, <2>1, <2>2, <2>4
  <2> QED
    BY <1>6, <2>3, <2>4
<1>11. \A x \in 1 .. Len(O) + 1 : Held(P, M, W, O2[x], E2[x], M[i] - 1)
  BY <1>3, <1>5, <1>6, <1>8
<1>12. Nested(P, M, W, E2, O2, M[i] - 1)
  BY <1>5, <1>9, <1>10, <1>11 DEF Nested
<1> QED
  BY <1>12 DEF E2, O2, F

\* The innermost if is on top.
LEMMA NestedTop ==
    ASSUME NEW P, NEW M, NEW U, NEW E, NEW O, NEW p, Nested(P, M, U, E, O, p),
           NEW i \in IfsAt(P, M, p), i \in Nat, \A h \in IfsAt(P, M, p) : h <= i
    PROVE  /\ E # <<>> /\ O # <<>> /\ Len(E) = Len(O) /\ Len(O) \in Nat /\ Len(O) \in 1 .. Len(O) /\ Len(O) >= 1
           /\ O[Len(O)] = i /\ E[Len(E)] \in EFrame /\ Held(P, M, U, i, E[Len(E)], p)
<1>1. PICK x \in 1 .. Len(O) : O[x] = i
  BY DEF Nested
<1>2. E \in Seq(EFrame) /\ O \in Seq(Nat) /\ Len(O) = Len(E) /\ Len(O) \in Nat
  BY DEF Nested
<1>3. Len(O) \in 1 .. Len(O) /\ x <= Len(O) /\ x \in Nat
  BY <1>1, <1>2
<1>4. O[Len(O)] \in IfsAt(P, M, p) /\ O[Len(O)] \in Nat
  BY <1>2, <1>3 DEF Nested
<1>5. O[Len(O)] <= i
  BY <1>4
<1>6. x = Len(O)
  <2> SUFFICES ASSUME x # Len(O) PROVE FALSE
    OBVIOUS
  <2>1. x < Len(O)
    BY <1>2, <1>3
  <2>2. O[x] < O[Len(O)]
    BY <1>1, <1>3, <2>1 DEF Nested
  <2> QED
    BY <1>1, <1>4, <1>5, <2>2
<1>7. Held(P, M, U, O[Len(O)], E[Len(O)], p)
  BY <1>3 DEF Nested
<1> QED
  BY <1>1, <1>2, <1>3, <1>6, <1>7

\* What nested frames are, counted by the frames.
LEMMA NestedFacts ==
    ASSUME NEW P, NEW M, NEW U, NEW E, NEW O, NEW p, Nested(P, M, U, E, O, p)
    PROVE  /\ E \in Seq(EFrame) /\ O \in Seq(Nat) /\ Len(O) = Len(E) /\ Len(E) \in Nat
           /\ \A x, y \in 1 .. Len(E) : x < y => O[x] < O[y]
           /\ {O[x] : x \in 1 .. Len(E)} = IfsAt(P, M, p)
           /\ \A x \in 1 .. Len(E) : Held(P, M, U, O[x], E[x], p)
<1>1. E \in Seq(EFrame) /\ O \in Seq(Nat) /\ Len(O) = Len(E)
  BY DEF Nested
<1>2. Len(E) \in Nat
  BY <1>1
<1>3. /\ \A x, y \in 1 .. Len(O) : x < y => O[x] < O[y]
      /\ {O[x] : x \in 1 .. Len(O)} = IfsAt(P, M, p)
      /\ \A x \in 1 .. Len(O) : Held(P, M, U, O[x], E[x], p)
  BY Zenon DEF Nested
<1> QED
  BY <1>1, <1>2, <1>3, Zenon

\* At an else the frame on top learns what the else branch reads.
LEMMA NestedElse ==
    ASSUME NEW P, NEW M, Closing(P, M), Elses(P, M), NEW p \in Positions(P), NEW i \in IfsAt(P, M, p), ElseAt(P, M, i, p),
           \A h \in IfsAt(P, M, p) : h <= i,
           NEW U, NEW W, \A q \in Nat : p < q => W[q] = U[q], NEW E, NEW O, Nested(P, M, U, E, O, p),
           NEW f \in [Vars -> BOOLEAN], Names(f) = U[p + 1]
    PROVE  Nested(P, M, W, Append(SubSeq(E, 1, Len(E) - 1), [E[Len(E)] EXCEPT !.other = f]), O, p - 1)
<1> DEFINE n == Len(E)
           F == [E[n] EXCEPT !.other = f]
           E2 == Append(SubSeq(E, 1, n - 1), F)
<1>1. /\ E \in Seq(EFrame) /\ O \in Seq(Nat) /\ Len(O) = n /\ n \in Nat
      /\ \A x, y \in 1 .. n : x < y => O[x] < O[y]
      /\ {O[x] : x \in 1 .. n} = IfsAt(P, M, p)
      /\ \A x \in 1 .. n : Held(P, M, U, O[x], E[x], p)
  BY NestedFacts
<1>0. i \in Nat
  BY Numbers DEF IfsAt
<1>2. E # <<>> /\ n \in 1 .. n /\ n >= 1 /\ O[n] = i /\ E[n] \in EFrame /\ Held(P, M, U, i, E[n], p)
  BY <1>0, <1>1, NestedTop
<1>3. F \in EFrame /\ Held(P, M, W, i, F, p - 1)
  <2>1. F \in EFrame
    BY <1>2 DEF EFrame
  <2> QED
    BY <1>2, <2>1, HeldElse
<1> HIDE DEF F
<1>4. /\ E2 \in Seq(EFrame) /\ Len(E2) = n /\ E2[n] = F /\ \A x \in 1 .. n - 1 : E2[x] = E[x]
  BY <1>1, <1>2, <1>3, Popped
<1> HIDE DEF E2
<1>5. IfsAt(P, M, p - 1) = IfsAt(P, M, p)
  <2>1. P[p].k = "else"
    BY DEF ElseAt
  <2>2. \A j \in DOMAIN M : M[j] # p
    BY <2>1 DEF Closing
  <2> QED
    BY <2>1, <2>2, IfsSame
<1>6. ASSUME NEW x \in 1 .. n PROVE Held(P, M, W, O[x], E2[x], p - 1)
  <2>1. CASE x = n
    BY <1>2, <1>3, <1>4, <2>1
  <2>2. CASE x # n
    <3>1. x \in 1 .. n - 1 /\ x < n
      BY <1>1, <2>2
    <3>2. O[x] \in IfsAt(P, M, p) /\ Held(P, M, U, O[x], E[x], p) /\ O[x] < O[n] /\ O[x] \in Nat
      BY <1>1, <1>2, <3>1
    <3>3. O[x] # i
      BY <1>2, <1>0, <3>2
    <3>4. ~ElseAt(P, M, O[x], p)
      BY <1>0, <3>2, <3>3, OneOwner
    <3>5. Held(P, M, W, O[x], E[x], p - 1)
      BY <3>2, <3>4, HeldBack
    <3> QED
      BY <1>4, <3>1, <3>5
  <2> QED
    BY <2>1, <2>2
<1>7. Nested(P, M, W, E2, O, p - 1)
  BY <1>1, <1>4, <1>5, <1>6 DEF Nested
<1> QED
  BY <1>7 DEF E2, F

\* The head of an if pops its frame.
LEMMA NestedPop ==
    ASSUME NEW P, NEW M, Closing(P, M), NEW p \in DOMAIN M, P[p].k = "if",
           NEW U, NEW W, \A q \in Nat : p < q => W[q] = U[q], NEW E, NEW O, Nested(P, M, U, E, O, p)
    PROVE  Nested(P, M, W, SubSeq(E, 1, Len(E) - 1), SubSeq(O, 1, Len(O) - 1), p - 1)
<1> DEFINE n == Len(E)
           E2 == SubSeq(E, 1, n - 1)
           O2 == SubSeq(O, 1, n - 1)
<1>1. /\ E \in Seq(EFrame) /\ O \in Seq(Nat) /\ Len(O) = n /\ n \in Nat
      /\ \A x, y \in 1 .. n : x < y => O[x] < O[y]
      /\ {O[x] : x \in 1 .. n} = IfsAt(P, M, p)
      /\ \A x \in 1 .. n : Held(P, M, U, O[x], E[x], p)
  BY NestedFacts
<1>0. p \in Nat /\ p \in Positions(P)
  BY Numbers
<1>2. /\ IfsAt(P, M, p - 1) = IfsAt(P, M, p) \ {p} /\ p \in IfsAt(P, M, p)
      /\ \A h \in IfsAt(P, M, p) : h <= p
  BY IfsOpen
<1>3. E # <<>> /\ O # <<>> /\ n \in 1 .. n /\ n >= 1 /\ O[n] = p /\ E[n] \in EFrame
  BY <1>0, <1>1, <1>2, NestedTop
<1>4. /\ E2 \in Seq(EFrame) /\ Len(E2) = n - 1 /\ \A x \in 1 .. n - 1 : E2[x] = E[x]
      /\ O2 \in Seq(Nat) /\ Len(O2) = n - 1 /\ \A x \in 1 .. n - 1 : O2[x] = O[x]
  <2>1. /\ E2 \in Seq(EFrame) /\ Len(E2) = n - 1 /\ \A x \in 1 .. n - 1 : E2[x] = E[x]
    BY <1>1, <1>3, Popped
  <2>2. /\ O2 \in Seq(Nat) /\ Len(O2) = n - 1 /\ \A x \in 1 .. n - 1 : O2[x] = O[x]
    BY <1>0, <1>1, <1>3, Popped
  <2> QED
    BY <2>1, <2>2
<1> HIDE DEF E2, O2
<1>5. ASSUME NEW x \in 1 .. n - 1 PROVE x \in 1 .. n /\ x < n
  BY <1>1
<1>6. \A x \in 1 .. n : x # n => x \in 1 .. n - 1
  BY <1>1
<1> HIDE DEF n
<1>7. \A x \in 1 .. n - 1 : O[x] # p
  <2> SUFFICES ASSUME NEW x \in 1 .. n - 1, O[x] = p PROVE FALSE
    OBVIOUS
  <2>1. O[x] < O[n]
    BY <1>1, <1>3, <1>5
  <2> QED
    BY <1>0, <1>3, <2>1
<1>8. {O2[x] : x \in 1 .. n - 1} = IfsAt(P, M, p - 1)
  <2>1. ASSUME NEW h \in IfsAt(P, M, p - 1) PROVE \E x \in 1 .. n - 1 : O2[x] = h
    <3>1. PICK x \in 1 .. n : O[x] = h
      BY <1>1, <1>2
    <3>2. x # n
      BY <1>2, <1>3, <3>1
    <3> QED
      BY <1>4, <1>6, <3>1, <3>2
  <2>2. ASSUME NEW x \in 1 .. n - 1 PROVE O2[x] \in IfsAt(P, M, p - 1)
    <3>1. O2[x] = O[x] /\ O[x] \in IfsAt(P, M, p) /\ O[x] # p
      BY <1>1, <1>4, <1>5, <1>7
    <3> QED
      BY <1>2, <3>1
  <2> QED
    BY <2>1, <2>2
<1>9. ASSUME NEW x \in 1 .. n - 1 PROVE Held(P, M, W, O2[x], E2[x], p - 1)
  <2>1. O[x] \in IfsAt(P, M, p) /\ Held(P, M, U, O[x], E[x], p)
    BY <1>1, <1>5
  <2>2. ~ElseAt(P, M, O[x], p)
    BY DEF ElseAt
  <2>3. Held(P, M, W, O[x], E[x], p - 1)
    BY <1>0, <2>1, <2>2, HeldBack
  <2> QED
    BY <1>4, <2>3
<1>10. \A x, y \in 1 .. n - 1 : x < y => O2[x] < O2[y]
  BY <1>1, <1>4, <1>5
<1>11. Nested(P, M, W, E2, O2, p - 1)
  BY <1>4, <1>8, <1>9, <1>10 DEF Nested
<1> QED
  BY <1>1, <1>11 DEF E2, O2, n

\* What shows that a step of the backward walk keeps its invariant.
LEMMA ElidedBack ==
    ASSUME Shape, AllClosed, pos \in Positions(prog), NEW U, NEW O, Elided(U, O), NEW W, NEW Q,
           W = [U EXCEPT ![pos] = Names(used')], Flow(prog, mate, W, pos), Nested(prog, mate, W, eframes', Q, pos - 1),
           used' \in [Vars -> BOOLEAN], pos' = pos - 1, prog' = prog, mate' = mate,
           moved_out' \subseteq moved_out \cup {pos},
           pos \in moved_out' /\ prog[pos].k = "arg" => prog[pos].v \notin U[pos + 1]
    PROVE  Elided(W, Q)'
<1>1. prog \in Seq(Statement) /\ Len(prog) \in Nat /\ Closing(prog, mate) /\ Elses(prog, mate) /\ pos \in Nat
      /\ Positions(prog) \subseteq Nat /\ pos <= Len(prog)
  BY DEF Shape, Positions
<1>2. U \in [Nat -> SUBSET Vars] /\ U[Len(prog) + 1] = {}
  BY DEF Elided, Reading
<1>3. Names(used') \in SUBSET Vars
  BY DEF Names
<1>4. W \in [Nat -> SUBSET Vars] /\ W[pos] = Names(used') /\ \A q \in Nat : q # pos => W[q] = U[q]
  BY <1>1, <1>2, <1>3
<1>5. \A q \in Nat : pos < q => W[q] = U[q]
  BY <1>1, <1>4
<1>6. W[Len(prog) + 1] = {}
  BY <1>1, <1>2, <1>5
<1>7. ASSUME NEW p \in Positions(prog), p > pos - 1 PROVE Flow(prog, mate, W, p)
  <2>1. CASE p = pos
    BY <2>1
  <2>2. CASE p # pos
    <3>1. p \in Nat /\ p > pos
      BY <1>1, <1>7, <2>2
    <3>2. Flow(prog, mate, U, p)
      BY <3>1 DEF Elided
    <3>3. \A q \in Nat : p <= q => W[q] = U[q]
      BY <1>1, <1>5, <3>1
    <3>4. prog[p].k = "if" => p \in DOMAIN mate
      BY DEF AllClosed, Opens
    <3> QED
      BY <1>1, <3>2, <3>3, <3>4, FlowLocal
  <2> QED
    BY <2>1, <2>2
<1>8. W[(pos - 1) + 1] = Names(used')
  <2>1. (pos - 1) + 1 = pos
    BY <1>1
  <2> QED
    BY <1>4, <2>1
<1>9. ASSUME NEW i \in moved_out'
      PROVE  i \in Positions(prog) /\ (prog[i].k = "arg" => prog[i].v \notin W[i + 1] /\ i > pos - 1)
  <2>1. CASE i = pos
    <3>1. pos + 1 \in Nat /\ pos < pos + 1 /\ pos > pos - 1
      BY <1>1
    <3> QED
      BY <1>5, <1>9, <2>1, <3>1
  <2>2. CASE i # pos
    <3>1. i \in moved_out
      BY <1>9, <2>2
    <3>2. i \in Positions(prog) /\ (prog[i].k = "arg" => prog[i].v \notin U[i + 1] /\ i > pos)
      BY <3>1 DEF Elided, LastUses
    <3>3. i > pos => i + 1 \in Nat /\ pos < i + 1 /\ i > pos - 1
      BY <1>1, <3>2
    <3> QED
      BY <1>5, <3>2, <3>3
  <2> QED
    BY <2>1, <2>2
<1>10. /\ \A i \in moved_out' : prog[i].k = "arg" => i > pos - 1
       /\ LastUses(prog, W, moved_out')
  BY <1>9 DEF LastUses
<1> QED
  BY <1>4, <1>6, <1>7, <1>8, <1>10 DEF Elided, Reading

\* Reading a name, or nothing, or what a function says.
LEMMA NamesFacts ==
    ASSUME NEW f \in [Vars -> BOOLEAN]
    PROVE  /\ \A v \in Vars : [f EXCEPT ![v] = TRUE] \in [Vars -> BOOLEAN] /\ Names([f EXCEPT ![v] = TRUE]) = Names(f) \cup {v}
           /\ [v \in Vars |-> FALSE] \in [Vars -> BOOLEAN] /\ Names([v \in Vars |-> FALSE]) = {}
<1>1. ASSUME NEW v \in Vars PROVE [f EXCEPT ![v] = TRUE] \in [Vars -> BOOLEAN] /\ Names([f EXCEPT ![v] = TRUE]) = Names(f) \cup {v}
  BY DEF Names
<1>2. [v \in Vars |-> FALSE] \in [Vars -> BOOLEAN] /\ Names([v \in Vars |-> FALSE]) = {}
  BY DEF Names
<1> QED
  BY <1>1, <1>2

\* What a statement reads.
LEMMA ReadByFacts ==
    ASSUME NEW s \in Statement
    PROVE  /\ s.k \in {"bind", "arg", "move", "refill", "stmtmove", "movebin", "assign", "retv", "retmove"} =>
                 Source(s) \in Vars /\ ReadBy(s) = {Source(s)}
           /\ s.k = "ret" => ReadBy(s) = {}
           /\ s.k \in {"arg", "retv", "retmove"} => Source(s) = s.v
<1>1. NoVar \notin Vars
  BY ProgramAssumption
<1>2. ASSUME s.k \in {"bind", "arg", "move", "refill", "stmtmove", "movebin", "assign", "retv", "retmove"}
      PROVE  Source(s) \in Vars /\ ReadBy(s) = {Source(s)}
  <2>1. s.k \in Unary \cup Binary /\ s.k \notin {"decl", "set"}
    BY <1>2 DEF Unary, Binary
  <2>2. Source(s) \in Vars
    BY <2>1, Operands DEF Source
  <2> QED
    BY <2>1, <2>2 DEF ReadBy, Reads
<1>3. ASSUME s.k = "ret" PROVE ReadBy(s) = {}
  <2>1. s.k \notin Unary \cup Binary
    BY <1>3 DEF Unary, Binary
  <2>2. s.v = NoVar
    BY <2>1 DEF Statement
  <2> QED
    BY <1>1, <2>1, <2>2 DEF ReadBy, Reads, Source
<1>4. s.k \in {"arg", "retv", "retmove"} => Source(s) = s.v
  BY DEF Source, Binary
<1> QED
  BY <1>2, <1>3, <1>4

\* A statement that passes control on.
LEMMA FlowPlain ==
    ASSUME NEW P, NEW M, NEW W, NEW p, P[p].k \notin Returns \cup {"end", "else", "if"}, W[p] = W[p + 1] \cup ReadBy(P[p])
    PROVE  Flow(P, M, W, p)
  BY DEF Flow, Returns

\* What a step of the walk starts from.
LEMMA ElideFacts ==
    ASSUME Shape, AllClosed, pos \in Positions(prog), NEW U, NEW O, Elided(U, O)
    PROVE  /\ Closing(prog, mate) /\ Elses(prog, mate) /\ EStmt = prog[pos] /\ prog[pos] \in Statement /\ pos \in Nat
           /\ used \in [Vars -> BOOLEAN] /\ U[pos + 1] = Names(used) /\ Nested(prog, mate, U, eframes, O, pos)
<1>1. prog \in Seq(Statement) /\ Closing(prog, mate) /\ Elses(prog, mate) /\ pos \in Nat /\ Len(prog) \in Nat
  BY DEF Shape, Positions
<1>3. prog[pos] \in Statement
  BY <1>1 DEF Positions
<1> QED
  BY <1>1, <1>3 DEF Elided, EStmt

\* What the step changes in the solution.
LEMMA BackFacts ==
    ASSUME Shape, AllClosed, pos \in Positions(prog), NEW U, NEW O, Elided(U, O), NEW W, W = [U EXCEPT ![pos] = Names(used')]
    PROVE  (\A q \in Nat : pos < q => W[q] = U[q]) /\ W[pos] = Names(used') /\ W[pos + 1] = U[pos + 1]
<1>1. pos \in Nat
  BY DEF Shape, Positions
<1>2. U \in [Nat -> SUBSET Vars]
  BY DEF Elided, Reading
<1>4. (\A q \in Nat : pos < q => W[q] = U[q]) /\ W[pos] = Names(used')
  BY <1>1, <1>2
<1>5. pos + 1 \in Nat /\ pos < pos + 1
  BY <1>1
<1> QED
  BY <1>4, <1>5

\* The walk is inside the same ifs, in the same branch.
LEMMA NestedPlain ==
    ASSUME Shape, AllClosed, pos \in Positions(prog), NEW U, NEW O, Elided(U, O), NEW W, W = [U EXCEPT ![pos] = Names(used')],
           prog[pos].k \notin {"if", "else", "end"}, eframes' = eframes
    PROVE  Nested(prog, mate, W, eframes', O, pos - 1)
<1>1. /\ Closing(prog, mate) /\ Nested(prog, mate, U, eframes, O, pos) /\ \A q \in Nat : pos < q => W[q] = U[q]
  BY ElideFacts, BackFacts
<1>2. \A i \in DOMAIN mate : mate[i] # pos
  BY <1>1 DEF Closing
<1> QED
  BY <1>1, <1>2, NestedSame

Eliding(U, O) == Shape /\ AllClosed /\ pos \in Positions(prog) /\ Elided(U, O)


\* ew_consume_or_read: the source is tagged only when no later statement reads it.
LEMMA ConsumeElided ==
    ASSUME NEW U, NEW O, Eliding(U, O), ElideConsume
    PROVE  \E W, Q : Elided(W, Q)'
<1> DEFINE v == Source(EStmt)
<1>0. PICK W : W = [U EXCEPT ![pos] = Names(used')]
  OBVIOUS
<1>1. Shape /\ AllClosed /\ pos \in Positions(prog) /\ Elided(U, O)
  BY DEF Eliding
<1>2. /\ EStmt = prog[pos] /\ prog[pos] \in Statement /\ used \in [Vars -> BOOLEAN] /\ U[pos + 1] = Names(used)
  BY <1>1, ElideFacts
<1>w. (\A q \in Nat : pos < q => W[q] = U[q]) /\ W[pos] = Names(used') /\ W[pos + 1] = U[pos + 1]
  BY <1>0, <1>1, BackFacts
<1>3. /\ prog[pos].k \in {"bind", "arg", "move", "refill", "stmtmove", "movebin", "assign"}
      /\ Consume(v, used) /\ eframes' = eframes /\ pos' = pos - 1 /\ prog' = prog /\ mate' = mate
  BY <1>2, <1>w DEF ElideConsume, Back
<1>4. v \in Vars /\ ReadBy(prog[pos]) = {v} /\ (prog[pos].k = "arg" => prog[pos].v = v)
  BY <1>2, <1>w, <1>3, ReadByFacts
<1>5. prog[pos].k \notin Returns \cup {"if", "else", "end"}
  BY <1>3 DEF Returns
<1> HIDE DEF v
<1>6. used' = [used EXCEPT ![v] = TRUE] /\ moved_out' \subseteq moved_out \cup {pos}
      /\ (pos \in moved_out' => pos \in moved_out \/ ~used[v])
  BY <1>3 DEF Consume
<1>7. used' \in [Vars -> BOOLEAN] /\ Names(used') = Names(used) \cup {v}
  BY <1>2, <1>w, <1>4, <1>6, NamesFacts
<1>8. pos \in moved_out' /\ prog[pos].k = "arg" => prog[pos].v \notin U[pos + 1]
  <2>1. pos \in moved_out => prog[pos].k # "arg"
    <3>1. ~(pos > pos)
      BY <1>1 DEF Positions
    <3> QED
      BY <1>1, <3>1 DEF Elided
  <2>2. ~used[v] => v \notin U[pos + 1]
    BY <1>2, <1>w DEF Names
  <2> QED
    BY <1>4, <1>6, <2>1, <2>2
<1>9. Nested(prog, mate, W, eframes', O, pos - 1)
  BY <1>1, <1>3, <1>5, <1>0, NestedPlain
<1>10. Flow(prog, mate, W, pos)
  BY <1>2, <1>w, <1>4, <1>5, <1>7, FlowPlain
<1>11. Elided(W, O)'
  BY <1>1, <1>3, <1>6, <1>7, <1>8, <1>9, <1>10, <1>0, ElidedBack
<1> QED
  BY <1>11

\* Plain reads and loop heads.
LEMMA ReadElided ==
    ASSUME NEW U, NEW O, Eliding(U, O), ElideRead \/ ElideLoop
    PROVE  \E W, Q : Elided(W, Q)'
<1>0. PICK W : W = [U EXCEPT ![pos] = Names(used')]
  OBVIOUS
<1>1. Shape /\ AllClosed /\ pos \in Positions(prog) /\ Elided(U, O)
  BY DEF Eliding
<1>2. /\ EStmt = prog[pos] /\ used \in [Vars -> BOOLEAN] /\ U[pos + 1] = Names(used)
  BY <1>1, ElideFacts
<1>w. (\A q \in Nat : pos < q => W[q] = U[q]) /\ W[pos] = Names(used') /\ W[pos + 1] = U[pos + 1]
  BY <1>0, <1>1, BackFacts
<1>3. /\ prog[pos].k \in {"decl", "set", "use", "usebin", "assign"} \cup Exits \cup Loops
      /\ used' = [v \in Vars |-> used[v] \/ Reads(prog[pos], v)]
      /\ moved_out' = moved_out /\ eframes' = eframes /\ pos' = pos - 1 /\ prog' = prog /\ mate' = mate
  BY <1>2, <1>w DEF ElideRead, ElideLoop, Back
<1>4. prog[pos].k \notin Returns \cup {"if", "else", "end"}
  BY <1>3 DEF Returns, Exits, Loops
<1>5. used' \in [Vars -> BOOLEAN] /\ Names(used') = Names(used) \cup ReadBy(prog[pos])
  <2>1. \A v \in Vars : Reads(prog[pos], v) \in BOOLEAN
    BY DEF Reads
  <2>2. \A v \in Vars : (used[v] \/ Reads(prog[pos], v)) \in BOOLEAN
    BY <1>2, <1>w, <2>1
  <2>3. used' \in [Vars -> BOOLEAN]
    BY <1>3, <2>2
  <2>4. \A v \in Vars : used'[v] <=> used[v] \/ Reads(prog[pos], v)
    BY <1>2, <1>w, <1>3, <2>1
  <2> QED
    BY <2>3, <2>4 DEF Names, ReadBy
<1>6. pos \in moved_out' /\ prog[pos].k = "arg" => prog[pos].v \notin U[pos + 1]
  BY <1>3 DEF Exits, Loops
<1>7. Nested(prog, mate, W, eframes', O, pos - 1)
  BY <1>1, <1>3, <1>4, <1>0, NestedPlain
<1>8. Flow(prog, mate, W, pos)
  BY <1>2, <1>w, <1>4, <1>5, FlowPlain
<1>9. Elided(W, O)'
  BY <1>1, <1>3, <1>5, <1>6, <1>7, <1>8, <1>0, ElidedBack
<1> QED
  BY <1>9

\* A return: only what it returns is read.
LEMMA ReturnElided ==
    ASSUME NEW U, NEW O, Eliding(U, O), ElideReturn
    PROVE  \E W, Q : Elided(W, Q)'
<1> DEFINE none == [v \in Vars |-> FALSE]
<1>0. PICK W : W = [U EXCEPT ![pos] = Names(used')]
  OBVIOUS
<1>1. Shape /\ AllClosed /\ pos \in Positions(prog) /\ Elided(U, O)
  BY DEF Eliding
<1>2. /\ EStmt = prog[pos] /\ prog[pos] \in Statement /\ used \in [Vars -> BOOLEAN] /\ U[pos + 1] = Names(used)
  BY <1>1, ElideFacts
<1>w. (\A q \in Nat : pos < q => W[q] = U[q]) /\ W[pos] = Names(used') /\ W[pos + 1] = U[pos + 1]
  BY <1>0, <1>1, BackFacts
<1>3. /\ prog[pos].k \in Returns /\ eframes' = eframes /\ pos' = pos - 1 /\ prog' = prog /\ mate' = mate
      /\ prog[pos].k = "ret" => used' = none /\ moved_out' = moved_out
      /\ prog[pos].k # "ret" => Consume(prog[pos].v, none)
  BY <1>2, <1>w DEF ElideReturn, Back
<1>4. none \in [Vars -> BOOLEAN] /\ Names(none) = {}
  BY <1>2, <1>w, NamesFacts
<1> HIDE DEF none
<1>5. /\ used' \in [Vars -> BOOLEAN] /\ Names(used') = ReadBy(prog[pos])
      /\ moved_out' \subseteq moved_out \cup {pos}
  <2>1. CASE prog[pos].k = "ret"
    BY <1>2, <1>w, <1>3, <1>4, <2>1, ReadByFacts
  <2>2. CASE prog[pos].k # "ret"
    <3>1. prog[pos].k \in {"retv", "retmove"}
      BY <1>3, <2>2 DEF Returns
    <3>2. prog[pos].v \in Vars /\ ReadBy(prog[pos]) = {prog[pos].v}
      BY <1>2, <1>w, <3>1, ReadByFacts
    <3>3. used' = [none EXCEPT ![prog[pos].v] = TRUE] /\ moved_out' \subseteq moved_out \cup {pos}
      BY <1>3, <2>2 DEF Consume
    <3>4. used' \in [Vars -> BOOLEAN] /\ Names(used') = Names(none) \cup {prog[pos].v}
      BY <1>4, <3>2, <3>3, NamesFacts
    <3> QED
      BY <1>4, <3>2, <3>3, <3>4
  <2> QED
    BY <2>1, <2>2
<1>6. prog[pos].k \notin {"if", "else", "end"} /\ prog[pos].k # "arg"
  BY <1>3 DEF Returns
<1>7. Nested(prog, mate, W, eframes', O, pos - 1)
  BY <1>1, <1>3, <1>6, <1>0, NestedPlain
<1>8. Flow(prog, mate, W, pos)
  BY <1>2, <1>w, <1>3, <1>5, <1>6 DEF Flow
<1>9. Elided(W, O)'
  BY <1>1, <1>3, <1>5, <1>6, <1>7, <1>8, <1>0, ElidedBack
<1> QED
  BY <1>9

\* The end of a block.
LEMMA EndElided ==
    ASSUME NEW U, NEW O, Eliding(U, O), ElideEnd
    PROVE  \E W, Q : Elided(W, Q)'
<1>0. PICK W : W = [U EXCEPT ![pos] = Names(used')]
  OBVIOUS
<1>1. Shape /\ AllClosed /\ pos \in Positions(prog) /\ Elided(U, O)
  BY DEF Eliding
<1>2. /\ Closing(prog, mate) /\ EStmt = prog[pos] /\ used \in [Vars -> BOOLEAN]
      /\ Nested(prog, mate, U, eframes, O, pos) /\ pos \in Nat /\ U[pos + 1] = Names(used)
  BY <1>1, ElideFacts
<1>w. (\A q \in Nat : pos < q => W[q] = U[q]) /\ W[pos] = Names(used') /\ W[pos + 1] = U[pos + 1]
  BY <1>0, <1>1, BackFacts
<1>3. prog[pos].k = "end"
  BY <1>2, <1>w DEF ElideEnd
<1>4. PICK i \in DOMAIN mate : mate[i] = pos
  BY <1>1, <1>2, <1>w, <1>3 DEF Closing
<1>5. \A h \in DOMAIN mate : mate[h] = pos => h = i
  BY <1>2, <1>w, <1>4, OneOpener
<1>6. Opener(pos) = i
  BY <1>4, <1>5 DEF Opener
<1>7. prog[i].k \in Opens
  BY <1>2, <1>w, <1>4 DEF Closing
<1>8. /\ prog[i].k \in Loops => used' = [v \in Vars |-> used[v] \/ LoopPreset(i, v)] /\ eframes' = eframes
      /\ prog[i].k \notin Loops => used' = used /\ eframes' = Append(eframes, [after |-> used, other |-> used])
      /\ moved_out' = moved_out /\ pos' = pos - 1 /\ prog' = prog /\ mate' = mate
  BY <1>6 DEF ElideEnd, Back
<1>9. /\ used' \in [Vars -> BOOLEAN]
      /\ Names(used') = Names(used) \cup (IF prog[i].k \in Loops THEN LoopKeeps(prog, mate, i) ELSE {})
  <2>1. CASE prog[i].k \in Loops
    <3>1. \A v \in Vars : LoopPreset(i, v) \in BOOLEAN /\ (LoopPreset(i, v) <=> v \in LoopKeeps(prog, mate, i))
      BY DEF LoopPreset, LoopKeeps
    <3>2. \A v \in Vars : (used[v] \/ LoopPreset(i, v)) \in BOOLEAN
      BY <1>2, <1>w, <3>1
    <3>3. used' \in [Vars -> BOOLEAN]
      BY <1>8, <2>1, <3>2
    <3>4. \A v \in Vars : used'[v] <=> used[v] \/ v \in LoopKeeps(prog, mate, i)
      BY <1>2, <1>w, <1>8, <2>1, <3>1
    <3>5. LoopKeeps(prog, mate, i) \subseteq Vars
      BY DEF LoopKeeps
    <3> QED
      BY <2>1, <3>3, <3>4, <3>5 DEF Names
  <2>2. CASE prog[i].k \notin Loops
    BY <1>2, <1>w, <1>8, <2>2
  <2> QED
    BY <2>1, <2>2
<1>10. Flow(prog, mate, W, pos)
  BY <1>2, <1>w, <1>3, <1>5, <1>9 DEF Flow, Returns
<1>11. CASE prog[i].k \in Loops
  <2>1. \A h \in DOMAIN mate : mate[h] = pos => prog[h].k # "if"
    BY <1>5, <1>11 DEF Loops
  <2>2. Nested(prog, mate, W, eframes', O, pos - 1)
    BY <1>1, <1>2, <1>w, <1>3, <1>8, <1>11, <2>1, NestedSame
  <2>3. Elided(W, O)'
    BY <1>1, <1>3, <1>8, <1>9, <1>10, <2>2, <1>0, ElidedBack
  <2> QED
    BY <2>3
<1>12. CASE prog[i].k \notin Loops
  <2>1. prog[i].k = "if"
    BY <1>7, <1>12 DEF Opens
  <2>2. Nested(prog, mate, W, eframes', Append(O, i), pos - 1)
    <3>1. /\ \A q \in Nat : mate[i] < q => W[q] = U[q]
          /\ Nested(prog, mate, U, eframes, O, mate[i]) /\ Names(used) = U[mate[i] + 1]
      BY <1>2, <1>w, <1>4
    <3>2. Nested(prog, mate, W, Append(eframes, [after |-> used, other |-> used]), Append(O, i), mate[i] - 1)
      BY <1>2, <2>1, <3>1, NestedPush
    <3> QED
      BY <1>4, <1>8, <1>12, <3>2
  <2>3. Elided(W, Append(O, i))'
    BY <1>1, <1>3, <1>8, <1>9, <1>10, <2>2, <1>0, ElidedBack
  <2> QED
    BY <2>3
<1> QED
  BY <1>11, <1>12

\* Between the branches.
LEMMA ElseElided ==
    ASSUME NEW U, NEW O, Eliding(U, O), ElideElse
    PROVE  \E W, Q : Elided(W, Q)'
<1>0. PICK W : W = [U EXCEPT ![pos] = Names(used')]
  OBVIOUS
<1>1. Shape /\ AllClosed /\ pos \in Positions(prog) /\ Elided(U, O)
  BY DEF Eliding
<1>2. /\ Closing(prog, mate) /\ Elses(prog, mate) /\ EStmt = prog[pos] /\ used \in [Vars -> BOOLEAN]
      /\ Nested(prog, mate, U, eframes, O, pos) /\ pos \in Nat /\ U[pos + 1] = Names(used)
  BY <1>1, ElideFacts
<1>w. (\A q \in Nat : pos < q => W[q] = U[q]) /\ W[pos] = Names(used') /\ W[pos + 1] = U[pos + 1]
  BY <1>0, <1>1, BackFacts
<1>3. /\ prog[pos].k = "else" /\ eframes' = Append(EPop, [ETop EXCEPT !.other = used]) /\ used' = ETop.after
      /\ moved_out' = moved_out /\ pos' = pos - 1 /\ prog' = prog /\ mate' = mate
  BY <1>2, <1>w DEF ElideElse, Back
<1>4. PICK i \in IfsAt(prog, mate, pos) : ElseAt(prog, mate, i, pos) /\ \A h \in IfsAt(prog, mate, pos) : h <= i
  BY <1>1, <1>2, <1>w, <1>3, IfsElse DEF AllClosed
<1>5. i \in Nat /\ i \in DOMAIN mate /\ mate[i] \in Nat /\ pos < mate[i]
  BY <1>2, <1>w, <1>4, IfsFacts
<1>6. ETop \in EFrame /\ Held(prog, mate, U, i, ETop, pos)
  BY <1>2, <1>w, <1>4, <1>5, NestedTop DEF ETop
<1>7. used' \in [Vars -> BOOLEAN] /\ Names(used') = U[mate[i] + 1]
  BY <1>3, <1>6 DEF EFrame, Held
<1>8. Nested(prog, mate, W, eframes', O, pos - 1)
  BY <1>1, <1>2, <1>w, <1>3, <1>4, NestedElse DEF EPop, ETop
<1>9. W[mate[i] + 1] = U[mate[i] + 1]
  <2>1. mate[i] + 1 \in Nat /\ pos < mate[i] + 1
    BY <1>2, <1>w, <1>5
  <2> QED
    BY <1>2, <1>w, <2>1
<1>10. \A h \in DOMAIN mate : ElseAt(prog, mate, h, pos) => h = i
  BY <1>2, <1>w, <1>4, <1>5, OneOwner, Numbers
<1>11. Flow(prog, mate, W, pos)
  BY <1>2, <1>w, <1>3, <1>7, <1>9, <1>10 DEF Flow, Returns
<1>12. Elided(W, O)'
  BY <1>1, <1>3, <1>7, <1>8, <1>11, <1>0, ElidedBack
<1> QED
  BY <1>12

\* The head of an if: what either branch reads.
LEMMA IfElided ==
    ASSUME NEW U, NEW O, Eliding(U, O), ElideIf
    PROVE  \E W, Q : Elided(W, Q)'
<1>0. PICK W : W = [U EXCEPT ![pos] = Names(used')]
  OBVIOUS
<1>1. Shape /\ AllClosed /\ pos \in Positions(prog) /\ Elided(U, O)
  BY DEF Eliding
<1>2. /\ Closing(prog, mate) /\ Elses(prog, mate) /\ EStmt = prog[pos] /\ used \in [Vars -> BOOLEAN]
      /\ Nested(prog, mate, U, eframes, O, pos) /\ pos \in Nat /\ U[pos + 1] = Names(used)
  BY <1>1, ElideFacts
<1>w. (\A q \in Nat : pos < q => W[q] = U[q]) /\ W[pos] = Names(used') /\ W[pos + 1] = U[pos + 1]
  BY <1>0, <1>1, BackFacts
<1>3. /\ prog[pos].k = "if" /\ eframes' = EPop /\ used' = [v \in Vars |-> used[v] \/ ETop.other[v]]
      /\ moved_out' = moved_out /\ pos' = pos - 1 /\ prog' = prog /\ mate' = mate
  BY <1>2, <1>w DEF ElideIf, Back
<1>4. pos \in DOMAIN mate /\ mate[pos] \in Nat /\ pos < mate[pos]
  BY <1>1, <1>2, <1>w, <1>3, Numbers DEF AllClosed, Opens, Closing
<1>5. pos \in IfsAt(prog, mate, pos) /\ \A h \in IfsAt(prog, mate, pos) : h <= pos
  BY <1>2, <1>w, <1>3, <1>4, IfsOpen
<1>6. ETop \in EFrame /\ Held(prog, mate, U, pos, ETop, pos)
  BY <1>2, <1>w, <1>5, NestedTop DEF ETop
<1>7. used' \in [Vars -> BOOLEAN] /\ Names(used') = Names(used) \cup Names(ETop.other)
  <2>1. ETop.other \in [Vars -> BOOLEAN]
    BY <1>6 DEF EFrame
  <2>2. \A v \in Vars : (used[v] \/ ETop.other[v]) \in BOOLEAN
    BY <1>2, <1>w, <2>1
  <2>3. \A v \in Vars : used'[v] <=> used[v] \/ ETop.other[v]
    BY <1>2, <1>w, <1>3, <2>1
  <2>4. used' \in [Vars -> BOOLEAN]
    BY <1>3, <2>2
  <2> QED
    BY <2>3, <2>4 DEF Names
<1>8. Nested(prog, mate, W, eframes', SubSeq(O, 1, Len(O) - 1), pos - 1)
  BY <1>2, <1>w, <1>3, <1>4, NestedPop DEF EPop
<1>9. W[mate[pos] + 1] = U[mate[pos] + 1]
  <2>1. mate[pos] + 1 \in Nat /\ pos < mate[pos] + 1
    BY <1>2, <1>w, <1>4
  <2> QED
    BY <1>2, <1>w, <2>1
<1>10. ASSUME NEW e, ElseAt(prog, mate, pos, e) PROVE pos < e /\ e \in Nat /\ W[e + 1] = U[e + 1]
  <2>1. e \in Nat /\ pos < e
    BY <1>2, <1>w, <1>10, Numbers DEF ElseAt, Around
  <2>2. e + 1 \in Nat /\ pos < e + 1
    BY <1>2, <1>w, <2>1
  <2> QED
    BY <1>2, <1>w, <2>1, <2>2
<1>11. \A e : ElseAt(prog, mate, pos, e) => W[pos] = W[pos + 1] \cup W[e + 1]
  BY <1>2, <1>w, <1>6, <1>7, <1>10 DEF Held
<1>12. (\A e : ~ElseAt(prog, mate, pos, e)) => W[pos] = W[pos + 1] \cup W[mate[pos] + 1]
  BY <1>2, <1>w, <1>6, <1>7, <1>9 DEF Held
<1>13. Flow(prog, mate, W, pos)
  BY <1>3, <1>11, <1>12 DEF Flow, Returns
<1>14. Elided(W, SubSeq(O, 1, Len(O) - 1))'
  BY <1>1, <1>3, <1>7, <1>8, <1>13, <1>0, ElidedBack
<1> QED
  BY <1>14

\* Every step of the backward walk keeps U a solution of the equations behind it.
LEMMA ElideKeeps ==
    ASSUME NEW U, NEW O, Eliding(U, O), ElideStmt
    PROVE  \E W, Q : Elided(W, Q)'
  BY ConsumeElided, ReadElided, ReturnElided, EndElided, ElseElided, IfElided DEF ElideStmt

-----------------------------------------------------------------------------
(* What is not read later at a point is not read later at the next one. *)

\* A whole program, with a solution of the equations.
Solved(P, M, U) ==
    /\ P \in Seq(Statement) /\ Closing(P, M) /\ Elses(P, M) /\ DOMAIN M = {i \in Positions(P) : P[i].k \in Opens}
    /\ Sane(P, M)
    /\ \A p \in Positions(P) : Flow(P, M, U, p)

\* The then branch x is in, inside the loop at l, is one that returns.
Killed(P, M, l, x) ==
    \E t, r \in Positions(P) :
       /\ P[t].k = "if" /\ P[r].k \in Returns /\ Around(P, M, r) = Around(P, M, t) \cup {t}
       /\ ~InElse(P, M, t, r) /\ l \in Around(P, M, t) /\ t < x /\ x <= r

\* Where control can go from inside the block at l.
LEMMA InsideFacts ==
    ASSUME NEW P, NEW M, NEW U, Solved(P, M, U), NEW l \in DOMAIN M, NEW x \in Nat, l < x, x < M[l]
    PROVE  /\ x \in Positions(P) /\ l \in Around(P, M, x) /\ x + 1 <= M[l] /\ Flow(P, M, U, x) /\ P[x] \in Statement
           /\ \A i \in DOMAIN M : M[i] = x => l < i
           /\ P[x].k \in Opens => x \in DOMAIN M /\ M[x] \in Nat /\ x < M[x] /\ M[x] < M[l]
           /\ \A e : ElseAt(P, M, x, e) => P[x].k = "if" /\ e \in Nat /\ x < e /\ e < M[x]
           /\ P[l].k \in Loops => \A i \in DOMAIN M : ElseAt(P, M, i, x) => l \in Around(P, M, i) /\ M[i] \in Nat /\ x < M[i] /\ M[i] < M[l]
<1>0. /\ P \in Seq(Statement) /\ Closing(P, M) /\ Elses(P, M) /\ DOMAIN M = {i \in Positions(P) : P[i].k \in Opens}
      /\ \A p \in Positions(P) : Flow(P, M, U, p)
  BY DEF Solved
<1>1. /\ l \in Nat /\ l \in Positions(P) /\ M[l] \in Nat /\ M[l] \in Positions(P) /\ P[l].k \in Opens /\ P[M[l]].k = "end"
      /\ Positions(P) \subseteq Nat /\ Len(P) \in Nat
  BY <1>0, Numbers DEF Closing
<1>2. x \in Positions(P) /\ x + 1 <= M[l] /\ x <= M[l]
  BY <1>1 DEF Positions
<1>3. l \in Around(P, M, x) /\ P[x] \in Statement
  BY <1>0, <1>1, <1>2 DEF Around, Positions
<1>4. ASSUME NEW i \in DOMAIN M, M[i] = x PROVE l < i
  <2>1. Around(P, M, x) = Around(P, M, i) \cup {i}
    BY <1>0, <1>4, AroundEnd
  <2>2. l # i
    BY <1>1, <1>4
  <2> QED
    BY <1>3, <2>1, <2>2 DEF Around
<1>5. ASSUME P[x].k \in Opens PROVE x \in DOMAIN M /\ M[x] \in Nat /\ x < M[x] /\ M[x] < M[l]
  BY <1>0, <1>1, <1>2, <1>5, Numbers DEF Closing
<1>6. ASSUME NEW e, ElseAt(P, M, x, e) PROVE P[x].k = "if" /\ e \in Nat /\ x < e /\ e < M[x]
  <2>1. P[x].k = "if"
    BY <1>0, <1>6, NoElseOfLoop
  <2>2. x \in DOMAIN M /\ M[x] \in Nat
    BY <1>5, <2>1 DEF Opens
  <2>3. e \in Nat /\ x < e /\ e <= M[x] /\ P[e].k = "else"
    BY <1>0, <1>1, <1>6, <2>2 DEF ElseAt, Around
  <2>4. e # M[x]
    BY <1>0, <2>2, <2>3 DEF Closing
  <2> QED
    BY <2>1, <2>2, <2>3, <2>4
<1>7. ASSUME P[l].k \in Loops, NEW i \in DOMAIN M, ElseAt(P, M, i, x)
      PROVE  l \in Around(P, M, i) /\ M[i] \in Nat /\ x < M[i] /\ M[i] < M[l]
  <2>1. i \in Nat /\ M[i] \in Nat /\ i \in Positions(P) /\ P[i].k \in Opens /\ P[M[i]].k = "end"
    BY <1>0, Numbers DEF Closing
  <2>2. P[i].k = "if"
    BY <1>0, <1>7, <2>1, NoElseOfLoop
  <2>3. l # i
    BY <1>7, <2>2 DEF Loops
  <2>4. l \in Around(P, M, i)
    BY <1>3, <1>7, <2>3 DEF ElseAt
  <2>5. x <= M[i] /\ x # M[i]
    BY <1>7, <2>1 DEF ElseAt, Around
  <2>6. l < i /\ i <= M[l]
    BY <2>4 DEF Around
  <2>7. M[i] < M[l]
    BY <1>0, <2>1, <2>6 DEF Closing
  <2> QED
    BY <2>1, <2>4, <2>5, <2>7
<1> QED
  BY <1>0, <1>2, <1>3, <1>4, <1>5, <1>6, <1>7

\* A name that a loop does not mention and nothing behind it reads is read at no
\* point in it.
LEMMA LoopReadsNot ==
    ASSUME NEW P, NEW M, NEW U, Solved(P, M, U), NEW l \in DOMAIN M, P[l].k \in Loops, NEW v \in Vars,
           \A j \in l .. M[l] : ~Mentions(P[j], v), v \notin U[M[l] + 1]
    PROVE  v \notin U[l]
<1> SUFFICES ASSUME v \in U[l] PROVE FALSE
  OBVIOUS
<1>0. /\ P \in Seq(Statement) /\ Closing(P, M) /\ Elses(P, M) /\ DOMAIN M = {i \in Positions(P) : P[i].k \in Opens}
      /\ \A p \in Positions(P) : Flow(P, M, U, p)
  BY DEF Solved
<1>1. /\ l \in Nat /\ l \in Positions(P) /\ M[l] \in Nat /\ M[l] \in Positions(P) /\ l < M[l] /\ P[M[l]].k = "end"
      /\ Positions(P) \subseteq Nat /\ Len(P) \in Nat /\ M[l] <= Len(P) /\ 1 <= l
  BY <1>0, Numbers DEF Closing, Positions
<1> DEFINE S == {x \in l .. M[l] : v \in U[x]}
<1>2. S \subseteq 1 .. Len(P) /\ l \in S
  BY <1>1
<1>3. PICK x \in S : \A j \in S : j <= x
  BY <1>1, <1>2, LastOf
<1>4. x \in Nat /\ l <= x /\ x <= M[l] /\ v \in U[x]
  BY <1>1, <1>3
<1>5. \A y \in Nat : x < y /\ y <= M[l] => v \notin U[y]
  BY <1>1, <1>3, <1>4
<1> HIDE DEF S
<1>6. v \notin ReadBy(P[x])
  BY <1>1, <1>4 DEF ReadBy, Mentions
<1>7. CASE x = M[l]
  <2>1. Flow(P, M, U, x) /\ P[x].k = "end"
    BY <1>0, <1>1, <1>7
  <2>2. U[x] = U[x + 1] \cup LoopKeeps(P, M, l)
    BY <1>7, <2>1 DEF Flow
  <2>3. v \notin LoopKeeps(P, M, l)
    BY DEF LoopKeeps
  <2> QED
    BY <1>4, <1>7, <2>2, <2>3
<1>8. CASE x = l
  <2>1. Flow(P, M, U, x) /\ P[x].k \notin Returns \cup {"end", "else", "if"}
    BY <1>0, <1>1, <1>8 DEF Loops, Returns
  <2>2. U[x] = U[x + 1] \cup ReadBy(P[x])
    BY <2>1 DEF Flow
  <2>3. x + 1 \in Nat /\ x < x + 1 /\ x + 1 <= M[l]
    BY <1>1, <1>8
  <2> QED
    BY <1>4, <1>5, <1>6, <2>2, <2>3
<1>9. CASE l < x /\ x < M[l]
  <2>1. /\ x + 1 <= M[l] /\ Flow(P, M, U, x) /\ x \in Positions(P)
        /\ \A i \in DOMAIN M : M[i] = x => l < i
        /\ P[x].k \in Opens => x \in DOMAIN M /\ M[x] \in Nat /\ x < M[x] /\ M[x] < M[l]
        /\ \A e : ElseAt(P, M, x, e) => e \in Nat /\ x < e /\ e < M[x]
        /\ \A i \in DOMAIN M : ElseAt(P, M, i, x) => M[i] \in Nat /\ x < M[i] /\ M[i] < M[l]
    BY <1>4, <1>9, InsideFacts
  <2>2. v \notin U[x + 1]
    BY <1>4, <1>5, <2>1
  <2>3. CASE P[x].k \notin Returns \cup {"end", "else", "if"}
    BY <1>4, <1>6, <2>1, <2>2, <2>3 DEF Flow
  <2>4. CASE P[x].k \in Returns
    BY <1>4, <1>6, <2>1, <2>4 DEF Flow
  <2>5. CASE P[x].k = "end"
    <3>1. PICK i \in DOMAIN M : M[i] = x
      BY <1>0, <2>1, <2>5 DEF Closing
    <3>2. i \in Nat /\ l < i
      BY <1>0, <2>1, <3>1, Numbers
    <3>3. \A j \in i .. M[i] : j \in l .. M[l]
      BY <1>1, <1>4, <1>9, <3>1, <3>2
    <3>4. v \notin LoopKeeps(P, M, i)
      BY <3>3 DEF LoopKeeps
    <3>5. U[x] = U[x + 1] \cup (IF P[i].k \in Loops THEN LoopKeeps(P, M, i) ELSE {})
      BY <2>1, <2>5, <3>1 DEF Flow
    <3> QED
      BY <1>4, <2>2, <3>4, <3>5
  <2>6. CASE P[x].k = "else"
    <3>1. PICK i \in Positions(P) : P[i].k = "if" /\ ElseAt(P, M, i, x)
      BY <1>0, <2>1, <2>6 DEF Elses, ElseAt
    <3>2. i \in DOMAIN M
      BY <1>0, <3>1 DEF Opens
    <3>3. U[x] = U[M[i] + 1]
      BY <2>1, <2>6, <3>1, <3>2 DEF Flow
    <3>4. M[i] \in Nat /\ x < M[i] /\ M[i] < M[l]
      BY <2>1, <3>1, <3>2
    <3>5. M[i] + 1 \in Nat /\ x < M[i] + 1 /\ M[i] + 1 <= M[l]
      BY <1>1, <1>4, <3>4
    <3> QED
      BY <1>4, <1>5, <3>3, <3>5
  <2>7. CASE P[x].k = "if"
    <3>1. M[x] \in Nat /\ x < M[x] /\ M[x] < M[l]
      BY <2>1, <2>7 DEF Opens
    <3>2. M[x] + 1 \in Nat /\ x < M[x] + 1 /\ M[x] + 1 <= M[l]
      BY <1>1, <1>4, <3>1
    <3>3. CASE \A e : ~ElseAt(P, M, x, e)
      <4>1. U[x] = U[x + 1] \cup U[M[x] + 1]
        BY <2>1, <2>7, <3>3 DEF Flow
      <4> QED
        BY <1>4, <1>5, <2>2, <3>2, <4>1
    <3>4. ASSUME NEW e, ElseAt(P, M, x, e) PROVE FALSE
      <4>1. U[x] = U[x + 1] \cup U[e + 1]
        BY <2>1, <2>7, <3>4 DEF Flow
      <4>2. e \in Nat /\ x < e /\ e < M[x]
        BY <2>1, <3>4
      <4>3. e + 1 \in Nat /\ x < e + 1 /\ e + 1 <= M[l]
        BY <1>1, <1>4, <3>1, <4>2
      <4> QED
        BY <1>4, <1>5, <2>2, <4>1, <4>3
    <3> QED
      BY <3>3, <3>4
  <2> QED
    BY <2>3, <2>4, <2>5, <2>6, <2>7
<1> QED
  BY <1>1, <1>4, <1>7, <1>8, <1>9

\* A branch that returns and is entered behind x.
LEMMA KilledLater ==
    ASSUME NEW P, NEW M, NEW U, Solved(P, M, U), NEW l, NEW x \in Nat, NEW y \in Nat, x < y,
           Killed(P, M, l, y), ~Killed(P, M, l, x)
    PROVE  \E t, r \in Positions(P) :
              /\ P[t].k = "if" /\ P[r].k \in Returns /\ t \in DOMAIN M /\ t \in Nat /\ r \in Nat /\ M[t] \in Nat
              /\ x <= t /\ t < y /\ y <= r /\ r < M[t] /\ ~InElse(P, M, t, r)
<1>0. Closing(P, M) /\ DOMAIN M = {i \in Positions(P) : P[i].k \in Opens}
  BY DEF Solved
<1>1. PICK t, r \in Positions(P) :
        /\ P[t].k = "if" /\ P[r].k \in Returns /\ Around(P, M, r) = Around(P, M, t) \cup {t}
        /\ ~InElse(P, M, t, r) /\ l \in Around(P, M, t) /\ t < y /\ y <= r
  BY DEF Killed
<1>2. t \in DOMAIN M /\ t \in Nat /\ r \in Nat /\ M[t] \in Nat /\ P[M[t]].k = "end"
  BY <1>0, <1>1, Numbers DEF Opens, Closing
<1>3. x <= r
  BY <1>1, <1>2
<1>4. ~(t < x)
  BY <1>1, <1>3 DEF Killed
<1>5. x <= t
  BY <1>2, <1>4
<1>6. r <= M[t] /\ r # M[t]
  BY <1>1, <1>2 DEF Around, Returns
<1>7. r < M[t]
  BY <1>2, <1>6
<1> QED
  BY <1>1, <1>2, <1>5, <1>7

\* What is read behind a loop, or in its next round, is read later from every
\* point in the loop that does not lead to a return.
LEMMA LoopReads ==
    ASSUME NEW P, NEW M, NEW U, Solved(P, M, U), NEW l \in DOMAIN M, P[l].k \in Loops, NEW v \in U[M[l]],
           NEW z \in Nat, l < z, z <= M[l], ~Killed(P, M, l, z)
    PROVE  v \in U[z]
<1> SUFFICES ASSUME v \notin U[z] PROVE FALSE
  OBVIOUS
<1>0. /\ P \in Seq(Statement) /\ Closing(P, M) /\ Elses(P, M) /\ DOMAIN M = {i \in Positions(P) : P[i].k \in Opens}
      /\ Sane(P, M)
  BY DEF Solved
<1>1. /\ l \in Nat /\ l \in Positions(P) /\ M[l] \in Nat /\ M[l] \in Positions(P) /\ l < M[l] /\ P[M[l]].k = "end"
      /\ Positions(P) \subseteq Nat /\ Len(P) \in Nat /\ M[l] <= Len(P) /\ 1 <= l
  BY <1>0, Numbers DEF Closing, Positions
<1> DEFINE S == {x \in l + 1 .. M[l] : ~Killed(P, M, l, x) /\ v \notin U[x]}
<1>2. S \subseteq 1 .. Len(P) /\ z \in S
  BY <1>1
<1>3. PICK x \in S : \A j \in S : j <= x
  BY <1>1, <1>2, LastOf
<1>4. x \in Nat /\ l < x /\ x <= M[l] /\ v \notin U[x] /\ ~Killed(P, M, l, x)
  BY <1>1, <1>3
<1>5. ASSUME NEW y \in Nat, x < y, y <= M[l], ~Killed(P, M, l, y) PROVE v \in U[y]
  <2>1. y \in l + 1 .. M[l] /\ ~(y <= x)
    BY <1>1, <1>4, <1>5
  <2> QED
    BY <1>3, <1>5, <2>1
<1> HIDE DEF S
<1>6. x < M[l]
  BY <1>1, <1>4
<1>7. /\ x + 1 <= M[l] /\ Flow(P, M, U, x) /\ x \in Positions(P) /\ l \in Around(P, M, x)
      /\ \A i \in DOMAIN M : M[i] = x => l < i
      /\ P[x].k \in Opens => x \in DOMAIN M /\ M[x] \in Nat /\ x < M[x] /\ M[x] < M[l]
      /\ \A e : ElseAt(P, M, x, e) => e \in Nat /\ x < e /\ e < M[x]
      /\ \A i \in DOMAIN M : ElseAt(P, M, i, x) => l \in Around(P, M, i) /\ M[i] \in Nat /\ x < M[i] /\ M[i] < M[l]
  BY <1>4, <1>6, InsideFacts
<1>8. x + 1 \in Nat /\ x < x + 1
  BY <1>4
<1>9. ASSUME P[x].k # "if" PROVE v \in U[x + 1]
  <2>1. ~Killed(P, M, l, x + 1)
    <3> SUFFICES ASSUME Killed(P, M, l, x + 1) PROVE FALSE
      OBVIOUS
    <3>1. PICK t, r \in Positions(P) : P[t].k = "if" /\ t \in Nat /\ x <= t /\ t < x + 1
      BY <1>4, <1>8, KilledLater
    <3>2. t = x
      BY <1>4, <3>1
    <3> QED
      BY <1>9, <3>1, <3>2
  <2> QED
    BY <1>5, <1>7, <1>8, <2>1
<1>10. CASE P[x].k \notin Returns \cup {"end", "else", "if"}
  BY <1>4, <1>7, <1>9, <1>10 DEF Flow
<1>11. CASE P[x].k \in Returns
  <2>1. SaneAt(P, M, x)
    BY <1>0, <1>7 DEF Sane
  <2>2. PICK t \in Around(P, M, x) : P[t].k = "if" /\ Around(P, M, x) = Around(P, M, t) \cup {t} /\ ~InElse(P, M, t, x)
    BY <1>7, <1>11, <2>1 DEF SaneAt
  <2>3. t \in Positions(P) /\ t < x /\ x <= x
    BY <1>4 DEF Around
  <2>4. l # t
    BY <2>2 DEF Loops
  <2>5. l \in Around(P, M, t)
    BY <1>7, <2>2, <2>4
  <2> QED
    BY <1>4, <1>7, <1>11, <2>2, <2>3, <2>5 DEF Killed
<1>12. CASE P[x].k = "end"
  <2>1. PICK i \in DOMAIN M : M[i] = x
    BY <1>0, <1>7, <1>12 DEF Closing
  <2>2. U[x + 1] \subseteq U[x]
    BY <1>7, <1>12, <2>1 DEF Flow
  <2> QED
    BY <1>4, <1>9, <1>12, <2>2
<1>13. CASE P[x].k = "else"
  <2>1. PICK i \in Positions(P) : P[i].k = "if" /\ ElseAt(P, M, i, x)
    BY <1>0, <1>7, <1>13 DEF Elses, ElseAt
  <2>2. i \in DOMAIN M /\ i \in Nat
    BY <1>0, <1>1, <2>1 DEF Opens
  <2>3. U[x] = U[M[i] + 1]
    BY <1>7, <1>13, <2>1, <2>2 DEF Flow
  <2>4. M[i] \in Nat /\ x < M[i] /\ M[i] < M[l]
    BY <1>7, <2>1, <2>2
  <2>5. M[i] + 1 \in Nat /\ x < M[i] + 1 /\ M[i] + 1 <= M[l]
    BY <1>1, <1>4, <2>4
  <2>6. ~Killed(P, M, l, M[i] + 1)
    <3> SUFFICES ASSUME Killed(P, M, l, M[i] + 1) PROVE FALSE
      OBVIOUS
    <3>1. PICK t, r \in Positions(P) :
            /\ P[t].k = "if" /\ t \in DOMAIN M /\ t \in Nat /\ r \in Nat /\ M[t] \in Nat
            /\ x <= t /\ t < M[i] + 1 /\ M[i] + 1 <= r /\ r < M[t]
      BY <1>4, <2>5, KilledLater
    <3>2. i < x
      BY <2>1 DEF ElseAt, Around
    <3>3. i < t /\ t <= M[i] /\ M[i] < M[t]
      BY <1>4, <2>2, <2>4, <3>1, <3>2
    <3>4. P[t].k \in Opens
      BY <3>1 DEF Opens
    <3>5. M[t] < M[i]
      BY <1>0, <2>2, <3>1, <3>3, <3>4 DEF Closing
    <3> QED
      BY <2>4, <3>1, <3>3, <3>5
  <2> QED
    BY <1>4, <1>5, <2>3, <2>5, <2>6
<1>14. CASE P[x].k = "if"
  <2>1. x \in DOMAIN M /\ M[x] \in Nat /\ x < M[x] /\ M[x] < M[l]
    BY <1>7, <1>14 DEF Opens
  <2>2. ~Killed(P, M, l, x + 1) => v \in U[x + 1]
    BY <1>5, <1>7, <1>8
  <2>3. U[x + 1] \subseteq U[x]
    BY <1>7, <1>14 DEF Flow
  <2>4. Killed(P, M, l, x + 1)
    BY <1>4, <2>2, <2>3
  <2>5. CASE \A e : ~ElseAt(P, M, x, e)
    <3>1. U[M[x] + 1] \subseteq U[x]
      BY <1>7, <1>14, <2>5 DEF Flow
    <3>2. M[x] + 1 \in Nat /\ x < M[x] + 1 /\ M[x] + 1 <= M[l]
      BY <1>1, <1>4, <2>1
    <3>3. ~Killed(P, M, l, M[x] + 1)
      <4> SUFFICES ASSUME Killed(P, M, l, M[x] + 1) PROVE FALSE
        OBVIOUS
      <4>1. PICK t, r \in Positions(P) :
              /\ P[t].k = "if" /\ t \in DOMAIN M /\ t \in Nat /\ r \in Nat /\ M[t] \in Nat
              /\ x <= t /\ t < M[x] + 1 /\ M[x] + 1 <= r /\ r < M[t]
        BY <1>4, <3>2, KilledLater
      <4>2. M[x] < M[t] /\ t <= M[x]
        BY <2>1, <4>1
      <4>3. x < t
        BY <1>4, <2>1, <4>1, <4>2
      <4>4. P[t].k \in Opens
        BY <4>1 DEF Opens
      <4>5. M[t] < M[x]
        BY <1>0, <2>1, <4>1, <4>2, <4>3, <4>4 DEF Closing
      <4> QED
        BY <2>1, <4>1, <4>2, <4>5
    <3> QED
      BY <1>4, <1>5, <3>1, <3>2, <3>3
  <2>6. ASSUME NEW e, ElseAt(P, M, x, e) PROVE FALSE
    <3>1. U[e + 1] \subseteq U[x]
      BY <1>7, <1>14, <2>6 DEF Flow
    <3>2. e \in Nat /\ x < e /\ e < M[x] /\ e \in Positions(P) /\ P[e].k = "else" /\ Around(P, M, e) = Around(P, M, x) \cup {x}
      BY <1>7, <2>6 DEF ElseAt
    <3>3. e + 1 \in Nat /\ x < e + 1 /\ e + 1 <= M[l]
      BY <1>1, <1>4, <2>1, <3>2
    <3>4. ~Killed(P, M, l, e + 1)
      <4> SUFFICES ASSUME Killed(P, M, l, e + 1) PROVE FALSE
        OBVIOUS
      <4>1. PICK t, r \in Positions(P) :
              /\ P[t].k = "if" /\ t \in DOMAIN M /\ t \in Nat /\ r \in Nat /\ M[t] \in Nat
              /\ x <= t /\ t < e + 1 /\ e + 1 <= r /\ r < M[t] /\ ~InElse(P, M, t, r)
        BY <1>4, <3>3, KilledLater
      <4>2. e < r
        BY <3>2, <4>1
      <4>3. t # x
        BY <3>2, <4>1, <4>2 DEF InElse
      <4>4. t # e
        BY <3>2, <4>1
      <4>5. t < e /\ e <= M[t] /\ x < t
        BY <1>4, <3>2, <4>1, <4>2, <4>3, <4>4
      <4>6. t \in Around(P, M, e)
        BY <4>1, <4>5 DEF Around, Opens
      <4>7. t = x \/ t < x
        BY <3>2, <4>6 DEF Around
      <4> QED
        BY <1>4, <4>1, <4>5, <4>7
    <3> QED
      BY <1>4, <1>5, <3>1, <3>3, <3>4
  <2> QED
    BY <2>5, <2>6
<1> QED
  BY <1>10, <1>11, <1>12, <1>13, <1>14

\* A break or a continue is in no branch that returns.
LEMMA ExitNotKilled ==
    ASSUME NEW P, NEW M, NEW U, Solved(P, M, U), NEW l \in DOMAIN M, P[l].k \in Loops, NEW p \in Positions(P),
           P[p].k \in Exits
    PROVE  ~Killed(P, M, l, p)
<1> SUFFICES ASSUME NEW t \in Positions(P), NEW r \in Positions(P),
                    P[t].k = "if", P[r].k \in Returns, Around(P, M, r) = Around(P, M, t) \cup {t},
                    ~InElse(P, M, t, r), l \in Around(P, M, t), t < p, p <= r
             PROVE  FALSE
  BY DEF Killed
<1>1. Closing(P, M) /\ SaneAt(P, M, r) /\ p \in Nat /\ t \in Nat /\ r \in Nat
  BY Numbers DEF Solved, Sane
<1>2. l \in Around(P, M, r)
  OBVIOUS
<1>3. PICK s \in Around(P, M, r) : /\ P[s].k = "if" /\ Around(P, M, r) = Around(P, M, s) \cup {s}
                                   /\ \A j \in s .. r : P[j].k \notin Exits
  BY <1>1, <1>2 DEF SaneAt
<1>4. s = t
  <2>1. s \in Around(P, M, t) => s < t
    BY DEF Around
  <2>2. t \in Around(P, M, s) => t < s
    BY DEF Around
  <2>3. s \in Nat
    BY <1>1, <1>3, Numbers
  <2> QED
    BY <1>1, <1>3, <2>1, <2>2, <2>3
<1>5. p \in t .. r
  BY <1>1
<1> QED
  BY <1>3, <1>4, <1>5

-----------------------------------------------------------------------------
(* Where a value went, along every edge of the run. *)

\* At p, v was given away: by a statement the checker saw move it, or by clone
\* elision, and then nothing reads it any more.
Gone(P, M, U, T, v, p) ==
    \/ \E j \in Positions(P) : Marks(P[j], v) /\ Precedes(P, M, j, p)
    \/ v \notin U[p] /\ \E i \in T : P[i].k = "arg" /\ P[i].v = v

\* What is gone for the elision stays gone where no less was moved and no more
\* is read later.
LEMMA GoneMoves ==
    ASSUME NEW P, NEW M, NEW U, NEW T, NEW v, NEW p, NEW q, Gone(P, M, U, T, v, p),
           \A j \in Positions(P) : Marks(P[j], v) /\ Precedes(P, M, j, p) => Precedes(P, M, j, q),
           v \in U[q] => v \in U[p]
    PROVE  Gone(P, M, U, T, v, q)
  BY DEF Gone

\* To the next statement.
LEMMA GoneStep ==
    ASSUME NEW P, NEW M, NEW U, Solved(P, M, U), NEW p \in Positions(P), P[p].k \notin Returns \cup {"end", "else"},
           NEW T, NEW v, Gone(P, M, U, T, v, p)
    PROVE  Gone(P, M, U, T, v, p + 1)
<1>1. Closing(P, M) /\ Flow(P, M, U, p) /\ Positions(P) \subseteq Nat
  BY Numbers DEF Solved
<1>2. \A j \in Positions(P) : Precedes(P, M, j, p) => Precedes(P, M, j, p + 1)
  BY <1>1, PrecStep
<1>3. U[p + 1] \subseteq U[p]
  <2>1. CASE P[p].k = "if"
    BY <1>1, <2>1 DEF Flow
  <2>2. CASE P[p].k # "if"
    BY <1>1, <2>2 DEF Flow
  <2> QED
    BY <2>1, <2>2
<1> QED
  BY <1>2, <1>3, GoneMoves

\* What the end of a loop needs.
LEMMA LoopTail ==
    ASSUME NEW P, NEW M, NEW U, Solved(P, M, U), NEW l \in DOMAIN M, P[l].k \in Loops
    PROVE  U[M[l]] = U[M[l] + 1] \cup LoopKeeps(P, M, l)
<1>1. Closing(P, M)
  BY DEF Solved
<1>2. M[l] \in Positions(P) /\ P[M[l]].k = "end"
  BY <1>1 DEF Closing
<1>3. Flow(P, M, U, M[l])
  BY <1>2 DEF Solved
<1> QED
  BY <1>2, <1>3 DEF Flow

\* Past a block.
LEMMA GoneSkip ==
    ASSUME NEW P, NEW M, NEW U, Solved(P, M, U), NEW p \in DOMAIN M, \A e : ~ElseAt(P, M, p, e),
           NEW T, NEW v, Gone(P, M, U, T, v, p)
    PROVE  Gone(P, M, U, T, v, M[p] + 1)
<1>1. /\ Closing(P, M) /\ Positions(P) \subseteq Nat /\ p \in Nat /\ p \in Positions(P) /\ P[p].k \in Opens
      /\ M[p] \in Nat /\ p < M[p]
  BY Numbers DEF Solved, Closing
<1>2. \A j \in Positions(P) : Precedes(P, M, j, p) => Precedes(P, M, j, M[p] + 1)
  BY <1>1, PrecOut
<1>3. Flow(P, M, U, p)
  BY <1>1 DEF Solved
<1>4. v \in U[M[p] + 1] => v \in U[p]
  <2>1. CASE P[p].k = "if"
    BY <1>3, <2>1 DEF Flow
  <2>2. CASE P[p].k \in Loops
    <3> SUFFICES ASSUME v \in U[M[p] + 1] PROVE v \in U[p]
      OBVIOUS
    <3>1. v \in U[M[p]]
      BY <2>2, LoopTail
    <3>2. ~Killed(P, M, p, p + 1)
      <4> SUFFICES ASSUME NEW t \in Positions(P), p \in Around(P, M, t), t < p + 1 PROVE FALSE
        BY DEF Killed
      <4>1. t \in Nat /\ p < t
        BY <1>1 DEF Around
      <4> QED
        BY <1>1, <4>1
    <3>3. p + 1 \in Nat /\ p < p + 1 /\ p + 1 <= M[p]
      BY <1>1
    <3>4. v \in U[p + 1]
      BY <2>2, <3>1, <3>2, <3>3, LoopReads
    <3>5. U[p] = U[p + 1] \cup ReadBy(P[p])
      BY <1>3, <2>2 DEF Flow, Loops, Returns
    <3> QED
      BY <3>4, <3>5
  <2> QED
    BY <1>1, <2>1, <2>2 DEF Opens
<1> QED
  BY <1>2, <1>4, GoneMoves

\* Into the else branch.
LEMMA GoneElse ==
    ASSUME NEW P, NEW M, NEW U, Solved(P, M, U), NEW p \in Positions(P), P[p].k = "if", NEW e, ElseAt(P, M, p, e),
           NEW T, NEW v, Gone(P, M, U, T, v, p)
    PROVE  Gone(P, M, U, T, v, e + 1)
<1>1. Closing(P, M) /\ Flow(P, M, U, p) /\ Positions(P) \subseteq Nat /\ P[p].k \in Opens
  BY Numbers DEF Solved, Opens
<1>2. p < e
  BY DEF ElseAt, Around
<1>3. \A j \in Positions(P) : Precedes(P, M, j, p) => Precedes(P, M, j, e + 1)
  BY <1>1, <1>2, PrecOther
<1>4. U[e + 1] \subseteq U[p]
  BY <1>1 DEF Flow
<1> QED
  BY <1>3, <1>4, GoneMoves

\* Out of a branch.
LEMMA GoneOut ==
    ASSUME NEW P, NEW M, NEW U, Solved(P, M, U), NEW p \in Positions(P), NEW i \in DOMAIN M, P[i].k = "if",
           (P[p].k = "end" /\ M[i] = p) \/ ElseAt(P, M, i, p),
           NEW T, NEW v, Gone(P, M, U, T, v, p)
    PROVE  Gone(P, M, U, T, v, M[i] + 1)
<1>1. Closing(P, M) /\ Flow(P, M, U, p) /\ Positions(P) \subseteq Nat
  BY Numbers DEF Solved
<1>2. i \in Around(P, M, p)
  BY <1>1, AroundEnd DEF ElseAt
<1>3. \A j \in Positions(P) : Precedes(P, M, j, p) => Precedes(P, M, j, M[i] + 1)
  BY <1>1, <1>2, PrecOut
<1>4. U[M[i] + 1] \subseteq U[p]
  BY <1>1 DEF Flow, ElseAt, Loops
<1> QED
  BY <1>3, <1>4, GoneMoves

\* What is read when the loop at l goes on or ends is read later from its end
\* and from its breaks and continues.
LEMMA LeavesLoop ==
    ASSUME NEW P, NEW M, NEW U, Solved(P, M, U), NEW l \in DOMAIN M, P[l].k \in Loops, NEW p \in Positions(P),
           (P[p].k \in Exits /\ l \in Around(P, M, p)) \/ p = M[l]
    PROVE  U[M[l]] \subseteq U[p]
<1>1. CASE p = M[l]
  BY <1>1
<1>2. CASE P[p].k \in Exits /\ l \in Around(P, M, p)
  <2>1. Closing(P, M) /\ p \in Nat
    BY Numbers DEF Solved
  <2>2. l < p /\ p <= M[l]
    BY <1>2 DEF Around
  <2>3. ~Killed(P, M, l, p)
    BY <1>2, ExitNotKilled
  <2> QED
    BY <2>1, <2>2, <2>3, LoopReads
<1> QED
  BY <1>1, <1>2

\* Out of a loop.
LEMMA GoneBreak ==
    ASSUME NEW P, NEW M, NEW U, Solved(P, M, U), NEW l \in DOMAIN M, P[l].k \in Loops, NEW p \in Positions(P),
           P[p].k \in Exits, l \in Around(P, M, p), NEW T, NEW v, Gone(P, M, U, T, v, p)
    PROVE  Gone(P, M, U, T, v, M[l] + 1)
<1>1. Closing(P, M) /\ Positions(P) \subseteq Nat
  BY Numbers DEF Solved
<1>2. \A j \in Positions(P) : Precedes(P, M, j, p) => Precedes(P, M, j, M[l] + 1)
  BY <1>1, PrecOut
<1>3. U[M[l] + 1] \subseteq U[p]
  BY LoopTail, LeavesLoop
<1> QED
  BY <1>2, <1>3, GoneMoves

\* Back to the head of a loop: a name declared outside was not moved inside, and
\* what elision took is not read in the loop.
LEMMA GoneAgain ==
    ASSUME NEW P, NEW M, NEW U, Solved(P, M, U), Scoped(P, M), NEW A, \A q \in Positions(P) : Verdict(P, M, A, q),
           NEW l \in DOMAIN M, P[l].k \in Loops, NEW p \in Positions(P),
           (P[p].k \in Exits /\ l \in Around(P, M, p)) \/ p = M[l],
           NEW T, NEW v \in Vars, NEW d \in Positions(P), DeclOf(P, d, v), Visible(P, M, d, l),
           Gone(P, M, U, T, v, p)
    PROVE  Gone(P, M, U, T, v, l)
<1>1. /\ Closing(P, M) /\ Positions(P) \subseteq Nat /\ l \in Nat /\ M[l] \in Nat /\ p \in Nat /\ d \in Nat
      /\ Sane(P, M) /\ l \in Positions(P) /\ P[l].k \in Opens /\ l < M[l]
  BY Numbers DEF Solved, Closing
<1>2. l \in Around(P, M, p)
  BY <1>1, AroundEnd
<1>3. l < p /\ p <= M[l] /\ d < l
  BY <1>2 DEF Around, Visible
<1>4. ASSUME NEW j \in Positions(P), Marks(P[j], v), Precedes(P, M, j, p) PROVE Precedes(P, M, j, l)
  <2>1. j < p /\ j \in Nat
    BY <1>1, <1>4 DEF Precedes
  <2>2. CASE j < l
    BY <1>1, <1>2, <1>4, <2>1, <2>2, PrecIn
  <2>3. CASE j = l
    <3>1. P[l].k # "whilemove"
      BY <1>1 DEF Sane, SaneAt
    <3>2. ~Marks(P[j], v)
      BY <2>3, <3>1, BracketsMoveNothing DEF Loops
    <3> QED
      BY <1>4, <3>2
  <2>4. CASE l < j
    <3>1. j <= p
      BY <1>1, <2>1
    <3>2. l \in Around(P, M, j)
      BY <1>1, <1>2, <2>1, <2>4, <3>1, AroundBetween
    <3>3. Verdict(P, M, A, j)
      OBVIOUS
    <3> QED
      BY <1>4, <3>2, <3>3 DEF Verdict
  <2> QED
    BY <1>1, <2>1, <2>2, <2>3, <2>4
<1>5. ASSUME v \in U[l] PROVE v \in U[p]
  <2> SUFFICES ASSUME v \notin U[p] PROVE FALSE
    OBVIOUS
  <2>1. v \notin U[M[l] + 1] /\ v \notin LoopKeeps(P, M, l)
    BY LoopTail, LeavesLoop
  <2>2. ASSUME NEW j \in l .. M[l] PROVE ~(P[j].k \in Decls /\ P[j].v = v)
    <3> SUFFICES ASSUME P[j].k \in Decls, P[j].v = v PROVE FALSE
      OBVIOUS
    <3>1. j \in Positions(P)
      <4>1. M[l] \in Positions(P)
        BY <1>1 DEF Closing
      <4> QED
        BY <1>1, <4>1 DEF Positions
    <3>2. j = d
      BY <3>1 DEF Scoped, DeclOf
    <3> QED
      BY <1>1, <1>3, <3>2
  <2>3. \A j \in l .. M[l] : ~Mentions(P[j], v)
    BY <2>1, <2>2 DEF LoopKeeps
  <2>4. v \notin U[l]
    BY <2>1, <2>3, LoopReadsNot
  <2> QED
    BY <1>5, <2>4
<1> QED
  BY <1>4, <1>5, GoneMoves

-----------------------------------------------------------------------------
(* The run of a checked program. *)

\* Whoever holds a block holds a live one, and holds it alone.
Sole(D, F, S, H) ==
    \A u \in Vars : D[u] # 0 /\ ~F[u] =>
        /\ S[u] \in 1 .. Len(H) /\ H[S[u]] = "live"
        /\ \A t \in Vars : t # u /\ D[t] # 0 /\ ~F[t] => S[t] # S[u]

\* A local whose drop is suppressed was given away.
Flagged(D, F, U, p) == \A v \in Vars : D[v] # 0 /\ F[v] => Gone(prog, mate, U, moved_out, v, p)

\* What the checker and the elision pass leave to the run.
Sound(U) ==
    /\ Solved(prog, mate, U) /\ LastUses(prog, U, moved_out)
    /\ \A p \in Positions(prog) : Verdict(prog, mate, ann, p)

Safe(U) ==
    /\ Running /\ Sound(U)
    /\ Sole(depth, flag, slot, heap) /\ fault = {} /\ Flagged(depth, flag, U, pos)

\* What a step leaves behind.
StaysSafe(U) == /\ Sole(depth', flag', slot', heap') /\ fault' = {}
                /\ pos' \in 1 .. Len(prog) + 1 => Flagged(depth', flag', U, pos')

\* The statement's operand that is read owns its value.
LEMMA ReadOwned ==
    ASSUME NEW U, Safe(U), NEW v \in Vars, Reads(RStmt, v)
    PROVE  depth[v] # 0 /\ ~flag[v] /\ slot[v] \in 1 .. Len(heap) /\ heap[slot[v]] = "live"
<1>1. /\ pos \in Positions(prog) /\ RStmt = prog[pos] /\ RStmt \in Statement /\ flag \in [Vars -> BOOLEAN]
      /\ \A u \in Needs(RStmt) : u \in Vars => depth[u] # 0
  BY RunFacts DEF Safe
<1>2. /\ Flow(prog, mate, U, pos) /\ Verdict(prog, mate, ann, pos) /\ SaneAt(prog, mate, pos)
  BY <1>1 DEF Safe, Sound, Solved, Sane
<1>3. v # NoVar
  BY ProgramAssumption
<1>4. v \in Needs(RStmt)
  <2>1. CASE RStmt.k \in Binary
    <3>1. RStmt.w = v /\ RStmt.v # v
      BY <1>1, <1>2, <2>1 DEF Reads, Source, SaneAt
    <3> QED
      BY <1>3, <3>1 DEF Needs
  <2>2. CASE RStmt.k \notin Binary
    <3>1. RStmt.v = v /\ RStmt.k \notin Decls
      BY <2>2 DEF Reads, Source, Decls, Binary
    <3> QED
      BY <1>3, <3>1 DEF Needs
  <2> QED
    BY <2>1, <2>2
<1>5. Clean(prog, mate, v, pos)
  BY <1>1, <1>2, <1>4 DEF Verdict, LiveClean
<1>6. v \in U[pos]
  <2>1. v \in ReadBy(prog[pos])
    BY <1>1 DEF ReadBy
  <2>2. prog[pos].k \notin {"end", "else", "if"}
    <3> SUFFICES ASSUME prog[pos].k \in {"end", "else", "if"} PROVE FALSE
      OBVIOUS
    <3>1. prog[pos].k \notin Unary \cup Binary
      BY DEF Unary, Binary
    <3>2. prog[pos].v = NoVar
      BY <1>1, <3>1 DEF Statement
    <3> QED
      BY <1>1, <1>3, <3>1, <3>2 DEF Reads, Source
  <2>3. CASE prog[pos].k \in Returns
    BY <1>2, <2>1, <2>3 DEF Flow
  <2>4. CASE prog[pos].k \notin Returns
    BY <1>2, <2>1, <2>2, <2>4 DEF Flow
  <2> QED
    BY <2>3, <2>4
<1>7. ~Gone(prog, mate, U, moved_out, v, pos)
  BY <1>5, <1>6 DEF Gone, Clean
<1>8. depth[v] # 0 /\ ~flag[v]
  BY <1>1, <1>4, <1>7 DEF Safe, Flagged
<1> QED
  BY <1>8 DEF Safe, Sole

\* A straight step: only what the statement gives away becomes flagged.
LEMMA PlainFlags ==
    ASSUME NEW U, Safe(U), RStmt.k \notin Returns \cup {"end", "else"}, pos' = pos + 1,
           \A v \in Vars : depth'[v] # 0 /\ flag'[v] =>
               \/ depth[v] # 0 /\ flag[v]
               \/ Marks(RStmt, v)
               \/ RStmt.k = "arg" /\ RStmt.v = v /\ pos \in moved_out
    PROVE  Flagged(depth', flag', U, pos')
<1>1. /\ pos \in Positions(prog) /\ pos \in Nat /\ RStmt = prog[pos] /\ Closing(prog, mate)
  BY RunFacts DEF Safe
<1>2. Solved(prog, mate, U) /\ LastUses(prog, U, moved_out) /\ Flagged(depth, flag, U, pos)
  BY DEF Safe, Sound
<1> SUFFICES ASSUME NEW v \in Vars, depth'[v] # 0, flag'[v] PROVE Gone(prog, mate, U, moved_out, v, pos + 1)
  BY DEF Flagged
<1>3. CASE depth[v] # 0 /\ flag[v]
  <2>1. Gone(prog, mate, U, moved_out, v, pos)
    BY <1>2, <1>3 DEF Flagged
  <2> QED
    BY <1>1, <1>2, <2>1, GoneStep
<1>4. CASE Marks(RStmt, v)
  <2>1. Precedes(prog, mate, pos, pos + 1)
    BY <1>1, PrecStep
  <2> QED
    BY <1>1, <1>4, <2>1 DEF Gone
<1>5. CASE RStmt.k = "arg" /\ RStmt.v = v /\ pos \in moved_out
  <2>1. v \notin U[pos + 1]
    BY <1>1, <1>2, <1>5 DEF LastUses
  <2> QED
    BY <1>1, <1>5, <2>1 DEF Gone
<1> QED
  BY <1>3, <1>4, <1>5

-----------------------------------------------------------------------------
(* The heap operations on blocks that are held. *)

\* Freeing a live block is no fault and touches no other.
LEMMA FreeLive ==
    ASSUME NEW m \in Memory, NEW b \in 1 .. Len(m.h), m.h[b] = "live"
    PROVE  /\ Free(m, b).f = m.f
           /\ \A c \in 1 .. Len(m.h) : c # b => Free(m, b).h[c] = m.h[c]
<1>1. Free(m, b) = [m EXCEPT !.h[b] = "freed"]
  BY DEF Free
<1>2. m.h \in Heaps /\ DOMAIN m.h = 1 .. Len(m.h)
  BY DEF Memory, Heaps
<1>3. Free(m, b).h = [m.h EXCEPT ![b] = "freed"] /\ Free(m, b).f = m.f
  BY <1>1 DEF Memory
<1> QED
  BY <1>2, <1>3

\* Reading a local that owns its value changes nothing.
LEMMA ReadLive ==
    ASSUME NEW m \in Memory, NEW v, m.h[slot[v]] = "live", ~flag[v]
    PROVE  Read(m, v) = m
<1>1. Read(m, v) = [m EXCEPT !.f = @ \cup {} \cup {}]
  BY DEF Read
<1>2. m.f \cup {} \cup {} = m.f
  OBVIOUS
<1>3. Read(m, v) = [m EXCEPT !.f = m.f]
  BY <1>1, <1>2
<1> QED
  BY <1>3 DEF Memory

\* The conditional drop of a local in scope.
LEMMA DropLive ==
    ASSUME NEW m \in Memory, Len(heap) \in Nat, Len(heap) <= Len(m.h), \A c \in 1 .. Len(heap) : m.h[c] = heap[c],
           Sole(depth, flag, slot, heap), NEW v \in Vars, depth[v] # 0
    PROVE  /\ DropCond(m, v) \in Memory /\ Len(DropCond(m, v).h) = Len(m.h) /\ DropCond(m, v).f = m.f
           /\ \A c \in 1 .. Len(m.h) : flag[v] \/ c # slot[v] => DropCond(m, v).h[c] = m.h[c]
<1>1. DropCond(m, v) \in Memory /\ Len(DropCond(m, v).h) = Len(m.h)
  BY DropFacts
<1>2. CASE flag[v]
  BY <1>1, <1>2 DEF DropCond
<1>3. CASE ~flag[v]
  <2>1. slot[v] \in 1 .. Len(heap) /\ heap[slot[v]] = "live"
    BY <1>3 DEF Sole
  <2>2. Len(m.h) \in Nat
    BY DEF Memory, Heaps
  <2>3. slot[v] \in 1 .. Len(m.h)
    BY <2>1, <2>2
  <2>4. m.h[slot[v]] = "live"
    BY <2>1
  <2>5. DropCond(m, v) = Free(m, slot[v])
    BY <1>3 DEF DropCond
  <2> QED
    BY <1>1, <1>3, <2>3, <2>4, <2>5, FreeLive
<1> QED
  BY <1>2, <1>3

\* Scope cleanup of locals that hold their blocks alone.
LEMMA CleanupLive ==
    ASSUME NEW m \in Memory, Len(m.h) = Len(heap), \A c \in 1 .. Len(heap) : m.h[c] = heap[c],
           Sole(depth, flag, slot, heap), NEW S \in SUBSET Vars, \A u \in S : depth[u] # 0
    PROVE  /\ Cleanup(m, S).f = m.f
           /\ \A c \in 1 .. Len(m.h) : (\A u \in S : ~flag[u] => slot[u] # c) => Cleanup(m, S).h[c] = m.h[c]
<1> DEFINE owned == {v \in S : ~flag[v]}
           freed == {slot[v] : v \in owned}
<1>1. \A b \in freed : m.h[b] # "freed"
  BY DEF Sole
<1>2. \A u, t \in owned : u # t => slot[u] # slot[t]
  BY DEF Sole
<1>3. IsFiniteSet(owned)
  <2>1. owned \subseteq Vars /\ IsFiniteSet(Vars)
    BY ProgramAssumption
  <2> QED
    BY <2>1, FS_Subset
<1>4. Cardinality(freed) = Cardinality(owned)
  <2>1. PICK f : f = [v \in owned |-> slot[v]]
    OBVIOUS
  <2> HIDE DEF owned
  <2>2. f \in Bijection(owned, freed)
    BY <1>2, <2>1 DEF Bijection, Injection, Surjection, IsInjective
  <2> QED
    BY <1>3, <2>2, FS_Bijection DEF ExistsBijection
<1>5. Cardinality(owned) \in Nat
  BY <1>3, FS_CardinalityType
<1>6. ~(Cardinality(freed) < Cardinality(owned))
  BY <1>4, <1>5
<1>7. Cleanup(m, S) = [h |-> [b \in DOMAIN m.h |-> IF b \in freed THEN "freed" ELSE m.h[b]], f |-> m.f \cup {}]
  <2>1. ~(\/ \E b \in freed : m.h[b] = "freed"
          \/ Cardinality(freed) < Cardinality(owned))
    BY <1>1, <1>6
  <2> QED
    BY <2>1 DEF Cleanup
<1>8. DOMAIN m.h = 1 .. Len(m.h)
  BY DEF Memory, Heaps
<1> QED
  BY <1>7, <1>8

-----------------------------------------------------------------------------
(* Every statement of a checked program keeps the owners apart. *)

\* Nobody gets a block, and whoever keeps his keeps it live.
LEMMA SoleThinned ==
    ASSUME NEW D, NEW F, NEW S, NEW H, Sole(D, F, S, H), NEW C, NEW E, NEW G, Len(H) \in Nat, Len(G) \in Nat, Len(H) <= Len(G),
           \A u \in Vars : C[u] # 0 /\ ~E[u] => D[u] # 0 /\ ~F[u] /\ G[S[u]] = "live"
    PROVE  Sole(C, E, S, G)
<1> SUFFICES ASSUME NEW u \in Vars, C[u] # 0, ~E[u]
             PROVE  /\ S[u] \in 1 .. Len(G) /\ G[S[u]] = "live"
                    /\ \A t \in Vars : t # u /\ C[t] # 0 /\ ~E[t] => S[t] # S[u]
  BY DEF Sole
<1>1. D[u] # 0 /\ ~F[u] /\ G[S[u]] = "live"
  OBVIOUS
<1>2. S[u] \in 1 .. Len(H) /\ \A t \in Vars : t # u /\ D[t] # 0 /\ ~F[t] => S[t] # S[u]
  BY <1>1 DEF Sole
<1>3. S[u] \in 1 .. Len(G)
  BY <1>2
<1> QED
  BY <1>1, <1>2, <1>3

\* v gets the live block b that nobody else keeps.
LEMMA SoleGains ==
    ASSUME NEW D, NEW F, NEW S, NEW H, Sole(D, F, S, H), NEW C, NEW E, NEW T, NEW G,
           Len(H) \in Nat, Len(G) \in Nat, Len(H) <= Len(G),
           NEW v \in Vars, NEW b \in 1 .. Len(G), G[b] = "live", T[v] = b, \A u \in Vars : u # v => T[u] = S[u],
           \A u \in Vars : u # v /\ C[u] # 0 /\ ~E[u] => D[u] # 0 /\ ~F[u] /\ G[S[u]] = "live" /\ S[u] # b
    PROVE  Sole(C, E, T, G)
<1> SUFFICES ASSUME NEW u \in Vars, C[u] # 0, ~E[u]
             PROVE  /\ T[u] \in 1 .. Len(G) /\ G[T[u]] = "live"
                    /\ \A t \in Vars : t # u /\ C[t] # 0 /\ ~E[t] => T[t] # T[u]
  BY DEF Sole
<1>1. CASE u = v
  BY <1>1
<1>2. CASE u # v
  <2>1. D[u] # 0 /\ ~F[u] /\ G[S[u]] = "live" /\ S[u] # b /\ T[u] = S[u]
    BY <1>2
  <2>2. S[u] \in 1 .. Len(H) /\ \A t \in Vars : t # u /\ D[t] # 0 /\ ~F[t] => S[t] # S[u]
    BY <2>1 DEF Sole
  <2>3. S[u] \in 1 .. Len(G)
    BY <2>2
  <2>4. ASSUME NEW t \in Vars, t # u, C[t] # 0, ~E[t] PROVE T[t] # T[u]
    BY <2>1, <2>2, <2>4
  <2> QED
    BY <2>1, <2>3, <2>4
<1> QED
  BY <1>1, <1>2

\* What a lemma about a statement starts from.
LEMMA SafeFacts ==
    ASSUME NEW U, Safe(U)
    PROVE  /\ Running /\ RStmt \in Statement /\ Now \in Memory /\ Now.h = heap /\ Now.f = {} /\ Len(heap) \in Nat
           /\ flag \in [Vars -> BOOLEAN] /\ depth \in [Vars -> Nat] /\ slot \in [Vars -> Nat]
           /\ Sole(depth, flag, slot, heap) /\ Flagged(depth, flag, U, pos)
           /\ RStmt.k \notin {"whilemove", "retmove", "stmtmove", "usebin", "movebin"}
           /\ RStmt.k \in Binary => RStmt.v # RStmt.w
<1>1. /\ Running /\ RStmt \in Statement /\ Now \in Memory /\ Now.h = heap /\ Len(heap) \in Nat
      /\ flag \in [Vars -> BOOLEAN] /\ depth \in [Vars -> Nat] /\ slot \in [Vars -> Nat]
      /\ pos \in Positions(prog) /\ RStmt = prog[pos]
  BY RunFacts DEF Safe
<1>2. Now.f = {} /\ Sole(depth, flag, slot, heap) /\ Flagged(depth, flag, U, pos)
  BY DEF Safe, Now
<1>3. SaneAt(prog, mate, pos)
  BY <1>1 DEF Safe, Sound, Solved, Sane
<1> QED
  BY <1>1, <1>2, <1>3 DEF SaneAt, InBinary

\* cg_stmt_var_decl.
LEMMA RunDeclSafe ==
    ASSUME NEW U, Safe(U), RunDecl
    PROVE  StaysSafe(U)
<1> DEFINE v == RStmt.v
           w == RStmt.w
           moves == RStmt.k = "bind" /\ pos \in moved_out
           m == IF RStmt.k = "decl" THEN Alloc(Now)
                ELSE IF moves THEN Read(Now, w) ELSE Alloc(Read(Now, w))
           b == IF moves THEN slot[w] ELSE Newest(m)
<1>1. /\ RStmt.k \in Decls /\ Keep(m) /\ pos' = pos + 1 /\ flag' = Rebound(v, w, moves)
      /\ slot' = [slot EXCEPT ![v] = b]
      /\ depth' = [depth EXCEPT ![v] = Nest(pos) + 1]
  BY DEF RunDecl, Declare, Step, Goto
<1>2. /\ Running /\ RStmt \in Statement /\ Now \in Memory /\ Now.h = heap /\ Now.f = {} /\ Len(heap) \in Nat
      /\ flag \in [Vars -> BOOLEAN] /\ depth \in [Vars -> Nat] /\ slot \in [Vars -> Nat]
      /\ Sole(depth, flag, slot, heap)
      /\ RStmt.k \in Binary => RStmt.v # RStmt.w
  BY SafeFacts
<1>3. v \in Vars /\ (RStmt.k = "bind" => w \in Vars /\ w # v)
  BY <1>1, <1>2, Operands DEF Decls, Unary, Binary
<1>4. RStmt.k = "bind" =>
        /\ depth[w] # 0 /\ ~flag[w] /\ slot[w] \in 1 .. Len(heap) /\ heap[slot[w]] = "live"
        /\ Read(Now, w) = Now
  <2> SUFFICES ASSUME RStmt.k = "bind"
               PROVE  /\ depth[w] # 0 /\ ~flag[w] /\ slot[w] \in 1 .. Len(heap) /\ heap[slot[w]] = "live"
                      /\ Read(Now, w) = Now
    OBVIOUS
  <2>1. Reads(RStmt, w)
    BY DEF Reads, Source, Binary
  <2>2. depth[w] # 0 /\ ~flag[w] /\ slot[w] \in 1 .. Len(heap) /\ heap[slot[w]] = "live"
    BY <1>3, <2>1, ReadOwned
  <2> QED
    BY <1>2, <2>2, ReadLive
<1>5. /\ m \in Memory /\ m.f = {} /\ Len(m.h) \in Nat /\ Len(heap) <= Len(m.h) /\ b \in 1 .. Len(m.h) /\ m.h[b] = "live"
      /\ \A c \in 1 .. Len(heap) : m.h[c] = heap[c]
      /\ ~moves => b = Len(heap) + 1
  <2>1. CASE moves
    <3>1. m = Now /\ b = slot[w]
      BY <1>4, <2>1
    <3> HIDE DEF m, b
    <3> QED
      BY <1>2, <1>4, <2>1, <3>1
  <2>2. CASE ~moves
    <3>1. m = Alloc(Now) /\ b = Newest(m)
      BY <1>1, <1>4, <2>2 DEF Decls
    <3> HIDE DEF m, b, moves
    <3>2. Alloc(Now).f = {}
      BY <1>2 DEF Alloc, Memory
    <3>3. /\ m \in Memory /\ b = Len(heap) + 1 /\ Len(m.h) = Len(heap) + 1 /\ m.h[Len(heap) + 1] = "live"
          /\ \A c \in 1 .. Len(heap) : m.h[c] = heap[c]
      BY <1>2, <3>1, AllocFacts
    <3>4. Len(m.h) \in Nat /\ Len(heap) <= Len(m.h) /\ b \in 1 .. Len(m.h)
      BY <1>2, <3>3
    <3> QED
      BY <3>1, <3>2, <3>3, <3>4
  <2> QED
    BY <2>1, <2>2
<1>6. moves \in BOOLEAN /\ (moves => RStmt.k = "bind" /\ b = slot[w])
  OBVIOUS
<1> HIDE DEF m, b, moves
<1>7. \A u \in Vars : u # v => /\ depth'[u] = depth[u] /\ slot'[u] = slot[u]
                               /\ flag'[u] = IF moves /\ u = w THEN TRUE ELSE flag[u]
  BY <1>1, <1>2, <1>3 DEF Rebound
<1>8. slot'[v] = b /\ flag'[v] = FALSE
  BY <1>1, <1>2, <1>3 DEF Rebound
<1>9. \A u \in Vars : u # v /\ depth'[u] # 0 /\ ~flag'[u] =>
          depth[u] # 0 /\ ~flag[u] /\ m.h[slot[u]] = "live" /\ slot[u] # b
  <2> SUFFICES ASSUME NEW u \in Vars, u # v, depth'[u] # 0, ~flag'[u]
               PROVE  depth[u] # 0 /\ ~flag[u] /\ m.h[slot[u]] = "live" /\ slot[u] # b
    OBVIOUS
  <2>1. depth[u] # 0 /\ ~flag[u] /\ ~(moves /\ u = w)
    BY <1>7
  <2>2. slot[u] \in 1 .. Len(heap) /\ heap[slot[u]] = "live"
    BY <1>2, <2>1 DEF Sole
  <2>3. slot[u] # b
    <3>1. CASE moves
      <4>1. u # w /\ w \in Vars /\ depth[w] # 0 /\ ~flag[w] /\ b = slot[w]
        BY <1>3, <1>4, <1>6, <2>1, <3>1
      <4> QED
        BY <1>2, <2>1, <4>1 DEF Sole
    <3>2. CASE ~moves
      BY <1>2, <1>5, <2>2, <3>2
    <3> QED
      BY <3>1, <3>2
  <2> QED
    BY <1>5, <2>1, <2>2, <2>3
<1>10. Sole(depth', flag', slot', m.h)
  <2> DEFINE G == m.h
  <2>1. /\ Len(heap) \in Nat /\ Len(G) \in Nat /\ Len(heap) <= Len(G) /\ b \in 1 .. Len(G) /\ G[b] = "live"
        /\ \A u \in Vars : u # v /\ depth'[u] # 0 /\ ~flag'[u] =>
              depth[u] # 0 /\ ~flag[u] /\ G[slot[u]] = "live" /\ slot[u] # b
    BY <1>2, <1>5, <1>9
  <2>2. /\ Sole(depth, flag, slot, heap) /\ v \in Vars /\ slot'[v] = b /\ \A u \in Vars : u # v => slot'[u] = slot[u]
    BY <1>2, <1>3, <1>7, <1>8
  <2> HIDE DEF G, v
  <2>3. Sole(depth', flag', slot', G)
    BY <2>1, <2>2, SoleGains
  <2> QED
    BY <2>3 DEF G
<1>11. heap' = m.h /\ fault' = {}
  BY <1>1, <1>5 DEF Keep
<1>12. Flagged(depth', flag', U, pos')
  <2>1. RStmt.k \notin Returns \cup {"end", "else"}
    BY <1>1 DEF Decls, Returns
  <2>2. \A u \in Vars : depth'[u] # 0 /\ flag'[u] => (depth[u] # 0 /\ flag[u]) \/ Marks(RStmt, u)
    <3>1. moves => Marks(RStmt, w)
      BY <1>6 DEF Marks, Binary
    <3> QED
      BY <1>7, <1>8, <3>1
  <2> QED
    BY <1>1, <2>1, <2>2, PlainFlags
<1> QED
  BY <1>10, <1>11, <1>12 DEF StaysSafe

\* A local v in scope gets the live block b, and only the source w gave one away.
LEMMA SafeAssign ==
    ASSUME NEW U, Safe(U), NEW v \in Vars, NEW b, fault' = {},
           Len(heap') \in Nat, Len(heap) <= Len(heap'), b \in 1 .. Len(heap'), heap'[b] = "live",
           slot'[v] = b, \A u \in Vars : u # v => slot'[u] = slot[u], depth' = depth, ~flag'[v],
           \A u \in Vars : u # v /\ flag'[u] => flag[u] \/ Marks(RStmt, u),
           \A u \in Vars : u # v /\ depth[u] # 0 /\ ~flag'[u] => ~flag[u] /\ heap'[slot[u]] = "live" /\ slot[u] # b,
           RStmt.k \notin Returns \cup {"end", "else"}, pos' = pos + 1
    PROVE  StaysSafe(U)
<1>1. Len(heap) \in Nat /\ Sole(depth, flag, slot, heap)
  BY SafeFacts
<1>2. \A u \in Vars : u # v /\ depth'[u] # 0 /\ ~flag'[u] =>
          depth[u] # 0 /\ ~flag[u] /\ heap'[slot[u]] = "live" /\ slot[u] # b
  OBVIOUS
<1>3. Sole(depth', flag', slot', heap')
  BY <1>1, <1>2, SoleGains
<1>4. \A u \in Vars : depth'[u] # 0 /\ flag'[u] => (depth[u] # 0 /\ flag[u]) \/ Marks(RStmt, u)
  OBVIOUS
<1>5. Flagged(depth', flag', U, pos')
  BY <1>4, PlainFlags
<1> QED
  BY <1>3, <1>5 DEF StaysSafe

\* cg_stmt_assign: the old value is live when it is dropped, and the new one is
\* another.
LEMMA RunAssignSafe ==
    ASSUME NEW U, Safe(U), RunAssign
    PROVE  StaysSafe(U)
<1> DEFINE v == RStmt.v
           w == RStmt.w
           moves == RStmt.k = "assign" /\ pos \in moved_out
           value == IF RStmt.k = "set" THEN Alloc(Now) ELSE Read(Now, w)
           dropped == DropCond(value, v)
           m == IF RStmt.k = "assign" /\ ~moves THEN Alloc(dropped) ELSE dropped
           b == IF moves THEN slot[w] ELSE Newest(m)
<1>1. /\ RStmt.k \in {"set", "assign"} /\ Keep(m) /\ pos' = pos + 1 /\ flag' = Rebound(v, w, moves)
      /\ slot' = [slot EXCEPT ![v] = b] /\ depth' = depth
  BY DEF RunAssign, Step, Goto
<1>2. /\ Running /\ RStmt \in Statement /\ Now \in Memory /\ Now.h = heap /\ Now.f = {} /\ Len(heap) \in Nat
      /\ flag \in [Vars -> BOOLEAN] /\ depth \in [Vars -> Nat] /\ slot \in [Vars -> Nat]
      /\ Sole(depth, flag, slot, heap)
      /\ RStmt.k \in Binary => RStmt.v # RStmt.w
  BY SafeFacts
<1>3. v \in Vars /\ (RStmt.k = "assign" => w \in Vars /\ w # v) /\ depth[v] # 0
  <2>1. RStmt.k \in (Unary \cup Binary) \ Decls /\ (RStmt.k = "assign" => RStmt.k \in Binary)
    BY <1>1 DEF Decls, Unary, Binary
  <2>2. \A u \in Needs(RStmt) : u \in Vars => depth[u] # 0
    BY <1>2, RunFacts
  <2> QED
    BY <1>2, <2>1, <2>2, Operands
<1>4. RStmt.k = "assign" =>
        /\ depth[w] # 0 /\ ~flag[w] /\ slot[w] \in 1 .. Len(heap) /\ heap[slot[w]] = "live"
        /\ Read(Now, w) = Now
  <2> SUFFICES ASSUME RStmt.k = "assign"
               PROVE  /\ depth[w] # 0 /\ ~flag[w] /\ slot[w] \in 1 .. Len(heap) /\ heap[slot[w]] = "live"
                      /\ Read(Now, w) = Now
    OBVIOUS
  <2>1. Reads(RStmt, w)
    BY DEF Reads, Source, Binary
  <2>2. depth[w] # 0 /\ ~flag[w] /\ slot[w] \in 1 .. Len(heap) /\ heap[slot[w]] = "live"
    BY <1>3, <2>1, ReadOwned
  <2> QED
    BY <1>2, <2>2, ReadLive
<1>5. /\ value \in Memory /\ (\A c \in 1 .. Len(heap) : value.h[c] = heap[c]) /\ value.f = {}
      /\ Len(heap) <= Len(value.h)
      /\ RStmt.k = "set" => Len(value.h) = Len(heap) + 1 /\ value.h[Len(heap) + 1] = "live"
      /\ RStmt.k = "assign" => value.h = heap
  <2>1. CASE RStmt.k = "set"
    <3>1. Alloc(Now).f = {}
      BY <1>2 DEF Alloc, Memory
    <3>2. value = Alloc(Now)
      BY <2>1
    <3>3. /\ value \in Memory /\ (\A c \in 1 .. Len(heap) : value.h[c] = heap[c])
          /\ Len(value.h) = Len(heap) + 1 /\ value.h[Len(heap) + 1] = "live"
      BY <1>2, <3>2, AllocFacts
    <3>4. value.f = {}
      BY <3>1, <3>2
    <3> HIDE DEF value
    <3>5. Len(heap) <= Len(value.h)
      BY <1>2, <3>3
    <3> QED
      BY <2>1, <3>3, <3>4, <3>5
  <2>2. CASE RStmt.k = "assign"
    BY <1>2, <1>4, <2>2
  <2> QED
    BY <1>1, <2>1, <2>2
<1> HIDE DEF value
<1>6. /\ dropped \in Memory /\ Len(dropped.h) = Len(value.h) /\ dropped.f = {}
      /\ \A c \in 1 .. Len(value.h) : flag[v] \/ c # slot[v] => dropped.h[c] = value.h[c]
  BY <1>2, <1>3, <1>5, DropLive
<1> HIDE DEF dropped
<1>7. \A u \in Vars : u # v /\ depth[u] # 0 /\ ~flag[u] => slot[u] \in 1 .. Len(heap) /\ dropped.h[slot[u]] = "live"
  <2> SUFFICES ASSUME NEW u \in Vars, u # v, depth[u] # 0, ~flag[u]
               PROVE  slot[u] \in 1 .. Len(heap) /\ dropped.h[slot[u]] = "live"
    OBVIOUS
  <2>1. slot[u] \in 1 .. Len(heap) /\ heap[slot[u]] = "live" /\ (flag[v] \/ slot[u] # slot[v])
    BY <1>2, <1>3 DEF Sole
  <2>2. Len(value.h) \in Nat
    BY <1>5 DEF Memory, Heaps
  <2>3. slot[u] \in 1 .. Len(value.h)
    BY <1>2, <1>5, <2>1, <2>2
  <2> QED
    BY <1>5, <1>6, <2>1, <2>3
<1>8. /\ m \in Memory /\ m.f = {} /\ b \in 1 .. Len(m.h) /\ m.h[b] = "live" /\ Len(heap) <= Len(m.h)
      /\ ~moves => b = Len(heap) + 1
      /\ \A c \in 1 .. Len(heap) : m.h[c] = dropped.h[c]
  <2>1. CASE RStmt.k = "assign" /\ ~moves
    <3>1. m = Alloc(dropped) /\ b = Newest(m)
      BY <2>1
    <3> HIDE DEF m, b
    <3>2. Alloc(dropped).f = {} /\ Len(dropped.h) = Len(heap)
      BY <1>5, <1>6, <2>1 DEF Alloc, Memory
    <3>3. /\ m \in Memory /\ b = Len(heap) + 1 /\ Len(m.h) = Len(heap) + 1 /\ m.h[Len(heap) + 1] = "live"
          /\ \A c \in 1 .. Len(heap) : m.h[c] = dropped.h[c]
      BY <1>6, <3>1, <3>2, AllocFacts
    <3>4. Len(heap) <= Len(m.h) /\ b \in 1 .. Len(m.h)
      BY <1>2, <3>3
    <3> HIDE DEF moves
    <3> QED
      BY <3>1, <3>2, <3>3, <3>4
  <2>2. CASE moves
    <3>1. m = dropped /\ b = slot[w] /\ RStmt.k = "assign" /\ moves
      BY <2>2
    <3> HIDE DEF m, b, moves
    <3>2. slot[w] \in 1 .. Len(heap) /\ dropped.h[slot[w]] = "live"
      BY <1>3, <1>4, <1>7, <3>1
    <3>3. Len(dropped.h) = Len(heap)
      BY <1>5, <1>6, <3>1
    <3> QED
      BY <1>2, <1>6, <3>1, <3>2, <3>3
  <2>3. CASE RStmt.k = "set"
    <3>1. m = dropped /\ b = Newest(m) /\ ~moves
      BY <2>3
    <3> HIDE DEF m, b, moves
    <3>2. Len(m.h) = Len(heap) + 1 /\ b = Len(heap) + 1
      BY <1>5, <1>6, <2>3, <3>1 DEF Newest
    <3>3. b \in 1 .. Len(m.h) /\ Len(heap) <= Len(m.h) /\ b \in 1 .. Len(value.h)
      BY <1>2, <1>5, <2>3, <3>2
    <3>4. flag[v] \/ b # slot[v]
      <4>1. ~flag[v] => slot[v] \in 1 .. Len(heap)
        BY <1>2, <1>3 DEF Sole
      <4> QED
        BY <1>2, <3>2, <4>1
    <3>5. m.h[b] = "live"
      BY <1>5, <1>6, <2>3, <3>1, <3>2, <3>3, <3>4
    <3> QED
      BY <1>6, <3>1, <3>2, <3>3, <3>5
  <2> QED
    BY <1>1, <2>1, <2>2, <2>3
<1>9. moves \in BOOLEAN /\ (moves => RStmt.k = "assign" /\ b = slot[w])
  OBVIOUS
<1> HIDE DEF m, b, moves
<1>10. /\ flag' \in [Vars -> BOOLEAN] /\ flag'[v] = FALSE
       /\ \A u \in Vars : u # v => flag'[u] = IF moves /\ u = w THEN TRUE ELSE flag[u]
  BY <1>1, <1>2, <1>3, <1>9 DEF Rebound
<1>11. \A u \in Vars : u # v => flag'[u] = flag[u] \/ (flag'[u] /\ Marks(RStmt, u))
  <2>1. moves => Marks(RStmt, w)
    BY <1>9 DEF Marks, Binary
  <2> QED
    BY <1>10, <2>1
<1>12. ASSUME NEW u \in Vars, u # v, depth[u] # 0, ~flag[u], ~flag'[u] PROVE m.h[slot[u]] = "live" /\ slot[u] # b
  <2>1. slot[u] \in 1 .. Len(heap) /\ dropped.h[slot[u]] = "live"
    BY <1>7, <1>12
  <2>2. slot[u] # b
    <3>1. CASE moves
      <4>1. u # w /\ w \in Vars /\ depth[w] # 0 /\ ~flag[w] /\ b = slot[w]
        BY <1>3, <1>4, <1>9, <1>10, <1>12, <3>1
      <4> QED
        BY <1>2, <1>12, <4>1 DEF Sole
    <3>2. CASE ~moves
      BY <1>2, <1>8, <2>1, <3>2
    <3> QED
      BY <3>1, <3>2
  <2> QED
    BY <1>8, <2>1, <2>2
<1>13. RStmt.k \notin Returns \cup {"end", "else"}
  BY <1>1 DEF Returns
<1>14. slot'[v] = b /\ \A u \in Vars : u # v => slot'[u] = slot[u]
  BY <1>1, <1>2, <1>3
<1>15. Keep(m) /\ pos' = pos + 1 /\ depth' = depth
  BY <1>1
<1>16. heap' = m.h /\ fault' = {}
  BY <1>8, <1>15 DEF Keep
<1>17. /\ Len(heap') \in Nat /\ Len(heap) <= Len(heap') /\ b \in 1 .. Len(heap') /\ heap'[b] = "live"
       /\ v \in Vars /\ ~flag'[v] /\ depth' = depth /\ pos' = pos + 1
  <2>1. Len(m.h) \in Nat
    BY <1>3, <1>8, <1>10, <1>15 DEF Memory, Heaps
  <2> QED
    BY <2>1, <1>3, <1>8, <1>10, <1>15, <1>16
<1>18. \A u \in Vars : u # v /\ flag'[u] => flag[u] \/ Marks(RStmt, u)
  BY <1>10, <1>11
<1>19. \A u \in Vars : u # v /\ depth[u] # 0 /\ ~flag'[u] => ~flag[u] /\ heap'[slot[u]] = "live" /\ slot[u] # b
  BY <1>10, <1>12, <1>16
<1> HIDE DEF v, w
<1> QED
  BY <1>13, <1>14, <1>16, <1>17, <1>18, <1>19, SafeAssign

\* v = r(@move(v)).
LEMMA RunRefillSafe ==
    ASSUME NEW U, Safe(U), RunRefill
    PROVE  StaysSafe(U)
<1> DEFINE v == RStmt.v
           n == Free(Read(Now, v), slot[v])
           m == Alloc(n)
           b == Newest(m)
<1>1. /\ RStmt.k = "refill" /\ Keep(m) /\ pos' = pos + 1 /\ flag' = [flag EXCEPT ![v] = FALSE]
      /\ slot' = [slot EXCEPT ![v] = b] /\ depth' = depth
  BY DEF RunRefill, Step, Goto
<1>2. /\ Running /\ RStmt \in Statement /\ Now \in Memory /\ Now.h = heap /\ Now.f = {} /\ Len(heap) \in Nat
      /\ flag \in [Vars -> BOOLEAN] /\ depth \in [Vars -> Nat] /\ slot \in [Vars -> Nat]
      /\ Sole(depth, flag, slot, heap)
  BY SafeFacts
<1>3. v \in Vars /\ Reads(RStmt, v)
  BY <1>1, <1>2, Operands DEF Unary, Binary, Reads, Source
<1>4. depth[v] # 0 /\ ~flag[v] /\ slot[v] \in 1 .. Len(heap) /\ heap[slot[v]] = "live"
  BY <1>3, ReadOwned
<1>5. Read(Now, v) = Now
  BY <1>2, <1>4, ReadLive
<1>6. /\ n \in Memory /\ Len(n.h) = Len(heap) /\ n.f = {}
      /\ \A c \in 1 .. Len(heap) : c # slot[v] => n.h[c] = heap[c]
  <2>1. n = Free(Now, slot[v]) /\ slot[v] \in 1 .. Len(Now.h) /\ Now.h[slot[v]] = "live"
    BY <1>2, <1>4, <1>5
  <2> HIDE DEF n, v
  <2>2. n \in Memory /\ Len(n.h) = Len(Now.h)
    BY <1>2, <2>1, FreeFacts
  <2>3. n.f = Now.f /\ \A c \in 1 .. Len(Now.h) : c # slot[v] => n.h[c] = Now.h[c]
    BY <1>2, <2>1, FreeLive
  <2> QED
    BY <1>2, <2>2, <2>3
<1> HIDE DEF n
<1>7. /\ m \in Memory /\ b = Len(heap) + 1 /\ Len(m.h) = Len(heap) + 1 /\ m.h[Len(heap) + 1] = "live"
      /\ \A c \in 1 .. Len(heap) : m.h[c] = n.h[c]
  BY <1>6, AllocFacts
<1>8. m.f = {}
  BY <1>6 DEF Alloc, Memory
<1> HIDE DEF m, b
<1>9. Len(heap) <= Len(m.h) /\ b \in 1 .. Len(m.h) /\ m.h[b] = "live"
  BY <1>2, <1>7
<1>10. ASSUME NEW u \in Vars, u # v, depth[u] # 0, ~flag[u] PROVE m.h[slot[u]] = "live" /\ slot[u] # b
  <2>1. slot[u] \in 1 .. Len(heap) /\ heap[slot[u]] = "live" /\ slot[u] # slot[v]
    BY <1>2, <1>3, <1>4, <1>10 DEF Sole
  <2>2. slot[u] # b
    BY <1>2, <1>7, <2>1
  <2> QED
    BY <1>6, <1>7, <2>1, <2>2
<1>11. /\ flag' \in [Vars -> BOOLEAN] /\ flag'[v] = FALSE
       /\ \A u \in Vars : u # v => flag'[u] = flag[u]
  BY <1>1, <1>2, <1>3
<1>12. RStmt.k \notin Returns \cup {"end", "else"}
  BY <1>1 DEF Returns
<1>13. slot'[v] = b /\ \A u \in Vars : u # v => slot'[u] = slot[u]
  BY <1>1, <1>2, <1>3
<1>14. Keep(m) /\ pos' = pos + 1 /\ depth' = depth
  BY <1>1
<1>15. heap' = m.h /\ fault' = {}
  BY <1>8, <1>14 DEF Keep
<1>16. /\ Len(heap') \in Nat /\ Len(heap) <= Len(heap') /\ b \in 1 .. Len(heap') /\ heap'[b] = "live"
       /\ v \in Vars /\ ~flag'[v] /\ depth' = depth /\ pos' = pos + 1
  <2>1. Len(m.h) \in Nat
    BY <1>3, <1>7, <1>8, <1>9, <1>11, <1>14 DEF Memory, Heaps
  <2> QED
    BY <2>1, <1>3, <1>7, <1>8, <1>9, <1>11, <1>14, <1>15
<1>17. \A u \in Vars : u # v /\ flag'[u] => flag[u] \/ Marks(RStmt, u)
  BY <1>11
<1>18. \A u \in Vars : u # v /\ depth[u] # 0 /\ ~flag'[u] => ~flag[u] /\ heap'[slot[u]] = "live" /\ slot[u] # b
  BY <1>10, <1>11, <1>15
<1> HIDE DEF v
<1> QED
  BY <1>12, <1>13, <1>15, <1>16, <1>17, <1>18, SafeAssign

-----------------------------------------------------------------------------
(* Calls, branches and jumps of a checked program. *)

\* A read of a local.
LEMMA RunUseSafe ==
    ASSUME NEW U, Safe(U), RunUse
    PROVE  StaysSafe(U)
<1>1. /\ RStmt \in Statement /\ Now \in Memory /\ Now.h = heap /\ Now.f = {} /\ Sole(depth, flag, slot, heap)
      /\ RStmt.k \notin {"whilemove", "retmove", "stmtmove", "usebin", "movebin"}
  BY SafeFacts
<1>2. RStmt.k = "use" /\ Keep(Read(Now, RStmt.v)) /\ pos' = pos + 1 /\ slot' = slot /\ flag' = flag /\ depth' = depth
  BY <1>1 DEF RunUse, Step, Goto
<1>3. RStmt.v \in Vars /\ Reads(RStmt, RStmt.v)
  BY <1>1, <1>2, Operands DEF Unary, Binary, Reads, Source
<1>4. Read(Now, RStmt.v) = Now
  BY <1>1, <1>3, ReadOwned, ReadLive
<1>5. heap' = heap /\ fault' = {}
  BY <1>1, <1>2, <1>4 DEF Keep
<1>6. Flagged(depth', flag', U, pos')
  <2>1. RStmt.k \notin Returns \cup {"end", "else"}
    BY <1>2 DEF Returns
  <2> QED
    BY <1>2, <2>1, PlainFlags
<1> QED
  BY <1>1, <1>2, <1>5, <1>6 DEF StaysSafe

\* A call of f with a local by value: the callee drops the local's block when it
\* is given away, its clone otherwise.
LEMMA RunCallSafe ==
    ASSUME NEW U, Safe(U), RunCall
    PROVE  StaysSafe(U)
<1> DEFINE v == RStmt.v
           gives == RStmt.k \in MoveForm \/ pos \in moved_out
<1>1. /\ RStmt \in Statement /\ Now \in Memory /\ Now.h = heap /\ Now.f = {} /\ Sole(depth, flag, slot, heap)
      /\ Len(heap) \in Nat /\ flag \in [Vars -> BOOLEAN]
      /\ RStmt.k \notin {"whilemove", "retmove", "stmtmove", "usebin", "movebin"}
  BY SafeFacts
<1>2. /\ RStmt.k \in {"arg", "move"} /\ CallByValue(v, gives)
      /\ pos' = pos + 1 /\ slot' = slot /\ depth' = depth
  BY <1>1 DEF RunCall, Step, Goto
<1>3. v \in Vars /\ Reads(RStmt, v)
  BY <1>1, <1>2, Operands DEF Unary, Binary, Reads, Source
<1>4. depth[v] # 0 /\ ~flag[v] /\ slot[v] \in 1 .. Len(heap) /\ heap[slot[v]] = "live"
  BY <1>3, ReadOwned
<1>5. Read(Now, v) = Now
  BY <1>1, <1>4, ReadLive
<1>6. gives \in BOOLEAN /\ (gives => Marks(RStmt, v) \/ (RStmt.k = "arg" /\ pos \in moved_out))
  BY <1>2 DEF Marks, MoveForm
<1>7. RStmt.k \notin Returns \cup {"end", "else"}
  BY <1>2 DEF Returns
<1>v. RStmt.v = v
  OBVIOUS
<1> HIDE DEF v, gives
<1>8. CASE gives
  <2> DEFINE m == Free(Now, slot[v])
  <2>1. heap' = m.h /\ fault' = m.f /\ flag' = [flag EXCEPT ![v] = TRUE]
    BY <1>2, <1>5, <1>8 DEF CallByValue, Keep
  <2>2. m \in Memory /\ Len(m.h) = Len(heap)
    BY <1>1, FreeFacts
  <2>3. m.f = {} /\ \A c \in 1 .. Len(heap) : c # slot[v] => m.h[c] = heap[c]
    BY <1>1, <1>4, FreeLive
  <2> HIDE DEF m
  <2>4. flag'[v] /\ \A u \in Vars : u # v => flag'[u] = flag[u]
    BY <1>1, <1>3, <2>1
  <2>5. ASSUME NEW u \in Vars, depth'[u] # 0, ~flag'[u] PROVE depth[u] # 0 /\ ~flag[u] /\ heap'[slot[u]] = "live"
    <3>1. u # v /\ depth[u] # 0 /\ ~flag[u]
      BY <1>2, <2>4, <2>5
    <3>2. slot[u] \in 1 .. Len(heap) /\ heap[slot[u]] = "live" /\ slot[u] # slot[v]
      BY <1>1, <1>3, <1>4, <3>1 DEF Sole
    <3> QED
      BY <2>1, <2>3, <3>1, <3>2
  <2>6. Len(heap') \in Nat /\ Len(heap) <= Len(heap')
    BY <1>1, <2>1, <2>2
  <2>7. Sole(depth', flag', slot, heap')
    BY <1>1, <2>5, <2>6, SoleThinned
  <2>8. Flagged(depth', flag', U, pos')
    <3>1. \A u \in Vars : depth'[u] # 0 /\ flag'[u] =>
             \/ depth[u] # 0 /\ flag[u]
             \/ Marks(RStmt, u)
             \/ RStmt.k = "arg" /\ RStmt.v = u /\ pos \in moved_out
      BY <1>2, <1>6, <1>8, <1>v, <2>4
    <3> QED
      BY <1>2, <1>7, <3>1, PlainFlags
  <2> QED
    BY <1>2, <2>1, <2>3, <2>7, <2>8 DEF StaysSafe
<1>9. CASE ~gives
  <2> DEFINE n == Alloc(Now)
             m == Free(n, Newest(n))
  <2>1. heap' = m.h /\ fault' = m.f /\ flag' = flag
    BY <1>2, <1>5, <1>9 DEF CallByValue, Keep
  <2>2. n.f = {}
    BY <1>1 DEF Alloc, Memory
  <2>3. /\ n \in Memory /\ Len(n.h) = Len(heap) + 1 /\ Newest(n) = Len(heap) + 1
        /\ n.h[Len(heap) + 1] = "live"
        /\ \A c \in 1 .. Len(heap) : n.h[c] = heap[c]
    BY <1>1, AllocFacts
  <2>4. Newest(n) \in 1 .. Len(n.h) /\ n.h[Newest(n)] = "live"
    BY <1>1, <2>3
  <2> HIDE DEF n
  <2>5. m \in Memory /\ Len(m.h) = Len(n.h)
    BY <2>3, FreeFacts
  <2>6. m.f = {} /\ \A c \in 1 .. Len(n.h) : c # Newest(n) => m.h[c] = n.h[c]
    BY <2>2, <2>3, <2>4, FreeLive
  <2> HIDE DEF m
  <2>7. \A c \in 1 .. Len(heap) : m.h[c] = heap[c]
    <3>1. \A c \in 1 .. Len(heap) : c \in 1 .. Len(n.h) /\ c # Newest(n)
      BY <1>1, <2>3
    <3> QED
      BY <2>3, <2>6, <3>1
  <2>8. ASSUME NEW u \in Vars, depth'[u] # 0, ~flag'[u] PROVE depth[u] # 0 /\ ~flag[u] /\ heap'[slot[u]] = "live"
    <3>1. depth[u] # 0 /\ ~flag[u]
      BY <1>2, <2>1, <2>8
    <3>2. slot[u] \in 1 .. Len(heap) /\ heap[slot[u]] = "live"
      BY <1>1, <3>1 DEF Sole
    <3> QED
      BY <2>1, <2>7, <3>1, <3>2
  <2>9. Len(heap') \in Nat /\ Len(heap) <= Len(heap')
    BY <1>1, <2>1, <2>3, <2>5
  <2>10. Sole(depth', flag', slot, heap')
    BY <1>1, <2>8, <2>9, SoleThinned
  <2>11. Flagged(depth', flag', U, pos')
    BY <1>2, <1>7, <2>1, PlainFlags
  <2> QED
    BY <1>2, <2>1, <2>6, <2>10, <2>11 DEF StaysSafe
<1> QED
  BY <1>6, <1>8, <1>9

\* The else that codegen jumps to is the else of the if.
LEMMA ElseOfAt ==
    ASSUME Running, prog[pos].k = "if"
    PROVE  \A e : e \in ElseOf(pos) <=> ElseAt(prog, mate, pos, e)
<1>1. /\ Len(prog) \in Nat /\ Closing(prog, mate) /\ AllClosed /\ pos \in Nat /\ pos \in Positions(prog)
  BY RunFacts
<1>2. prog[pos].k \in Opens /\ pos \in DOMAIN mate /\ mate[pos] \in Positions(prog) /\ mate[pos] \in Nat
  BY <1>1, Numbers DEF Opens, AllClosed
<1>3. ASSUME NEW e \in ElseOf(pos) PROVE ElseAt(prog, mate, pos, e)
  <2>1. e \in pos .. mate[pos] /\ prog[e].k = "else" /\ Nest(e) = Nest(pos) + 1
    BY DEF ElseOf
  <2>2. e \in Nat /\ pos < e /\ e <= mate[pos] /\ e \in Positions(prog)
    <3>1. e # pos
      BY <2>1
    <3> QED
      BY <1>1, <1>2, <2>1, <3>1 DEF Positions
  <2>3. pos \in Around(prog, mate, e)
    BY <1>1, <1>2, <2>2 DEF Around
  <2>4. Around(prog, mate, pos) \cup {pos} \subseteq Around(prog, mate, e)
    BY <1>1, <2>2, <2>3, AroundNested
  <2>5. Around(prog, mate, e) = Around(prog, mate, pos) \cup {pos}
    BY <1>1, <2>1, <2>4, NestInner
  <2> QED
    BY <2>1, <2>2, <2>5 DEF ElseAt
<1>4. ASSUME NEW e, ElseAt(prog, mate, pos, e) PROVE e \in ElseOf(pos)
  <2>1. /\ e \in Positions(prog) /\ prog[e].k = "else" /\ Around(prog, mate, e) = Around(prog, mate, pos) \cup {pos}
    BY <1>4 DEF ElseAt
  <2>2. e \in Nat /\ pos < e /\ e <= mate[pos]
    BY <1>1, <1>2, <2>1, Numbers DEF Around
  <2>3. Nest(e) = Nest(pos) + 1
    BY <1>1, <2>1, NestInner
  <2> QED
    BY <1>1, <1>2, <2>1, <2>2, <2>3 DEF ElseOf
<1> QED
  BY <1>3, <1>4

\* A step that changes only where control is.
LEMMA JumpSafe ==
    ASSUME NEW U, Safe(U), slot' = slot, flag' = flag, depth' = depth, heap' = heap, fault' = fault,
           \A v \in Vars : Gone(prog, mate, U, moved_out, v, pos) => Gone(prog, mate, U, moved_out, v, pos')
    PROVE  StaysSafe(U)
  BY DEF Safe, StaysSafe, Flagged

\* A branch.
LEMMA RunIfSafe ==
    ASSUME NEW U, Safe(U), RunIf
    PROVE  StaysSafe(U)
<1>1. /\ prog[pos].k = "if" /\ UNCHANGED <<slot, flag, depth, heap, fault>>
      /\ \/ pos' = pos + 1
         \/ ElseOf(pos) = {} /\ pos' = mate[pos] + 1
         \/ ElseOf(pos) # {} /\ pos' = (CHOOSE j \in ElseOf(pos) : TRUE) + 1
  BY DEF RunIf, RStmt, Goto, codeVars
<1>2. Running /\ Solved(prog, mate, U)
  BY DEF Safe, Sound
<1>3. AllClosed /\ pos \in Positions(prog) /\ pos \in DOMAIN mate
  <2>1. AllClosed /\ pos \in Positions(prog)
    BY <1>2, RunFacts
  <2> QED
    BY <1>1, <2>1 DEF AllClosed, Opens
<1>4. SUFFICES ASSUME NEW v \in Vars, Gone(prog, mate, U, moved_out, v, pos)
               PROVE  Gone(prog, mate, U, moved_out, v, pos')
  BY <1>1, JumpSafe
<1>5. CASE pos' = pos + 1
  <2>1. prog[pos].k \notin Returns \cup {"end", "else"}
    BY <1>1 DEF Returns
  <2>2. Gone(prog, mate, U, moved_out, v, pos + 1)
    BY <1>2, <1>3, <1>4, <2>1, GoneStep
  <2> QED
    BY <1>5, <2>2
<1>6. CASE ElseOf(pos) = {} /\ pos' = mate[pos] + 1
  <2>1. \A e : ~ElseAt(prog, mate, pos, e)
    BY <1>1, <1>2, <1>6, ElseOfAt
  <2>2. Gone(prog, mate, U, moved_out, v, mate[pos] + 1)
    BY <1>2, <1>3, <1>4, <2>1, GoneSkip
  <2> QED
    BY <1>6, <2>2
<1>7. CASE ElseOf(pos) # {} /\ pos' = (CHOOSE j \in ElseOf(pos) : TRUE) + 1
  <2>1. PICK e \in ElseOf(pos) : pos' = e + 1
    BY <1>7
  <2>2. ElseAt(prog, mate, pos, e)
    BY <1>1, <1>2, <2>1, ElseOfAt
  <2>3. Gone(prog, mate, U, moved_out, v, e + 1)
    BY <1>1, <1>2, <1>3, <1>4, <2>2, GoneElse
  <2> QED
    BY <2>1, <2>3
<1> QED
  BY <1>1, <1>5, <1>6, <1>7

\* A loop head: its condition reads what is owned, and control enters or leaves.
LEMMA RunLoopSafe ==
    ASSUME NEW U, Safe(U), RunLoop
    PROVE  StaysSafe(U)
<1>1. /\ RStmt \in Statement /\ Now \in Memory /\ Now.h = heap /\ Now.f = {}
      /\ RStmt.k \notin {"whilemove", "retmove", "stmtmove", "usebin", "movebin"}
  BY SafeFacts
<1>2. /\ RStmt.k \in {"while", "whileuse"} /\ slot' = slot /\ depth' = depth /\ flag' = flag
      /\ pos' = pos + 1 \/ pos' = mate[pos] + 1
      /\ RStmt.k = "while" => UNCHANGED <<heap, fault>>
      /\ RStmt.k = "whileuse" => Keep(Read(Now, RStmt.v))
  BY <1>1 DEF RunLoop, Goto, Loops
<1>3. Running /\ Solved(prog, mate, U) /\ fault = {}
  BY DEF Safe, Sound
<1>4. /\ AllClosed /\ Closing(prog, mate) /\ Elses(prog, mate) /\ pos \in Positions(prog) /\ pos \in Nat /\ RStmt = prog[pos]
  BY <1>3, RunFacts
<1>5. prog[pos].k \in Loops /\ pos \in DOMAIN mate
  BY <1>2, <1>4 DEF AllClosed, Opens, Loops
<1>6. heap' = heap /\ fault' = fault
  <2>1. CASE RStmt.k = "while"
    BY <1>2, <2>1
  <2>2. CASE RStmt.k = "whileuse"
    <3>1. RStmt.v \in Vars /\ Reads(RStmt, RStmt.v)
      BY <1>1, <2>2, Operands DEF Unary, Binary, Reads, Source
    <3>2. Read(Now, RStmt.v) = Now
      BY <1>1, <3>1, ReadOwned, ReadLive
    <3> QED
      BY <1>1, <1>2, <1>3, <2>2, <3>2 DEF Keep
  <2> QED
    BY <1>2, <2>1, <2>2
<1>7. SUFFICES ASSUME NEW v \in Vars, Gone(prog, mate, U, moved_out, v, pos)
               PROVE  Gone(prog, mate, U, moved_out, v, pos')
  BY <1>2, <1>6, JumpSafe
<1>8. CASE pos' = pos + 1
  <2>1. prog[pos].k \notin Returns \cup {"end", "else"}
    BY <1>5 DEF Loops, Returns
  <2>2. Gone(prog, mate, U, moved_out, v, pos + 1)
    BY <1>3, <1>4, <1>7, <2>1, GoneStep
  <2> QED
    BY <1>8, <2>2
<1>9. CASE pos' = mate[pos] + 1
  <2>1. \A e : ~ElseAt(prog, mate, pos, e)
    <3>1. prog[pos].k # "if"
      BY <1>5 DEF Loops
    <3> QED
      BY <1>4, <3>1, NoElseOfLoop
  <2>2. Gone(prog, mate, U, moved_out, v, mate[pos] + 1)
    BY <1>3, <1>5, <1>7, <2>1, GoneSkip
  <2> QED
    BY <1>9, <2>2
<1> QED
  BY <1>2, <1>8, <1>9

-----------------------------------------------------------------------------
(* Leaving scopes. *)

\* Dropping what is in scope deeper than n.
LEMMA CleanupSafe ==
    ASSUME Owned, Sole(depth, flag, slot, heap), fault = {}, NEW n \in Nat,
           Keep(Cleanup(Now, InScope(n))), Leave(InScope(n)), slot' = slot, flag' = flag
    PROVE  /\ Sole(depth', flag', slot', heap') /\ fault' = {}
           /\ \A v \in Vars : depth'[v] # 0 => depth[v] # 0
<1> DEFINE S == InScope(n)
           m == Cleanup(Now, S)
<1>1. Now \in Memory /\ Now.h = heap /\ Now.f = {} /\ depth \in [Vars -> Nat] /\ Len(heap) \in Nat
  <2>1. Now \in Memory /\ Now.h = heap /\ Now.f = {} /\ depth \in [Vars -> Nat]
    BY DEF Owned, Now
  <2> QED
    BY <2>1 DEF Memory, Heaps
<1>2. S \in SUBSET Vars /\ \A u \in S : depth[u] # 0
  BY <1>1 DEF InScope
<1>3. depth' = [v \in Vars |-> IF v \in S THEN 0 ELSE depth[v]] /\ heap' = m.h /\ fault' = m.f
  BY DEF Leave, Keep
<1> HIDE DEF S
<1>4. /\ m.f = {}
      /\ \A c \in 1 .. Len(heap) : (\A u \in S : ~flag[u] => slot[u] # c) => m.h[c] = heap[c]
  BY <1>1, <1>2, CleanupLive
<1>5. Len(m.h) = Len(heap)
  BY <1>1, CleanupFacts
<1> HIDE DEF m
<1>6. \A v \in Vars : depth'[v] # 0 => depth[v] # 0 /\ v \notin S
  BY <1>3
<1>7. ASSUME NEW u \in Vars, depth'[u] # 0, ~flag'[u] PROVE depth[u] # 0 /\ ~flag[u] /\ heap'[slot[u]] = "live"
  <2>1. depth[u] # 0 /\ u \notin S /\ ~flag[u]
    BY <1>6, <1>7
  <2>2. slot[u] \in 1 .. Len(heap) /\ heap[slot[u]] = "live"
    BY <2>1 DEF Sole
  <2>3. \A t \in S : ~flag[t] => slot[t] # slot[u]
    BY <1>2, <2>1 DEF Sole
  <2> QED
    BY <1>3, <1>4, <2>1, <2>2, <2>3
<1>8. Len(heap') \in Nat /\ Len(heap) <= Len(heap')
  BY <1>1, <1>3, <1>5
<1>9. Sole(depth', flag', slot, heap')
  BY <1>1, <1>7, <1>8, SoleThinned
<1> QED
  BY <1>3, <1>4, <1>6, <1>9

\* Leaving the block or the loop at i.
LEMMA LeaveSafe ==
    ASSUME NEW U, Safe(U), NEW i \in Around(prog, mate, pos), Keep(Cleanup(Now, InScope(Nest(i) + 1))),
           Leave(InScope(Nest(i) + 1)), slot' = slot, flag' = flag, pos' = i \/ pos' = mate[i] + 1,
           \A v \in Vars : Gone(prog, mate, U, moved_out, v, pos) /\ ScopeAt(prog, mate, depth', pos') /\ depth'[v] # 0
                              => Gone(prog, mate, U, moved_out, v, pos')
    PROVE  StaysSafe(U)
<1>1. Running /\ Owned /\ fault = {} /\ Sole(depth, flag, slot, heap) /\ Flagged(depth, flag, U, pos)
  BY DEF Safe, Running
<1>2. Nest(i) + 1 \in Nat
  <2>1. Closing(prog, mate) /\ AllClosed /\ Len(prog) \in Nat
    BY <1>1, RunFacts
  <2>2. Nest(i) \in Nat
    BY <2>1, NestAround
  <2> QED
    BY <2>2
<1>3. /\ Sole(depth', flag', slot', heap') /\ fault' = {}
      /\ \A v \in Vars : depth'[v] # 0 => depth[v] # 0
  BY <1>1, <1>2, CleanupSafe
<1>4. ScopeAt(prog, mate, depth', pos')
  BY <1>1, LeaveBlock DEF Landed
<1>5. Flagged(depth', flag', U, pos')
  BY <1>1, <1>3, <1>4 DEF Flagged
<1> QED
  BY <1>3, <1>5 DEF StaysSafe

\* Back at the head of a loop: what is in scope there was declared outside.
LEMMA BackAgain ==
    ASSUME NEW U, Safe(U), NEW l \in DOMAIN mate, prog[l].k \in Loops,
           (prog[pos].k \in Exits /\ l \in Around(prog, mate, pos)) \/ pos = mate[l],
           NEW v \in Vars, NEW D, ScopeAt(prog, mate, D, l), D[v] # 0, Gone(prog, mate, U, moved_out, v, pos)
    PROVE  Gone(prog, mate, U, moved_out, v, l)
<1>1. /\ Solved(prog, mate, U) /\ Scoped(prog, mate) /\ pos \in Positions(prog)
      /\ \A q \in Positions(prog) : Verdict(prog, mate, ann, q)
  BY RunFacts DEF Safe, Sound
<1>2. PICK d \in Positions(prog) : DeclOf(prog, d, v)
  BY DEF ScopeAt
<1>3. Visible(prog, mate, d, l)
  BY <1>2 DEF ScopeAt
<1> QED
  BY <1>1, <1>2, <1>3, GoneAgain

\* The end of a block.
LEMMA RunEndSafe ==
    ASSUME NEW U, Safe(U), RunEnd
    PROVE  StaysSafe(U)
<1> DEFINE j == CHOOSE o \in DOMAIN mate : o < pos /\ pos <= mate[o] /\ Nest(o) = Nest(pos) - 1
<1>1. /\ RStmt.k \in {"end", "else"} /\ Keep(Cleanup(Now, InScope(Nest(pos)))) /\ Leave(InScope(Nest(pos)))
      /\ pos' = IF prog[j].k \in Loops THEN j ELSE mate[j] + 1
      /\ slot' = slot /\ flag' = flag
  BY DEF RunEnd, Goto
<1>2. Running /\ Solved(prog, mate, U)
  BY DEF Safe, Sound
<1>3. /\ Len(prog) \in Nat /\ Closing(prog, mate) /\ AllClosed /\ Elses(prog, mate) /\ pos \in Positions(prog)
      /\ RStmt = prog[pos]
  BY <1>2, RunFacts
<1>4. PICK i \in DOMAIN mate : /\ Around(prog, mate, pos) = Around(prog, mate, i) \cup {i}
                               /\ Nest(pos) = Nest(i) + 1 /\ i = j
                               /\ prog[pos].k = "end" => mate[i] = pos
                               /\ prog[pos].k = "else" => prog[i].k = "if"
  BY <1>1, <1>3, ClosedBlock
<1> HIDE DEF j
<1>5. /\ i \in Around(prog, mate, pos) /\ InScope(Nest(pos)) = InScope(Nest(i) + 1)
      /\ pos' = IF prog[i].k \in Loops THEN i ELSE mate[i] + 1
  BY <1>1, <1>4
<1>6. ASSUME NEW v \in Vars, Gone(prog, mate, U, moved_out, v, pos), ScopeAt(prog, mate, depth', pos'), depth'[v] # 0
      PROVE  Gone(prog, mate, U, moved_out, v, pos')
  <2>1. CASE prog[i].k \in Loops
    <3>1. pos = mate[i] /\ pos' = i
      BY <1>1, <1>3, <1>4, <1>5, <2>1 DEF Loops
    <3>2. Gone(prog, mate, U, moved_out, v, i)
      BY <1>6, <2>1, <3>1, BackAgain
    <3> QED
      BY <3>1, <3>2
  <2>2. CASE prog[i].k \notin Loops
    <3>1. prog[i].k = "if" /\ pos' = mate[i] + 1
      BY <1>3, <1>5, <2>2 DEF AllClosed, Opens
    <3>2. (prog[pos].k = "end" /\ mate[i] = pos) \/ ElseAt(prog, mate, i, pos)
      BY <1>1, <1>3, <1>4 DEF ElseAt
    <3>3. Gone(prog, mate, U, moved_out, v, mate[i] + 1)
      BY <1>2, <1>3, <1>6, <3>1, <3>2, GoneOut
    <3> QED
      BY <3>1, <3>3
  <2> QED
    BY <2>1, <2>2
<1>7. Keep(Cleanup(Now, InScope(Nest(i) + 1))) /\ Leave(InScope(Nest(i) + 1)) /\ (pos' = i \/ pos' = mate[i] + 1)
  BY <1>1, <1>5
<1> QED
  BY <1>1, <1>5, <1>6, <1>7, LeaveSafe

\* The loop that a break or continue leaves is around it.
LEMMA LoopAround ==
    ASSUME Running, prog[pos].k \in Exits
    PROVE  LoopOf(pos) \in Around(prog, mate, pos) /\ LoopOf(pos) \in DOMAIN mate /\ prog[LoopOf(pos)].k \in Loops
<1> DEFINE i == LoopOf(pos)
<1>2. /\ Len(prog) \in Nat /\ Closing(prog, mate) /\ AllClosed /\ Scoped(prog, mate) /\ pos \in Positions(prog)
      /\ pos \in Nat
  BY RunFacts
<1>3. LoopsAround(pos) # {}
  <2>1. PICK o \in Around(prog, mate, pos) : prog[o].k \in Loops
    BY <1>2 DEF Scoped
  <2>2. o \in DOMAIN mate /\ o < pos /\ pos <= mate[o] /\ mate[o] \in Nat
    BY <1>2, Numbers DEF Around, AllClosed
  <2>3. pos # mate[o]
    BY <1>2, <2>2 DEF Closing, Exits
  <2>4. pos < mate[o]
    BY <1>2, <2>2, <2>3
  <2> QED
    BY <2>1, <2>2, <2>4 DEF LoopsAround
<1>4. LoopsAround(pos) \subseteq 1 .. Len(prog)
  BY <1>2 DEF LoopsAround, AllClosed, Positions
<1>5. \E o \in LoopsAround(pos) : \A h \in LoopsAround(pos) : h <= o
  BY <1>2, <1>3, <1>4, LastOf
<1>6. i \in LoopsAround(pos)
  BY <1>5 DEF LoopOf
<1> HIDE DEF i
<1>7. i \in Around(prog, mate, pos) /\ i \in DOMAIN mate /\ prog[i].k \in Loops
  <2>1. i \in DOMAIN mate /\ i < pos /\ pos < mate[i] /\ mate[i] \in Nat /\ i \in Positions(prog) /\ prog[i].k \in Loops
    BY <1>2, <1>6, Numbers DEF LoopsAround, AllClosed
  <2>2. pos <= mate[i]
    BY <1>2, <2>1
  <2> QED
    BY <2>1, <2>2 DEF Around, Opens
<1> QED
  BY <1>7 DEF i

\* break and continue.
LEMMA RunExitSafe ==
    ASSUME NEW U, Safe(U), RunExit
    PROVE  StaysSafe(U)
<1>1. PICK i : i = LoopOf(pos)
  OBVIOUS
<1>2. /\ RStmt.k \in Exits /\ Keep(Cleanup(Now, InScope(Nest(i) + 1))) /\ Leave(InScope(Nest(i) + 1))
      /\ pos' = i \/ pos' = mate[i] + 1
      /\ slot' = slot /\ flag' = flag
  BY <1>1 DEF RunExit, Goto
<1>3. Running /\ Solved(prog, mate, U)
  BY DEF Safe, Sound
<1>4. pos \in Positions(prog) /\ RStmt = prog[pos]
  BY <1>3, RunFacts
<1>5. i \in Around(prog, mate, pos) /\ i \in DOMAIN mate /\ prog[i].k \in Loops
  BY <1>1, <1>2, <1>3, <1>4, LoopAround
<1>6. ASSUME NEW v \in Vars, Gone(prog, mate, U, moved_out, v, pos), ScopeAt(prog, mate, depth', pos'), depth'[v] # 0
      PROVE  Gone(prog, mate, U, moved_out, v, pos')
  <2>1. CASE pos' = i
    <3>1. Gone(prog, mate, U, moved_out, v, i)
      BY <1>2, <1>4, <1>5, <1>6, <2>1, BackAgain
    <3> QED
      BY <2>1, <3>1
  <2>2. CASE pos' = mate[i] + 1
    <3>1. Gone(prog, mate, U, moved_out, v, mate[i] + 1)
      BY <1>2, <1>3, <1>4, <1>5, <1>6, GoneBreak
    <3> QED
      BY <2>2, <3>1
  <2> QED
    BY <1>2, <2>1, <2>2
<1> QED
  BY <1>2, <1>5, <1>6, LeaveSafe

\* Nothing is in scope.
LEMMA NothingHeld ==
    ASSUME NEW U, \A v \in Vars : depth'[v] = 0, fault' = {}
    PROVE  StaysSafe(U)
  BY DEF StaysSafe, Sole, Flagged

\* cg_stmt_return: the returned local is skipped by the cleanup, so its block is
\* live when the caller drops it.
LEMMA RunReturnSafe ==
    ASSUME NEW U, Safe(U), RunReturn
    PROVE  StaysSafe(U)
<1> DEFINE v == RStmt.v
           all == InScope(0)
           n == Cleanup(Now, all \ {v})
<1>1. /\ RStmt \in Statement /\ Now \in Memory /\ Now.h = heap /\ Now.f = {} /\ Sole(depth, flag, slot, heap)
      /\ Len(heap) \in Nat /\ depth \in [Vars -> Nat] /\ Running
      /\ RStmt.k \notin {"whilemove", "retmove", "stmtmove", "usebin", "movebin"}
  BY SafeFacts
<1>2. \A u \in Vars : depth'[u] = 0
  BY <1>1, RunReturnOwned
<1>3. /\ RStmt.k \in {"ret", "retv"}
      /\ RStmt.k = "ret" => Keep(Cleanup(Now, all))
      /\ RStmt.k = "retv" => Keep(Free(Cleanup(Read(Now, v), all \ {v}), slot[v]))
  BY <1>1 DEF RunReturn, Returns
<1>4. all \in SUBSET Vars /\ \A u \in all : depth[u] # 0
  BY <1>1 DEF InScope
<1>5. CASE RStmt.k = "ret"
  <2> HIDE DEF all
  <2>1. Cleanup(Now, all).f = {}
    BY <1>1, <1>4, CleanupLive
  <2>2. fault' = {}
    BY <1>3, <1>5, <2>1 DEF Keep
  <2> QED
    BY <1>2, <2>2, NothingHeld
<1>6. CASE RStmt.k = "retv"
  <2>1. v \in Vars /\ Reads(RStmt, v)
    BY <1>1, <1>6, Operands DEF Unary, Binary, Reads, Source
  <2>2. depth[v] # 0 /\ ~flag[v] /\ slot[v] \in 1 .. Len(heap) /\ heap[slot[v]] = "live"
    BY <2>1, ReadOwned
  <2>3. Read(Now, v) = Now
    BY <1>1, <2>2, ReadLive
  <2> HIDE DEF all, v
  <2>4. all \ {v} \in SUBSET Vars /\ \A u \in all \ {v} : depth[u] # 0
    BY <1>4
  <2>5. /\ n.f = {}
        /\ \A c \in 1 .. Len(heap) : (\A u \in all \ {v} : ~flag[u] => slot[u] # c) => n.h[c] = heap[c]
    BY <1>1, <2>4, CleanupLive
  <2>6. n \in Memory /\ Len(n.h) = Len(heap)
    BY <1>1, CleanupFacts
  <2>7. \A u \in all \ {v} : ~flag[u] => slot[u] # slot[v]
    BY <1>1, <1>4, <2>1, <2>2 DEF Sole
  <2>8. n.h[slot[v]] = "live"
    BY <2>2, <2>5, <2>7
  <2>9. fault' = Free(n, slot[v]).f
    BY <1>3, <1>6, <2>3 DEF Keep
  <2> HIDE DEF n
  <2>10. Free(n, slot[v]).f = {}
    BY <2>2, <2>5, <2>6, <2>8, FreeLive
  <2> QED
    BY <1>2, <2>9, <2>10, NothingHeld
<1> QED
  BY <1>3, <1>5, <1>6

\* Every statement.
LEMMA RunSafe ==
    ASSUME NEW U, Safe(U), RunStmt
    PROVE  StaysSafe(U)
<1>1. ~RunStmtMove
  BY SafeFacts DEF RunStmtMove
<1> QED
  BY <1>1, RunDeclSafe, RunAssignSafe, RunRefillSafe, RunUseSafe, RunCallSafe, RunIfSafe, RunLoopSafe, RunEndSafe,
     RunExitSafe, RunReturnSafe DEF RunStmt

-----------------------------------------------------------------------------
(* The invariant of the three passes. *)

\* While the checker walks.
Checking ==
    /\ Tracked /\ Rewalked
    /\ \A p \in Positions(prog) : Settled(p) => Verdict(prog, mate, ann, p)
    /\ \A i \in moved_out : i \in Positions(prog) /\ prog[i].k # "arg"
    /\ used = [v \in Vars |-> FALSE] /\ eframes = <<>>

\* While clone elision walks back.
Tagging ==
    /\ \A p \in Positions(prog) : Verdict(prog, mate, ann, p)
    /\ \E U, O : Elided(U, O)

\* While the code runs.
Executing ==
    \E U : /\ Sound(U) /\ Sole(depth, flag, slot, heap)
           /\ pos <= Len(prog) + 1 => Flagged(depth, flag, U, pos)

Harmless ==
    SoundForms =>
        /\ Sane(prog, mate) /\ fault = {}
        /\ phase = "check" => Checking
        /\ phase = "elide" => Tagging
        /\ phase = "run" => Executing

\* What a step of the checker tags, and what it leaves alone.
LEMMA CheckTags ==
    ASSUME NEW s, Checks(s)
    PROVE  gram' = gram /\ \A i \in moved_out' : i \in moved_out \/ (i = pos /\ s.k # "arg")
<1>1. CASE CheckDecl(s)
  BY <1>1 DEF CheckDecl, Record
<1>2. CASE CheckMemo(s)
  BY <1>2 DEF CheckMemo, Record
<1>3. CASE CheckRead(s)
  BY <1>3 DEF CheckRead, Record
<1>4. CASE CheckMove(s)
  BY <1>4 DEF CheckMove, Record
<1>5. CASE CheckAssign(s)
  BY <1>5 DEF CheckAssign, Record
<1>6. CASE CheckOpen(s)
  BY <1>6 DEF CheckOpen, Record
<1>7. CASE CheckElse(s)
  BY <1>7 DEF CheckElse, Record
<1>8. CASE CheckEndIf(s)
  BY <1>8 DEF CheckEndIf, Record
<1>9. CASE CheckEndLoop(s)
  BY <1>9 DEF CheckEndLoop, Record
<1> QED
  BY <1>1, <1>2, <1>3, <1>4, <1>5, <1>6, <1>7, <1>8, <1>9 DEF Checks

\* Nothing was walked yet.
LEMMA InitHarmless == Init => Harmless
<1> SUFFICES ASSUME Init PROVE Harmless
  OBVIOUS
<1>1. /\ phase = "check" /\ prog = <<>> /\ st = [v \in Vars |-> "undef"] /\ frames = <<>> /\ moved_out = {}
      /\ used = [v \in Vars |-> FALSE] /\ eframes = <<>> /\ fault = {}
  BY DEF Init, CheckInit, ElideInit, CodeInit
<1>2. Positions(prog) = {} /\ Depths = {}
  BY <1>1 DEF Positions, Depths
<1>3. Tracked /\ Rewalked
  BY <1>1, <1>2 DEF Tracked, Rewalked, LiveClean, InView
<1> QED
  BY <1>1, <1>2, <1>3 DEF Harmless, Checking, Sane

\* A step of the checker.
LEMMA CheckHarmless ==
    ASSUME IInv, Harmless, Check
    PROVE  Harmless'
<1>1. PICK s \in Stmt : Checks(s)
  BY DEF Check, CheckStmt, Checks
<1>2. /\ phase = "check" /\ phase' = "check" /\ used' = used /\ eframes' = eframes /\ fault' = fault
      /\ ann' = [i \in DOMAIN ann \cup {pos} |-> IF i = pos THEN st ELSE ann[i]]
  BY DEF Check, elideVars, codeVars
<1>3. gram' = gram /\ \A i \in moved_out' : i \in moved_out \/ (i = pos /\ s.k # "arg")
  BY <1>1, CheckTags
<1> SUFFICES ASSUME SoundForms' PROVE Sane(prog, mate)' /\ fault' = {} /\ Checking'
  BY <1>2 DEF Harmless
<1>4. SoundForms /\ Sane(prog, mate) /\ fault = {} /\ Checking /\ Shape /\ Walk
  BY <1>2, <1>3 DEF SoundForms, Harmless, IInv
<1>5. Tracked /\ Rewalked /\ \A p \in Positions(prog) : Settled(p) => Verdict(prog, mate, ann, p)
  BY <1>4 DEF Checking
<1>6. Sane(prog', mate')
  BY <1>1, <1>2, <1>4, CheckSane
<1>7. Tracked' /\ Rewalked'
  BY <1>1, <1>2, <1>4, <1>5, CheckMoves
<1>8. \A p \in Positions(prog') : Settled(p)' => Verdict(prog', mate', ann', p)
  BY <1>1, <1>2, <1>4, <1>5, CheckJudged
<1>9. \A i \in moved_out' : i \in Positions(prog') /\ prog'[i].k # "arg"
  <2>1. Grown(s)
    BY <1>1, <1>2, <1>4, CheckGrows
  <2>2. /\ \A i \in Positions(prog) : i \in Positions(prog') /\ prog'[i] = prog[i]
        /\ pos \in Positions(prog') /\ prog'[pos] = s
    BY <2>1 DEF Grown, Extends, Positions
  <2> QED
    BY <1>3, <1>4, <2>2 DEF Checking
<1>10. used' = [v \in Vars |-> FALSE] /\ eframes' = <<>>
  BY <1>2, <1>4 DEF Checking
<1> QED
  BY <1>2, <1>4, <1>6, <1>7, <1>8, <1>9, <1>10 DEF Checking

\* The body is accepted: every statement was judged, and nothing is read behind
\* its end.
LEMMA AcceptHarmless ==
    ASSUME IInv, Harmless, Accept
    PROVE  Harmless'
<1>1. /\ phase = "check" /\ frames = <<>> /\ pos = Len(prog) + 1 /\ phase' = "elide" /\ pos' = Len(prog)
      /\ UNCHANGED <<gram, prog, mate, moved_out, ann, used, eframes, fault>>
  BY DEF Accept, checkVars, elideVars, codeVars
<1> SUFFICES ASSUME SoundForms PROVE Sane(prog, mate)' /\ fault' = {} /\ Tagging'
  BY <1>1 DEF Harmless, SoundForms
<1>2. Sane(prog, mate) /\ fault = {} /\ Checking /\ Shape
  BY <1>1 DEF Harmless, IInv
<1>3. Len(prog) \in Nat /\ Closing(prog, mate)
  BY <1>2 DEF Shape
<1>4. \A p \in Positions(prog) : Verdict(prog, mate, ann, p)
  <2> SUFFICES ASSUME NEW p \in Positions(prog) PROVE Verdict(prog, mate, ann, p)
    OBVIOUS
  <2>1. p < pos /\ Depths = {}
    BY <1>1, <1>3 DEF Positions, Depths
  <2>2. Settled(p)
    BY <2>1 DEF Settled
  <2> QED
    BY <1>2, <2>2 DEF Checking
<1>5. PICK U : U = [n \in Nat |-> {}]
  OBVIOUS
<1>6. Elided(U, <<>>)'
  <2>1. U \in Reading /\ U[Len(prog) + 1] = {}
    BY <1>3, <1>5 DEF Reading
  <2>2. \A p \in Positions(prog) : ~(p > Len(prog))
    BY <1>3 DEF Positions
  <2>3. used \in [Vars -> BOOLEAN] /\ Names(used) = {}
    BY <1>2 DEF Checking, Names
  <2>4. IfsAt(prog, mate, Len(prog)) = {}
    <3>1. \A i \in DOMAIN mate : mate[i] \in Nat /\ mate[i] <= Len(prog)
      BY <1>3 DEF Closing, Positions
    <3> QED
      BY <1>3, <3>1 DEF IfsAt
  <2>5. Nested(prog, mate, U, eframes, <<>>, Len(prog))
    <3>1. eframes = <<>>
      BY <1>2 DEF Checking
    <3> QED
      BY <2>4, <3>1 DEF Nested
  <2>6. \A i \in moved_out : i \in Positions(prog) /\ prog[i].k # "arg"
    BY <1>2 DEF Checking
  <2>7. LastUses(prog, U, moved_out)
    BY <2>6 DEF LastUses
  <2> QED
    BY <1>1, <2>1, <2>2, <2>3, <2>5, <2>6, <2>7 DEF Elided
<1>7. Tagging'
  BY <1>1, <1>4, <1>6 DEF Tagging
<1> QED
  BY <1>1, <1>2, <1>7

\* A step of clone elision.
LEMMA ElideHarmless ==
    ASSUME IInv, Harmless, Elide
    PROVE  Harmless'
<1>1. /\ phase = "elide" /\ phase' = "elide" /\ pos > 0 /\ ElideStmt
      /\ UNCHANGED <<gram, prog, mate, ann, fault>>
  BY ElideStatic DEF Elide, codeVars
<1> SUFFICES ASSUME SoundForms PROVE Sane(prog, mate)' /\ fault' = {} /\ Tagging'
  BY <1>1 DEF Harmless, SoundForms
<1>2. Sane(prog, mate) /\ fault = {} /\ Tagging /\ Shape /\ AllClosed
  BY <1>1 DEF Harmless, IInv, Closed
<1>3. pos \in Positions(prog)
  <2>1. pos \in 0 .. Len(prog) /\ Len(prog) \in Nat
    BY <1>1, <1>2 DEF IInv, InBlock, Shape
  <2> QED
    BY <1>1, <2>1 DEF Positions
<1>4. PICK U, O : Elided(U, O)
  BY <1>2 DEF Tagging
<1>5. \E W, Q : Elided(W, Q)'
  BY <1>1, <1>2, <1>3, <1>4, ElideKeeps DEF Eliding
<1>6. Tagging'
  BY <1>1, <1>2, <1>5 DEF Tagging
<1> QED
  BY <1>1, <1>2, <1>6

\* Code is emitted: the equations hold everywhere, and nothing is in scope.
LEMMA EmitHarmless ==
    ASSUME IInv, Harmless, Emit
    PROVE  Harmless'
<1>1. /\ phase = "elide" /\ phase' = "run" /\ pos = 0 /\ pos' = 1
      /\ UNCHANGED <<gram, prog, mate, moved_out, ann, fault, depth, flag, slot, heap>>
  BY DEF Emit, checkVars, codeVars
<1> SUFFICES ASSUME SoundForms PROVE Sane(prog, mate)' /\ fault' = {} /\ Executing'
  BY <1>1 DEF Harmless, SoundForms
<1>2. Sane(prog, mate) /\ fault = {} /\ Tagging /\ Shape /\ AllClosed
  BY <1>1 DEF Harmless, IInv, Closed
<1>3. PICK U, O : Elided(U, O)
  BY <1>2 DEF Tagging
<1>4. Sound(U)
  <2>1. \A p \in Positions(prog) : p > pos
    BY <1>1, <1>2 DEF Positions
  <2>2. Solved(prog, mate, U)
    BY <1>2, <1>3, <2>1 DEF Solved, Elided, Shape, AllClosed
  <2> QED
    BY <1>2, <1>3, <2>2 DEF Sound, Tagging, Elided
<1>5. \A v \in Vars : depth[v] = 0
  BY <1>1 DEF IInv, InBlock
<1>6. Sole(depth, flag, slot, heap) /\ Flagged(depth, flag, U, 1)
  BY <1>5 DEF Sole, Flagged
<1>7. Sound(U)' /\ Sole(depth, flag, slot, heap)' /\ Flagged(depth, flag, U, pos)'
  BY <1>1, <1>4, <1>6 DEF Sound, Sole, Flagged
<1>8. Executing'
  BY <1>7 DEF Executing
<1> QED
  BY <1>1, <1>2, <1>8

\* A step of the run.
LEMMA RunHarmless ==
    ASSUME IInv, Harmless, IInv', Run
    PROVE  Harmless'
<1>1. /\ phase = "run" /\ phase' = "run" /\ pos <= Len(prog) /\ RunStmt
      /\ UNCHANGED <<gram, prog, mate, moved_out, ann>>
  BY RunStatic DEF Run, checkVars
<1> SUFFICES ASSUME SoundForms PROVE Sane(prog, mate)' /\ fault' = {} /\ Executing'
  BY <1>1 DEF Harmless, SoundForms
<1>2. Sane(prog, mate) /\ fault = {} /\ Executing /\ Shape /\ AllClosed /\ Owned /\ InBlock
  BY <1>1 DEF Harmless, IInv, Closed
<1>3. Len(prog) \in Nat /\ pos \in 1 .. Len(prog) + 2 /\ pos' \in 1 .. Len(prog) + 2
  <2>1. Len(prog) \in Nat
    BY <1>2 DEF Shape
  <2>2. pos' \in 1 .. Len(prog) + 2
    BY <1>1 DEF IInv, InBlock
  <2> QED
    BY <1>1, <1>2, <2>1, <2>2 DEF InBlock
<1>4. PICK U : /\ Sound(U) /\ Sole(depth, flag, slot, heap)
               /\ pos <= Len(prog) + 1 => Flagged(depth, flag, U, pos)
  BY <1>2 DEF Executing
<1>5. Safe(U)
  <2>1. pos \in Positions(prog) /\ pos <= Len(prog) + 1
    BY <1>1, <1>3 DEF Positions
  <2>2. ScopeAt(prog, mate, depth, pos)
    BY <1>1, <1>2, <2>1 DEF InBlock
  <2> QED
    BY <1>2, <1>4, <2>1, <2>2 DEF Safe, Running
<1>6. StaysSafe(U)
  BY <1>1, <1>5, RunSafe
<1>7. Sound(U)'
  BY <1>1, <1>4 DEF Sound
<1>8. Sole(depth, flag, slot, heap)' /\ fault' = {}
  BY <1>6 DEF StaysSafe
<1>9. (pos <= Len(prog) + 1 => Flagged(depth, flag, U, pos))'
  <2>1. pos' <= Len(prog) + 1 => pos' \in 1 .. Len(prog) + 1
    BY <1>3
  <2>2. pos' <= Len(prog) + 1 => Flagged(depth', flag', U, pos')
    BY <1>6, <2>1 DEF StaysSafe
  <2> QED
    BY <1>1, <2>2 DEF Flagged
<1>10. Executing'
  BY <1>7, <1>8, <1>9 DEF Executing
<1> QED
  BY <1>1, <1>2, <1>8, <1>10

\* The end of the function.
LEMMA FallOffHarmless ==
    ASSUME IInv, Harmless, FallOff
    PROVE  Harmless'
<1>1. /\ phase = "run" /\ phase' = "run" /\ RunFallOff
      /\ UNCHANGED <<gram, prog, mate, moved_out, ann>>
  BY DEF FallOff, RunFallOff, Static, checkVars
<1> SUFFICES ASSUME SoundForms PROVE Sane(prog, mate)' /\ fault' = {} /\ Executing'
  BY <1>1 DEF Harmless, SoundForms
<1>2. Sane(prog, mate) /\ fault = {} /\ Executing /\ Owned /\ Len(prog) \in Nat
  BY <1>1 DEF Harmless, IInv, Shape
<1>3. PICK U : Sound(U) /\ Sole(depth, flag, slot, heap)
  BY <1>2 DEF Executing
<1>4. pos' = Len(prog) + 2
  BY <1>1, <1>2, FallOffOwned
<1>5. Keep(Cleanup(Now, InScope(0))) /\ Leave(InScope(0)) /\ slot' = slot /\ flag' = flag
  BY <1>1 DEF RunFallOff
<1>6. Sole(depth', flag', slot', heap') /\ fault' = {}
  BY <1>2, <1>3, <1>5, CleanupSafe
<1>7. Sound(U)' /\ ~(pos' <= Len(prog') + 1)
  BY <1>1, <1>2, <1>3, <1>4 DEF Sound
<1>8. Executing'
  BY <1>6, <1>7 DEF Executing
<1> QED
  BY <1>1, <1>2, <1>6, <1>8

\* The induction step.
LEMMA NextHarmless == IInv /\ IInv' /\ Harmless /\ [Next]_vars => Harmless'
<1> SUFFICES ASSUME IInv, IInv', Harmless, [Next]_vars PROVE Harmless'
  OBVIOUS
<1>1. CASE Exit
  BY <1>1 DEF Exit, checkVars, codeVars, Harmless, SoundForms
<1>2. CASE UNCHANGED vars
  <2>1. UNCHANGED <<phase, ann, pos, gram, prog, mate, st, frames, moved_out, used, eframes, slot, flag, depth, heap, fault>>
    BY <1>2 DEF vars, checkVars, elideVars, codeVars
  <2>2. Depths' = Depths
    BY <2>1 DEF Depths
  <2>3. Checking => Checking'
    BY <2>1, <2>2 DEF Checking, Tracked, Rewalked, Settled
  <2>4. Tagging => Tagging'
    <3> SUFFICES ASSUME Tagging PROVE Tagging'
      OBVIOUS
    <3>1. PICK U, O : Elided(U, O)
      BY DEF Tagging
    <3>2. Elided(U, O)'
      BY <2>1, <3>1 DEF Elided
    <3> QED
      BY <2>1, <3>2 DEF Tagging
  <2>5. Executing => Executing'
    <3> SUFFICES ASSUME Executing PROVE Executing'
      OBVIOUS
    <3>1. PICK U : /\ Sound(U) /\ Sole(depth, flag, slot, heap)
                   /\ pos <= Len(prog) + 1 => Flagged(depth, flag, U, pos)
      BY DEF Executing
    <3>2. /\ Sound(U)' /\ Sole(depth, flag, slot, heap)'
          /\ (pos <= Len(prog) + 1 => Flagged(depth, flag, U, pos))'
      BY <2>1, <3>1 DEF Sound, Sole, Flagged
    <3> QED
      BY <3>2 DEF Executing
  <2> QED
    BY <2>1, <2>3, <2>4, <2>5 DEF Harmless, SoundForms
<1> QED
  BY <1>1, <1>2, CheckHarmless, AcceptHarmless, ElideHarmless, EmitHarmless, RunHarmless, FallOffHarmless DEF Next

\* On every path of every accepted program of the sound forms: what the checker
\* holds live was moved on no path to here, what clone elision took is read on no
\* path from here, and the locals whose drops are not suppressed hold live blocks,
\* each its own.
THEOREM MoveInvariant == Spec => [](IInv /\ Harmless)
<1>1. Init => IInv /\ Harmless
  BY InitScope, InitHarmless
<1>2. IInv /\ Harmless /\ [Next]_vars => (IInv /\ Harmless)'
  BY NextScope, NextHarmless
<1> QED
  BY <1>1, <1>2, PTL DEF Spec

\* No heap value is dropped twice, on any path of any accepted program: the
\* callee, the assignment, the scope cleanup and the caller never both drop.
THEOREM OwnershipNoDoubleFree == Spec => []NoDoubleFree
<1>1. IInv /\ Harmless => NoDoubleFree
  BY DEF Harmless, NoDoubleFree
<1> QED
  BY <1>1, MoveInvariant, PTL

\* No statement of an accepted program reads a value that was moved away,
\* whether the program moved it or clone elision did.
THEOREM OwnershipNoUseAfterMove == Spec => []NoUseAfterMove
<1>1. IInv /\ Harmless => NoUseAfterMove
  BY DEF Harmless, NoUseAfterMove
<1> QED
  BY <1>1, MoveInvariant, PTL

\* A variable the checker holds live at a statement really owns its value when
\* control is there, unless clone elision took it at its last use.
THEOREM OwnershipLiveOwns == Spec => []LiveOwns
<1>1. IInv /\ Harmless => LiveOwns
  <2> SUFFICES ASSUME IInv, Harmless, SoundForms, phase = "run", pos <= Len(prog),
                      NEW v \in Vars, ann[pos][v] = "live", flag[v]
               PROVE  \E i \in moved_out : prog[i].k = "arg" /\ prog[i].v = v
    BY DEF LiveOwns
  <2>1. Len(prog) \in Nat /\ pos \in 1 .. Len(prog) + 2
    BY DEF IInv, Shape, InBlock
  <2>2. pos \in Positions(prog) /\ pos <= Len(prog) + 1
    BY <2>1 DEF Positions
  <2>3. PICK U : Sound(U) /\ Flagged(depth, flag, U, pos)
    BY <2>2 DEF Harmless, Executing
  <2>4. Verdict(prog, mate, ann, pos)
    BY <2>2, <2>3 DEF Sound
  <2>5. Clean(prog, mate, v, pos)
    BY <2>4 DEF Verdict, LiveClean
  <2>6. PICK d \in Positions(prog) : DeclOf(prog, d, v) /\ Visible(prog, mate, d, pos)
    BY <2>4 DEF Verdict, InSight
  <2>7. depth[v] # 0
    <3>1. ScopeAt(prog, mate, depth, pos) /\ Closing(prog, mate) /\ AllClosed
      BY <2>2 DEF IInv, InBlock, Shape, Closed
    <3>2. depth[v] = Cardinality(Around(prog, mate, d)) + 1
      BY <2>6, <3>1 DEF ScopeAt
    <3>3. Cardinality(Around(prog, mate, d)) \in Nat
      BY <2>1, <3>1, NestAround
    <3> QED
      BY <3>2, <3>3
  <2>8. Gone(prog, mate, U, moved_out, v, pos)
    BY <2>3, <2>7 DEF Flagged
  <2> QED
    BY <2>5, <2>8 DEF Gone, Clean
<1> QED
  BY <1>1, MoveInvariant, PTL
=============================================================================
