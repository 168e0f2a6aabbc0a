--------------------------- MODULE OwnScopeProofs ---------------------------
(***************************************************************************)
(* Machine-checked proofs about the ownership pipeline, first part, for    *)
(* every program: the blocks the checker closes are the blocks the emitted *)
(* code leaves, a local is in scope at run time exactly where its          *)
(* declaration is visible, and no heap value is leaked.                    *)
(***************************************************************************)
EXTENDS Ownership, FiniteSetTheorems, NaturalsInduction, SequenceTheorems, WellFoundedInduction, TLAPS

-----------------------------------------------------------------------------
(* The shape of the program, as far as it was walked. *)

Kinds == Unary \cup Binary \cup Returns \cup Exits \cup Opens \cup {"else", "end"}

Statement == {s \in [k : Kinds, v : Vars \cup {NoVar}, w : Vars \cup {NoVar}] :
                 /\ s.v # NoVar <=> s.k \in Unary \cup Binary
                 /\ s.w # NoVar <=> s.k \in Binary}

Positions(P) == 1 .. Len(P)

\* The if and while statements that position p is inside of; one whose end
\* was not walked yet is around everything behind it.
Around(P, M, p) == {i \in Positions(P) : P[i].k \in Opens /\ i < p /\ (i \in DOMAIN M => p <= M[i])}

\* d declares v.
DeclOf(P, d, v) == d \in Positions(P) /\ P[d].k \in Decls /\ P[d].v = v

\* e is the else that ends a block around (or of) position d.
Splits(P, M, e, d) == P[e].k = "else" /\ Around(P, M, e) \subseteq Around(P, M, d)

\* The else of the if at i lies before p.
InElse(P, M, i, p) ==
    \E e \in Positions(P) : e < p /\ P[e].k = "else" /\ Around(P, M, e) = Around(P, M, i) \cup {i}

\* What d declares is in scope at p.
Visible(P, M, d, p) ==
    /\ d < p /\ Around(P, M, d) \subseteq Around(P, M, p)
    /\ \A e \in Positions(P) : d < e /\ e < p => ~Splits(P, M, e, d)

\* Names a statement needs in scope.
Needs(s) == ({s.v, s.w} \ {NoVar}) \ (IF s.k \in Decls THEN {s.v} ELSE {})

Closing(P, M) ==
    /\ DOMAIN M \subseteq {i \in Positions(P) : P[i].k \in Opens}
    /\ \A i \in DOMAIN M : M[i] \in Positions(P) /\ i < M[i] /\ P[M[i]].k = "end"
    /\ \A i \in Positions(P), h \in DOMAIN M : P[i].k \in Opens /\ h < i /\ i <= M[h] =>
          i \in DOMAIN M /\ M[i] < M[h]
    /\ \A p \in Positions(P) : P[p].k = "end" => \E i \in DOMAIN M : M[i] = p

Elses(P, M) ==
    /\ \A e \in Positions(P) : P[e].k = "else" =>
          \E i \in Positions(P) : P[i].k = "if" /\ i < e /\ Around(P, M, e) = Around(P, M, i) \cup {i}
    /\ \A e, f \in Positions(P) : P[e].k = "else" /\ P[f].k = "else" /\ Around(P, M, e) = Around(P, M, f) => e = f

Scoped(P, M) ==
    /\ \A c, d \in Positions(P) : P[c].k \in Decls /\ P[d].k \in Decls /\ P[c].v = P[d].v => c = d
    /\ \A p \in Positions(P) : \A v \in Needs(P[p]) : \E d \in Positions(P) : DeclOf(P, d, v) /\ Visible(P, M, d, p)
    /\ \A p \in Positions(P) : P[p].k \in Exits => \E i \in Around(P, M, p) : P[i].k \in Loops

Shape == prog \in Seq(Statement) /\ mate \in [DOMAIN mate -> Nat]
         /\ Closing(prog, mate) /\ Elses(prog, mate) /\ Scoped(prog, mate)

-----------------------------------------------------------------------------
(* The checker's walk. *)

States == [Vars -> Status]
Frame  == [k : Opens \cup {"else"}, at : Nat, base : States, other : States, pass : {1, 2}]

Depths == 1 .. Len(frames)

\* The open frames are the blocks around pos, outermost first.
Stack ==
    /\ frames \in Seq(Frame)
    /\ \A x, y \in Depths : x < y => frames[x].at < frames[y].at
    /\ {frames[x].at : x \in Depths} = Around(prog, mate, pos)
    /\ \A x \in Depths : frames[x].k = IF InElse(prog, mate, frames[x].at, pos) THEN "else"
                                       ELSE prog[frames[x].at].k

\* What S holds defined is in scope at p.
InSight(P, M, S, p) ==
    \A v \in Vars : S[v] # "undef" => \E d \in Positions(P) : DeclOf(P, d, v) /\ Visible(P, M, d, p)

Defined ==
    /\ InSight(prog, mate, st, pos)
    /\ \A x \in Depths : InSight(prog, mate, frames[x].base, frames[x].at)

Walking == pos \in 1 .. Len(prog) + 1 /\ st \in States /\ Stack /\ Defined

Walk == phase = "check" => Walking

\* Every block of the finished program is closed.
AllClosed == DOMAIN mate = {i \in Positions(prog) : prog[i].k \in Opens}

Closed == phase # "check" => AllClosed

-----------------------------------------------------------------------------
(* The run. *)

\* A local is in scope exactly where its declaration is visible, at the depth
\* of the declaration.
ScopeAt(P, M, D, p) ==
    \A v \in Vars :
       /\ D[v] # 0 => \E d \in Positions(P) : DeclOf(P, d, v)
       /\ \A d \in Positions(P) : DeclOf(P, d, v) =>
             D[v] = IF Visible(P, M, d, p) THEN Cardinality(Around(P, M, d)) + 1 ELSE 0

InBlock ==
    /\ phase \in {"check", "elide", "run", "done"}
    /\ phase = "elide" => pos \in 0 .. Len(prog)
    /\ phase = "run" => pos \in 1 .. Len(prog) + 2
    /\ phase = "run" /\ pos <= Len(prog) + 1 => ScopeAt(prog, mate, depth, pos)
    /\ phase \in {"check", "elide", "done"} => \A v \in Vars : depth[v] = 0
    /\ phase = "run" /\ pos = Len(prog) + 2 => \A v \in Vars : depth[v] = 0

\* Every live block belongs to a local in scope.
Heaps  == Seq({"live", "freed"})
Memory == [h : Heaps, f : SUBSET {"double_free", "use_after_free", "use_after_move"}]

Owned ==
    /\ Now \in Memory
    /\ flag \in [Vars -> BOOLEAN] /\ depth \in [Vars -> Nat] /\ slot \in [Vars -> Nat]
    /\ \A b \in 1 .. Len(heap) : heap[b] = "live" => \E v \in Vars : depth[v] # 0 /\ ~flag[v] /\ slot[v] = b

IInv == Shape /\ Walk /\ Closed /\ InBlock /\ Owned

-----------------------------------------------------------------------------
(* Blocks. *)

\* Positions(P) and the ends of blocks are numbers.
LEMMA Numbers ==
    ASSUME NEW P, NEW M, Closing(P, M)
    PROVE  /\ Positions(P) \in SUBSET Nat
           /\ \A i \in DOMAIN M : i \in Positions(P) /\ i \in Nat /\ M[i] \in Positions(P) /\ M[i] \in Nat
           /\ \A p : Around(P, M, p) \in SUBSET Nat /\ Around(P, M, p) \subseteq Positions(P)
  BY DEF Closing, Positions, Around

\* Whoever is around a position is around what lies between.
LEMMA AroundBetween ==
    ASSUME NEW P, NEW M, Closing(P, M), NEW p \in Nat, NEW i \in Around(P, M, p), NEW q \in Nat, i < q, q <= p
    PROVE  i \in Around(P, M, q)
<1>1. i \in Positions(P) /\ i \in Nat /\ P[i].k \in Opens /\ (i \in DOMAIN M => p <= M[i])
  BY Numbers DEF Around
<1>2. i \in DOMAIN M => M[i] \in Nat
  BY Numbers
<1>3. i \in DOMAIN M => q <= M[i]
  BY <1>1, <1>2
<1> QED
  BY <1>1, <1>3 DEF Around

\* Blocks nest: what is around a block is around what is inside it.
LEMMA AroundNested ==
    ASSUME NEW P, NEW M, Closing(P, M), NEW p \in Nat, NEW i \in Around(P, M, p)
    PROVE  Around(P, M, i) \subseteq Around(P, M, p)
<1> SUFFICES ASSUME NEW h \in Around(P, M, i) PROVE h \in Around(P, M, p)
  OBVIOUS
<1>1. /\ i \in Positions(P) /\ i \in Nat /\ i < p /\ P[i].k \in Opens /\ (i \in DOMAIN M => p <= M[i])
      /\ h \in Positions(P) /\ h \in Nat /\ h < i /\ P[h].k \in Opens /\ (h \in DOMAIN M => i <= M[h])
  BY Numbers DEF Around
<1>2. h < p
  BY <1>1
<1>3. h \in DOMAIN M => p <= M[h]
  <2> SUFFICES ASSUME h \in DOMAIN M PROVE p <= M[h]
    OBVIOUS
  <2>1. i \in DOMAIN M /\ M[i] < M[h]
    BY <1>1 DEF Closing
  <2>2. M[i] \in Nat /\ M[h] \in Nat
    BY <2>1, Numbers
  <2> QED
    BY <1>1, <2>1, <2>2
<1> QED
  BY <1>1, <1>2, <1>3 DEF Around

\* A statement that opens and closes nothing.
LEMMA AroundSame ==
    ASSUME NEW P, NEW M, Closing(P, M), NEW p \in Positions(P), P[p].k \notin Opens \cup {"end"}
    PROVE  Around(P, M, p + 1) = Around(P, M, p)
<1>1. p \in Nat
  BY Numbers
<1>2. ASSUME NEW i \in Around(P, M, p + 1) PROVE i \in Around(P, M, p)
  <2>1. /\ i \in Positions(P) /\ i \in Nat /\ i < p + 1 /\ P[i].k \in Opens
        /\ i \in DOMAIN M => p + 1 <= M[i]
    BY <1>2, Numbers DEF Around
  <2>2. i # p
    BY <2>1
  <2>3. i \in DOMAIN M => p <= M[i]
    BY <1>1, <2>1, Numbers
  <2>4. i < p
    BY <1>1, <2>1, <2>2
  <2> QED
    BY <2>1, <2>3, <2>4 DEF Around
<1>3. ASSUME NEW i \in Around(P, M, p) PROVE i \in Around(P, M, p + 1)
  <2>1. /\ i \in Positions(P) /\ i \in Nat /\ i < p /\ P[i].k \in Opens
        /\ i \in DOMAIN M => p <= M[i]
    BY <1>3, Numbers DEF Around
  <2>2. i \in DOMAIN M => p # M[i] /\ M[i] \in Nat
    BY Numbers DEF Closing
  <2>3. i \in DOMAIN M => p + 1 <= M[i]
    BY <1>1, <2>1, <2>2
  <2>4. i < p + 1
    BY <1>1, <2>1
  <2> QED
    BY <2>1, <2>3, <2>4 DEF Around
<1> QED
  BY <1>2, <1>3

\* Behind the head of a block.
LEMMA AroundOpen ==
    ASSUME NEW P, NEW M, Closing(P, M), NEW p \in Positions(P), P[p].k \in Opens
    PROVE  Around(P, M, p + 1) = Around(P, M, p) \cup {p}
<1>1. p \in Nat /\ "end" \notin Opens
  BY Numbers DEF Opens, Loops
<1>2. ASSUME NEW i \in Around(P, M, p + 1), i # p PROVE i \in Around(P, M, p)
  <2>1. /\ i \in Positions(P) /\ i \in Nat /\ i < p + 1 /\ P[i].k \in Opens
        /\ i \in DOMAIN M => p + 1 <= M[i]
    BY <1>2, Numbers DEF Around
  <2>3. i \in DOMAIN M => p <= M[i]
    BY <1>1, <2>1, Numbers
  <2>4. i < p
    BY <1>1, <1>2, <2>1
  <2> QED
    BY <2>1, <2>3, <2>4 DEF Around
<1>3. ASSUME NEW i \in Around(P, M, p) PROVE i \in Around(P, M, p + 1)
  <2>1. /\ i \in Positions(P) /\ i \in Nat /\ i < p /\ P[i].k \in Opens
        /\ i \in DOMAIN M => p <= M[i]
    BY <1>3, Numbers DEF Around
  <2>2. i \in DOMAIN M => p # M[i] /\ M[i] \in Nat
    BY <1>1, Numbers DEF Closing
  <2>3. i \in DOMAIN M => p + 1 <= M[i]
    BY <1>1, <2>1, <2>2
  <2>4. i < p + 1
    BY <1>1, <2>1
  <2> QED
    BY <2>1, <2>3, <2>4 DEF Around
<1>4. p \in Around(P, M, p + 1)
  <2>1. p \in DOMAIN M => p + 1 <= M[p]
    BY <1>1, Numbers DEF Closing
  <2>2. p < p + 1
    BY <1>1
  <2> QED
    BY <2>1, <2>2 DEF Around
<1> QED
  BY <1>2, <1>3, <1>4

\* At the end of a block and behind it.
LEMMA AroundEnd ==
    ASSUME NEW P, NEW M, Closing(P, M), NEW i \in DOMAIN M
    PROVE  /\ Around(P, M, M[i]) = Around(P, M, i) \cup {i}
           /\ Around(P, M, M[i] + 1) = Around(P, M, i)
<1>1. /\ i \in Positions(P) /\ i \in Nat /\ M[i] \in Nat /\ M[i] \in Positions(P) /\ i < M[i]
      /\ P[i].k \in Opens /\ P[M[i]].k = "end" /\ "end" \notin Opens
  BY Numbers DEF Closing, Opens, Loops
<1>2. i \in Around(P, M, M[i])
  BY <1>1 DEF Around
<1>3. Around(P, M, i) \subseteq Around(P, M, M[i])
  BY <1>1, <1>2, AroundNested
<1>4. ASSUME NEW j \in Around(P, M, M[i]), j # i PROVE j \in Around(P, M, i)
  <2>1. /\ j \in Positions(P) /\ j \in Nat /\ P[j].k \in Opens /\ j < M[i]
        /\ j \in DOMAIN M => M[i] <= M[j] /\ M[j] \in Nat
    BY <1>4, Numbers DEF Around
  <2>2. ~(i < j)
    <3> SUFFICES ASSUME i < j PROVE FALSE
      OBVIOUS
    <3>1. j <= M[i]
      BY <1>1, <2>1
    <3>2. j \in DOMAIN M /\ M[j] < M[i]
      BY <2>1, <3>1 DEF Closing
    <3> QED
      BY <1>1, <2>1, <3>2
  <2>3. j < i
    BY <1>1, <1>4, <2>1, <2>2
  <2> QED
    BY <1>1, <1>4, <2>3, AroundBetween
<1>5. ASSUME NEW j \in Around(P, M, M[i] + 1) PROVE j \in Around(P, M, i)
  <2>1. /\ j \in Positions(P) /\ j \in Nat /\ P[j].k \in Opens /\ j < M[i] + 1
        /\ j \in DOMAIN M => M[i] + 1 <= M[j] /\ M[j] \in Nat
    BY <1>5, Numbers DEF Around
  <2>2. j # M[i] /\ j # i
    BY <1>1, <2>1
  <2>3. j < M[i] /\ (j \in DOMAIN M => M[i] <= M[j])
    BY <1>1, <2>1, <2>2
  <2>4. j \in Around(P, M, M[i])
    BY <2>1, <2>3 DEF Around
  <2> QED
    BY <1>4, <2>2, <2>4
<1>6. ASSUME NEW j \in Around(P, M, i) PROVE j \in Around(P, M, M[i] + 1)
  <2>1. /\ j \in Positions(P) /\ j \in Nat /\ P[j].k \in Opens /\ j < i
        /\ j \in DOMAIN M => i <= M[j] /\ M[j] \in Nat
    BY <1>6, Numbers DEF Around
  <2>2. j \in DOMAIN M => M[i] < M[j]
    BY <1>1, <2>1 DEF Closing
  <2>3. j \in DOMAIN M => M[i] + 1 <= M[j]
    BY <1>1, <2>1, <2>2
  <2>4. j < M[i] + 1
    BY <1>1, <2>1
  <2> QED
    BY <2>1, <2>3, <2>4 DEF Around
<1> QED
  BY <1>2, <1>3, <1>4, <1>5, <1>6

-----------------------------------------------------------------------------
(* What is in scope where. *)

\* What is in scope at a position was in scope at every position since.
LEMMA VisEarlier ==
    ASSUME NEW P, NEW M, Closing(P, M), NEW d \in Nat, NEW i \in Nat, NEW q \in Nat,
           d < i, i <= q, Visible(P, M, d, q)
    PROVE  Visible(P, M, d, i)
<1>1. Around(P, M, d) \subseteq Around(P, M, i)
  <2> SUFFICES ASSUME NEW h \in Around(P, M, d) PROVE h \in Around(P, M, i)
    OBVIOUS
  <2>1. h \in Around(P, M, q) /\ h \in Nat /\ h < d
    BY Numbers DEF Visible, Around
  <2>2. h < i
    BY <2>1
  <2> QED
    BY <2>1, <2>2, AroundBetween
<1>2. \A e \in Positions(P) : d < e /\ e < i => ~Splits(P, M, e, d)
  <2> SUFFICES ASSUME NEW e \in Positions(P), d < e, e < i PROVE ~Splits(P, M, e, d)
    OBVIOUS
  <2>1. e \in Nat
    BY Numbers
  <2>2. e < q
    BY <2>1
  <2> QED
    BY <2>2 DEF Visible
<1> QED
  BY <1>1, <1>2 DEF Visible

\* A statement that opens and closes nothing.
LEMMA VisStep ==
    ASSUME NEW P, NEW M, Closing(P, M), NEW p \in Positions(P),
           P[p].k \notin Opens \cup {"end", "else"}, NEW d \in Nat
    PROVE  Visible(P, M, d, p + 1) <=> Visible(P, M, d, p) \/ d = p
<1>1. p \in Nat /\ Positions(P) \subseteq Nat
  BY Numbers
<1>2. Around(P, M, p + 1) = Around(P, M, p)
  BY AroundSame
<1>3. ASSUME Visible(P, M, d, p + 1), d # p PROVE Visible(P, M, d, p)
  <2>1. d < p /\ p <= p + 1 /\ p + 1 \in Nat
    BY <1>1, <1>3 DEF Visible
  <2> QED
    BY <1>1, <1>3, <2>1, VisEarlier
<1>4. ASSUME Visible(P, M, d, p) PROVE Visible(P, M, d, p + 1)
  <2>1. d < p + 1
    BY <1>1, <1>4 DEF Visible
  <2>2. ASSUME NEW e \in Positions(P), d < e, e < p + 1 PROVE ~Splits(P, M, e, d)
    <3>1. e < p \/ e = p
      BY <1>1, <2>2
    <3> QED
      BY <1>4, <2>2, <3>1 DEF Visible, Splits
  <2> QED
    BY <1>2, <1>4, <2>1, <2>2 DEF Visible
<1>5. ASSUME d = p PROVE Visible(P, M, d, p + 1)
  <2>1. d < p + 1
    BY <1>1, <1>5
  <2>2. \A e \in Positions(P) : ~(d < e /\ e < p + 1)
    BY <1>1, <1>5
  <2> QED
    BY <1>2, <1>5, <2>1, <2>2 DEF Visible
<1> QED
  BY <1>3, <1>4, <1>5

\* The head of a block.
LEMMA VisOpen ==
    ASSUME NEW P, NEW M, Closing(P, M), NEW p \in Positions(P), P[p].k \in Opens,
           NEW d \in Nat, d # p
    PROVE  Visible(P, M, d, p + 1) <=> Visible(P, M, d, p)
<1>1. p \in Nat /\ Positions(P) \subseteq Nat
  BY Numbers
<1>2. Around(P, M, p + 1) = Around(P, M, p) \cup {p} /\ P[p].k # "else"
  BY AroundOpen DEF Opens, Loops
<1>3. ASSUME Visible(P, M, d, p + 1) PROVE Visible(P, M, d, p)
  <2>1. d < p /\ p <= p + 1 /\ p + 1 \in Nat
    BY <1>1, <1>3 DEF Visible
  <2> QED
    BY <1>1, <1>3, <2>1, VisEarlier
<1>4. ASSUME Visible(P, M, d, p) PROVE Visible(P, M, d, p + 1)
  <2>1. d < p + 1
    BY <1>1, <1>4 DEF Visible
  <2>2. ASSUME NEW e \in Positions(P), d < e, e < p + 1 PROVE ~Splits(P, M, e, d)
    <3>1. e < p \/ e = p
      BY <1>1, <2>2
    <3> QED
      BY <1>2, <1>4, <2>2, <3>1 DEF Visible, Splits
  <2> QED
    BY <1>2, <1>4, <2>1, <2>2 DEF Visible
<1> QED
  BY <1>3, <1>4

\* From the head of a block into it or past it, as long as only the block
\* lies between.
LEMMA VisBlock ==
    ASSUME NEW P, NEW M, Closing(P, M), NEW i \in Positions(P), P[i].k \in Opens,
           NEW q \in Nat, i < q, Around(P, M, i) \subseteq Around(P, M, q),
           \A e \in Positions(P) : i < e /\ e < q => i \in Around(P, M, e),
           NEW d \in Nat, Visible(P, M, d, i)
    PROVE  Visible(P, M, d, q)
<1>1. i \in Nat /\ Positions(P) \subseteq Nat /\ d < i /\ Around(P, M, d) \subseteq Around(P, M, i)
  BY Numbers DEF Visible
<1>2. d < q
  BY <1>1
<1>3. ASSUME NEW e \in Positions(P), d < e, e < q PROVE ~Splits(P, M, e, d)
  <2>1. e \in Nat
    BY <1>1
  <2>2. CASE e < i
    BY <1>3, <2>2 DEF Visible
  <2>3. CASE e = i
    BY <2>3 DEF Splits, Opens, Loops
  <2>4. CASE i < e
    <3>1. i \in Around(P, M, e)
      BY <1>3, <2>4
    <3>2. i \notin Around(P, M, d)
      BY <1>1 DEF Around
    <3> QED
      BY <3>1, <3>2 DEF Splits
  <2> QED
    BY <1>1, <2>1, <2>2, <2>3, <2>4
<1> QED
  BY <1>1, <1>2, <1>3 DEF Visible

\* Inside a block: what was declared before it is in scope as at its head.
LEMMA VisOut ==
    ASSUME NEW P, NEW M, Closing(P, M), NEW q \in Nat, NEW i \in Around(P, M, q), NEW d \in Nat
    PROVE  Visible(P, M, d, i) <=> d < i /\ Visible(P, M, d, q)
<1>1. i \in Positions(P) /\ i \in Nat /\ i < q /\ P[i].k \in Opens /\ Positions(P) \subseteq Nat
  BY Numbers DEF Around
<1>2. ASSUME d < i, Visible(P, M, d, q) PROVE Visible(P, M, d, i)
  <2>1. i <= q
    BY <1>1
  <2> QED
    BY <1>1, <1>2, <2>1, VisEarlier
<1>3. ASSUME Visible(P, M, d, i) PROVE d < i /\ Visible(P, M, d, q)
  <2>1. Around(P, M, i) \subseteq Around(P, M, q)
    BY AroundNested
  <2>2. ASSUME NEW e \in Positions(P), i < e, e < q PROVE i \in Around(P, M, e)
    <3>1. e \in Nat /\ e <= q
      BY <1>1, <2>2
    <3> QED
      BY <2>2, <3>1, AroundBetween
  <2>3. Visible(P, M, d, q)
    BY <1>1, <1>3, <2>1, <2>2, VisBlock
  <2> QED
    BY <1>3, <2>3 DEF Visible
<1> QED
  BY <1>2, <1>3

\* Behind a block the scope is as at its head.
LEMMA VisSkip ==
    ASSUME NEW P, NEW M, Closing(P, M), NEW i \in DOMAIN M,
           NEW d \in Positions(P), P[d].k \notin Opens
    PROVE  Visible(P, M, d, M[i] + 1) <=> Visible(P, M, d, i)
<1>1. /\ i \in Positions(P) /\ i \in Nat /\ P[i].k \in Opens /\ M[i] \in Nat /\ i < M[i] /\ d \in Nat
      /\ Positions(P) \subseteq Nat
  BY Numbers DEF Closing
<1>2. Around(P, M, M[i] + 1) = Around(P, M, i) /\ i \in Around(P, M, M[i])
  BY AroundEnd
<1>3. M[i] + 1 \in Nat /\ i < M[i] + 1 /\ i <= M[i] + 1
  BY <1>1
<1>4. ASSUME Visible(P, M, d, M[i] + 1) PROVE Visible(P, M, d, i)
  <2>1. d # i /\ d < M[i] + 1 /\ Around(P, M, d) \subseteq Around(P, M, i)
    BY <1>1, <1>2, <1>4 DEF Visible
  <2>2. ~(i < d)
    <3> SUFFICES ASSUME i < d PROVE FALSE
      OBVIOUS
    <3>1. d <= M[i]
      BY <1>1, <2>1
    <3>2. i \in Around(P, M, d)
      BY <1>1, <1>2, <3>1, AroundBetween
    <3>3. i \notin Around(P, M, i)
      BY <1>1 DEF Around
    <3> QED
      BY <2>1, <3>2, <3>3
  <2>3. d < i
    BY <1>1, <2>1, <2>2
  <2> QED
    BY <1>1, <1>3, <1>4, <2>3, VisEarlier
<1>5. ASSUME Visible(P, M, d, i) PROVE Visible(P, M, d, M[i] + 1)
  <2>1. ASSUME NEW e \in Positions(P), i < e, e < M[i] + 1 PROVE i \in Around(P, M, e)
    <3>1. e \in Nat /\ e <= M[i]
      BY <1>1, <2>1
    <3> QED
      BY <1>1, <1>2, <2>1, <3>1, AroundBetween
  <2> QED
    BY <1>1, <1>2, <1>3, <1>5, <2>1, VisBlock
<1> QED
  BY <1>4, <1>5

\* At the start of an else branch the scope is as at the if.
LEMMA VisElse ==
    ASSUME NEW P, NEW M, Closing(P, M), NEW i \in Positions(P), P[i].k \in Opens,
           NEW e \in Positions(P), P[e].k = "else", i < e,
           Around(P, M, e) = Around(P, M, i) \cup {i},
           NEW d \in Positions(P), P[d].k \notin Opens \cup {"else"}
    PROVE  Visible(P, M, d, e + 1) <=> Visible(P, M, d, i)
<1>1. i \in Nat /\ e \in Nat /\ d \in Nat /\ Positions(P) \subseteq Nat
  BY Numbers
<1>2. Around(P, M, e + 1) = Around(P, M, e) /\ i \in Around(P, M, e)
  <2>1. P[e].k \notin Opens \cup {"end"}
    BY DEF Opens, Loops
  <2> QED
    BY <2>1, AroundSame
<1>3. e + 1 \in Nat /\ i < e + 1 /\ i <= e + 1 /\ e < e + 1
  BY <1>1
<1>4. ASSUME Visible(P, M, d, e + 1) PROVE Visible(P, M, d, i)
  <2>1. d # i /\ d # e /\ d < e + 1
    BY <1>4 DEF Visible
  <2>2. ~(i < d)
    <3> SUFFICES ASSUME i < d PROVE FALSE
      OBVIOUS
    <3>1. d < e /\ d <= e
      BY <1>1, <2>1
    <3>2. i \in Around(P, M, d)
      BY <1>1, <1>2, <3>1, AroundBetween
    <3>3. Around(P, M, i) \subseteq Around(P, M, d)
      BY <1>1, <3>2, AroundNested
    <3>4. Splits(P, M, e, d)
      BY <3>2, <3>3 DEF Splits
    <3> QED
      BY <1>3, <1>4, <3>1, <3>4 DEF Visible
  <2>3. d < i
    BY <1>1, <2>1, <2>2
  <2> QED
    BY <1>1, <1>3, <1>4, <2>3, VisEarlier
<1>5. ASSUME Visible(P, M, d, i) PROVE Visible(P, M, d, e + 1)
  <2>1. ASSUME NEW f \in Positions(P), i < f, f < e + 1 PROVE i \in Around(P, M, f)
    <3>1. f \in Nat /\ f <= e
      BY <1>1, <2>1
    <3> QED
      BY <1>1, <1>2, <2>1, <3>1, AroundBetween
  <2>2. Around(P, M, i) \subseteq Around(P, M, e + 1)
    BY <1>2
  <2> QED
    BY <1>1, <1>3, <1>5, <2>1, <2>2, VisBlock
<1> QED
  BY <1>4, <1>5

-----------------------------------------------------------------------------
(* The program grows while it is first walked. *)

\* (Q, N) is (P, M), or one more statement that may close open blocks.
Extends(P, M, Q, N) ==
    /\ Len(P) \in Nat /\ Len(Q) \in Nat /\ Len(P) <= Len(Q)
    /\ \A i \in Positions(P) : Q[i] = P[i]
    /\ DOMAIN M \subseteq DOMAIN N
    /\ \A i \in DOMAIN M : N[i] = M[i]
    /\ \A i \in DOMAIN N \ DOMAIN M : N[i] = Len(P) + 1

\* What was walked keeps its place.
LEMMA AroundStable ==
    ASSUME NEW P, NEW M, NEW Q, NEW N, Extends(P, M, Q, N), NEW p \in Nat, p <= Len(P) + 1
    PROVE  Around(Q, N, p) = Around(P, M, p)
<1>1. ASSUME NEW i \in Around(Q, N, p) PROVE i \in Around(P, M, p)
  <2>1. i \in 1 .. Len(Q) /\ Q[i].k \in Opens /\ i < p /\ (i \in DOMAIN N => p <= N[i])
    BY <1>1 DEF Around, Positions
  <2>2. i \in 1 .. Len(P)
    BY <2>1 DEF Extends
  <2>3. P[i].k \in Opens
    BY <2>1, <2>2 DEF Extends, Positions
  <2>4. i \in DOMAIN M => p <= M[i]
    BY <2>1 DEF Extends
  <2> QED
    BY <2>1, <2>2, <2>3, <2>4 DEF Around, Positions
<1>2. ASSUME NEW i \in Around(P, M, p) PROVE i \in Around(Q, N, p)
  <2>1. i \in 1 .. Len(P) /\ P[i].k \in Opens /\ i < p /\ (i \in DOMAIN M => p <= M[i])
    BY <1>2 DEF Around, Positions
  <2>2. i \in 1 .. Len(Q)
    BY <2>1 DEF Extends
  <2>3. Q[i].k \in Opens
    BY <2>1 DEF Extends, Positions
  <2>4. i \in DOMAIN N => p <= N[i]
    BY <2>1 DEF Extends
  <2> QED
    BY <2>1, <2>2, <2>3, <2>4 DEF Around, Positions
<1> QED
  BY <1>1, <1>2

\* And its scope.
LEMMA VisStable ==
    ASSUME NEW P, NEW M, NEW Q, NEW N, Extends(P, M, Q, N), NEW p \in Nat, p <= Len(P) + 1,
           NEW d \in Nat
    PROVE  Visible(Q, N, d, p) <=> Visible(P, M, d, p)
<1>1. CASE ~(d < p)
  BY <1>1 DEF Visible
<1>2. CASE d < p
  <2>1. d <= Len(P) + 1 /\ Len(P) \in Nat /\ Len(Q) \in Nat /\ Len(P) <= Len(Q)
    BY <1>2 DEF Extends
  <2>2. Around(Q, N, p) = Around(P, M, p) /\ Around(Q, N, d) = Around(P, M, d)
    BY <2>1, AroundStable
  <2>3. ASSUME NEW e, e < p, d < e PROVE e \in Positions(Q) <=> e \in Positions(P)
    <3>1. e \in 1 .. Len(Q) => e <= Len(P)
      BY <2>1, <2>3
    <3> QED
      BY <2>1, <3>1 DEF Positions
  <2>4. ASSUME NEW e \in Positions(P), e < p PROVE Splits(Q, N, e, d) <=> Splits(P, M, e, d)
    <3>1. e \in Nat /\ e <= Len(P) + 1
      BY <2>1 DEF Positions
    <3>2. Around(Q, N, e) = Around(P, M, e)
      BY <3>1, AroundStable
    <3>3. Q[e] = P[e]
      BY DEF Extends
    <3> QED
      BY <2>2, <3>2, <3>3 DEF Splits
  <2> QED
    BY <2>2, <2>3, <2>4 DEF Visible
<1> QED
  BY <1>1, <1>2

\* A statement is appended.
LEMMA Appended ==
    ASSUME NEW P \in Seq(Statement), NEW s \in Statement
    PROVE  /\ Append(P, s) \in Seq(Statement) /\ Len(P) \in Nat /\ Len(Append(P, s)) = Len(P) + 1
           /\ Append(P, s)[Len(P) + 1] = s
           /\ \A i \in Positions(P) : Append(P, s)[i] = P[i]
           /\ Positions(Append(P, s)) = Positions(P) \cup {Len(P) + 1}
           /\ Positions(P) \subseteq Nat /\ \A i \in Positions(P) : i <= Len(P)
<1>1. Len(P) \in Nat
  OBVIOUS
<1>2. Append(P, s) \in Seq(Statement) /\ Len(Append(P, s)) = Len(P) + 1
  OBVIOUS
<1>3. Append(P, s)[Len(P) + 1] = s /\ \A i \in Positions(P) : Append(P, s)[i] = P[i]
  BY <1>1 DEF Positions
<1>4. Positions(Append(P, s)) = Positions(P) \cup {Len(P) + 1}
  BY <1>1, <1>2 DEF Positions
<1> QED
  BY <1>1, <1>2, <1>3, <1>4 DEF Positions

\* One that closes no block.
LEMMA GrowMore ==
    ASSUME NEW P \in Seq(Statement), NEW M, Closing(P, M), NEW s \in Statement, s.k # "end"
    PROVE  Closing(Append(P, s), M) /\ Extends(P, M, Append(P, s), M)
<1> DEFINE Q == Append(P, s)
           n == Len(P)
<1>1. /\ Q \in Seq(Statement) /\ n \in Nat /\ Len(Q) = n + 1 /\ Q[n + 1] = s
      /\ \A i \in Positions(P) : Q[i] = P[i]
      /\ Positions(Q) = Positions(P) \cup {n + 1}
      /\ Positions(P) \subseteq Nat /\ \A i \in Positions(P) : i <= n
  BY Appended
<1> HIDE DEF Q, n
<1>2. \A i \in DOMAIN M : i \in Positions(P) /\ M[i] \in Positions(P) /\ M[i] \in Nat /\ M[i] <= n
  BY <1>1 DEF Closing
<1>3. DOMAIN M \subseteq {i \in Positions(Q) : Q[i].k \in Opens}
  BY <1>1 DEF Closing
<1>4. \A i \in DOMAIN M : M[i] \in Positions(Q) /\ i < M[i] /\ Q[M[i]].k = "end"
  BY <1>1 DEF Closing
<1>5. ASSUME NEW i \in Positions(Q), NEW h \in DOMAIN M, Q[i].k \in Opens, h < i, i <= M[h]
      PROVE  i \in DOMAIN M /\ M[i] < M[h]
  <2>1. i # n + 1
    BY <1>1, <1>2, <1>5
  <2> QED
    BY <1>1, <1>5, <2>1 DEF Closing
<1>6. \A p \in Positions(Q) : Q[p].k = "end" => \E i \in DOMAIN M : M[i] = p
  BY <1>1 DEF Closing
<1>7. Closing(Q, M)
  BY <1>3, <1>4, <1>5, <1>6 DEF Closing
<1>8. Extends(P, M, Q, M)
  BY <1>1 DEF Extends, n
<1> QED
  BY <1>7, <1>8 DEF Q

\* The end of the innermost open block.
LEMMA GrowEnd ==
    ASSUME NEW P \in Seq(Statement), NEW M, Closing(P, M), NEW s \in Statement, s.k = "end",
           NEW t \in Around(P, M, Len(P) + 1), \A j \in Around(P, M, Len(P) + 1) : j <= t,
           NEW N, N = [i \in DOMAIN M \cup {t} |-> IF i = t THEN Len(P) + 1 ELSE M[i]]
    PROVE  /\ Closing(Append(P, s), N) /\ Extends(P, M, Append(P, s), N)
           /\ t \in DOMAIN N /\ N[t] = Len(P) + 1
<1> DEFINE Q == Append(P, s)
           n == Len(P)
<1>1. /\ Q \in Seq(Statement) /\ n \in Nat /\ Len(Q) = n + 1 /\ Q[n + 1] = s
      /\ \A i \in Positions(P) : Q[i] = P[i]
      /\ Positions(Q) = Positions(P) \cup {n + 1}
      /\ Positions(P) \subseteq Nat /\ \A i \in Positions(P) : i <= n
  BY Appended
<1>a. t \in Around(P, M, n + 1) /\ (\A j \in Around(P, M, n + 1) : j <= t)
  OBVIOUS
<1>b. N = [i \in DOMAIN M \cup {t} |-> IF i = t THEN n + 1 ELSE M[i]]
  OBVIOUS
<1> HIDE DEF Q, n
<1>2. \A i \in DOMAIN M : i \in Positions(P) /\ M[i] \in Positions(P) /\ M[i] \in Nat /\ M[i] <= n
  BY <1>1 DEF Closing
<1>3. t \in Positions(P) /\ P[t].k \in Opens /\ t \in Nat /\ t < n + 1 /\ t \notin DOMAIN M
  <2>1. t \in Positions(P) /\ P[t].k \in Opens /\ t < n + 1 /\ (t \in DOMAIN M => n + 1 <= M[t])
    BY <1>a DEF Around
  <2> QED
    BY <1>1, <1>2, <2>1
<1>4. DOMAIN N = DOMAIN M \cup {t} /\ N[t] = n + 1 /\ \A i \in DOMAIN M : N[i] = M[i]
  BY <1>3, <1>b
<1>5. DOMAIN N \subseteq {i \in Positions(Q) : Q[i].k \in Opens}
  BY <1>1, <1>3, <1>4 DEF Closing
<1>6. \A i \in DOMAIN N : N[i] \in Positions(Q) /\ i < N[i] /\ Q[N[i]].k = "end"
  BY <1>1, <1>3, <1>4 DEF Closing
<1>7. ASSUME NEW i \in Positions(Q), NEW h \in DOMAIN N, Q[i].k \in Opens, h < i, i <= N[h]
      PROVE  i \in DOMAIN N /\ N[i] < N[h]
  <2>1. i # n + 1
    BY <1>1, <1>7 DEF Opens, Loops
  <2>2. i \in Positions(P) /\ P[i].k \in Opens /\ i \in Nat /\ i <= n
    BY <1>1, <1>7, <2>1
  <2>3. CASE h = t
    <3>1. i \in DOMAIN M
      <4> SUFFICES ASSUME i \notin DOMAIN M PROVE FALSE
        OBVIOUS
      <4>1. i < n + 1
        BY <1>1, <2>2
      <4>2. i \in Around(P, M, n + 1)
        BY <2>2, <4>1 DEF Around
      <4>3. i <= t
        BY <1>a, <4>2
      <4> QED
        BY <1>3, <1>7, <2>2, <2>3, <4>3
    <3>2. M[i] < n + 1
      BY <1>1, <1>2, <3>1
    <3> QED
      BY <1>4, <2>3, <3>1, <3>2
  <2>4. CASE h # t
    <3>1. h \in DOMAIN M /\ i <= M[h]
      BY <1>4, <1>7, <2>4
    <3>2. i \in DOMAIN M /\ M[i] < M[h]
      BY <1>7, <2>2, <3>1 DEF Closing
    <3> QED
      BY <1>4, <3>1, <3>2
  <2> QED
    BY <2>3, <2>4
<1>8. ASSUME NEW p \in Positions(Q), Q[p].k = "end" PROVE \E i \in DOMAIN N : N[i] = p
  <2>1. CASE p = n + 1
    BY <1>4, <2>1
  <2>2. CASE p \in Positions(P)
    <3>1. PICK i \in DOMAIN M : M[i] = p
      BY <1>1, <1>8, <2>2 DEF Closing
    <3> QED
      BY <1>4, <3>1
  <2> QED
    BY <1>1, <2>1, <2>2
<1>9. Closing(Q, N)
  BY <1>5, <1>6, <1>7, <1>8 DEF Closing
<1>10. Extends(P, M, Q, N)
  <2>1. Len(P) \in Nat /\ Len(Q) \in Nat /\ Len(P) <= Len(Q)
    BY <1>1 DEF n
  <2>2. \A i \in DOMAIN N \ DOMAIN M : N[i] = Len(P) + 1
    BY <1>4 DEF n
  <2> QED
    BY <1>1, <1>4, <2>1, <2>2 DEF Extends
<1> QED
  BY <1>4, <1>9, <1>10 DEF Q, n

\* Statement s may follow the program: its else, its names and its loop.
Fits(P, M, s) ==
    /\ s.k = "else" =>
          /\ \E t \in Positions(P) : P[t].k = "if" /\ Around(P, M, Len(P) + 1) = Around(P, M, t) \cup {t}
          /\ \A f \in Positions(P) : P[f].k = "else" => Around(P, M, f) # Around(P, M, Len(P) + 1)
    /\ s.k \in Decls => \A c \in Positions(P) : P[c].k \in Decls => P[c].v # s.v
    /\ \A v \in Needs(s) : \E d \in Positions(P) : DeclOf(P, d, v) /\ Visible(P, M, d, Len(P) + 1)
    /\ s.k \in Exits => \E i \in Around(P, M, Len(P) + 1) : P[i].k \in Loops

\* The rest of the shape.
LEMMA GrowRest ==
    ASSUME NEW P \in Seq(Statement), NEW M, NEW s \in Statement, NEW N,
           Extends(P, M, Append(P, s), N), Elses(P, M), Scoped(P, M), Fits(P, M, s)
    PROVE  Elses(Append(P, s), N) /\ Scoped(Append(P, s), N)
<1> DEFINE Q == Append(P, s)
           n == Len(P) + 1
<1>1. /\ n \in Nat /\ Q[n] = s /\ n \notin Positions(P)
      /\ \A i \in Positions(P) : Q[i] = P[i]
      /\ Positions(Q) = Positions(P) \cup {n}
      /\ Positions(P) \subseteq Nat /\ \A i \in Positions(P) : i < n
  <2>1. /\ Len(P) \in Nat /\ Q[n] = s
        /\ \A i \in Positions(P) : Q[i] = P[i]
        /\ Positions(Q) = Positions(P) \cup {n}
        /\ Positions(P) \subseteq Nat /\ \A i \in Positions(P) : i <= Len(P)
    BY Appended
  <2>2. n \in Nat /\ \A i \in Positions(P) : i < n
    BY <2>1
  <2>3. n \notin Positions(P)
    BY <2>1, <2>2
  <2> QED
    BY <2>1, <2>2, <2>3
<1>2. \A p \in Positions(Q) : Around(Q, N, p) = Around(P, M, p)
  <2> SUFFICES ASSUME NEW p \in Positions(Q) PROVE Around(Q, N, p) = Around(P, M, p)
    OBVIOUS
  <2>1. p \in Nat /\ p <= Len(P) + 1
    BY <1>1
  <2> QED
    BY <2>1, AroundStable
<1>3. \A p \in Positions(Q), d \in Positions(P) : Visible(Q, N, d, p) <=> Visible(P, M, d, p)
  <2> SUFFICES ASSUME NEW p \in Positions(Q), NEW d \in Positions(P)
               PROVE Visible(Q, N, d, p) <=> Visible(P, M, d, p)
    OBVIOUS
  <2>1. p \in Nat /\ p <= Len(P) + 1 /\ d \in Nat
    BY <1>1
  <2> QED
    BY <2>1, VisStable
<1>4. Fits(P, M, s)
  OBVIOUS
<1>f. /\ s.k = "else" =>
            /\ \E t \in Positions(P) : P[t].k = "if" /\ Around(P, M, n) = Around(P, M, t) \cup {t}
            /\ \A f \in Positions(P) : P[f].k = "else" => Around(P, M, f) # Around(P, M, n)
      /\ s.k \in Decls => \A c \in Positions(P) : P[c].k \in Decls => P[c].v # s.v
      /\ \A v \in Needs(s) : \E d \in Positions(P) : DeclOf(P, d, v) /\ Visible(P, M, d, n)
      /\ s.k \in Exits => \E i \in Around(P, M, n) : P[i].k \in Loops
  BY <1>4 DEF Fits
<1> HIDE DEF Q, n
<1>5. ASSUME NEW e \in Positions(Q), Q[e].k = "else"
      PROVE  \E i \in Positions(Q) : Q[i].k = "if" /\ i < e /\ Around(Q, N, e) = Around(Q, N, i) \cup {i}
  <2>1. CASE e \in Positions(P)
    <3>1. PICK i \in Positions(P) : P[i].k = "if" /\ i < e /\ Around(P, M, e) = Around(P, M, i) \cup {i}
      BY <1>1, <1>5, <2>1 DEF Elses
    <3> QED
      BY <1>1, <1>2, <3>1
  <2>2. CASE e = n
    <3>1. PICK t \in Positions(P) : P[t].k = "if" /\ Around(P, M, n) = Around(P, M, t) \cup {t}
      BY <1>1, <1>f, <1>5, <2>2
    <3> QED
      BY <1>1, <1>2, <2>2, <3>1
  <2> QED
    BY <1>1, <2>1, <2>2
<1>6. ASSUME NEW e \in Positions(Q), NEW f \in Positions(Q), Q[e].k = "else", Q[f].k = "else",
             Around(Q, N, e) = Around(Q, N, f)
      PROVE  e = f
  <2>1. CASE e \in Positions(P) /\ f \in Positions(P)
    <3>1. P[e].k = "else" /\ P[f].k = "else" /\ Around(P, M, e) = Around(P, M, f)
      BY <1>1, <1>2, <1>6, <2>1
    <3> QED
      BY <2>1, <3>1 DEF Elses
  <2>2. CASE e = n /\ f \in Positions(P)
    BY <1>1, <1>2, <1>f, <1>6, <2>2
  <2>3. CASE f = n /\ e \in Positions(P)
    BY <1>1, <1>2, <1>f, <1>6, <2>3
  <2> QED
    BY <1>1, <2>1, <2>2, <2>3
<1>7. ASSUME NEW c \in Positions(Q), NEW d \in Positions(Q), Q[c].k \in Decls, Q[d].k \in Decls, Q[c].v = Q[d].v
      PROVE  c = d
  <2>1. CASE c \in Positions(P) /\ d \in Positions(P)
    BY <1>1, <1>7, <2>1 DEF Scoped
  <2>2. CASE c = n /\ d \in Positions(P)
    BY <1>1, <1>f, <1>7, <2>2
  <2>3. CASE d = n /\ c \in Positions(P)
    BY <1>1, <1>f, <1>7, <2>3
  <2> QED
    BY <1>1, <2>1, <2>2, <2>3
<1>8. ASSUME NEW p \in Positions(Q), NEW v \in Needs(Q[p])
      PROVE  \E d \in Positions(Q) : DeclOf(Q, d, v) /\ Visible(Q, N, d, p)
  <2>1. PICK d \in Positions(P) : DeclOf(P, d, v) /\ Visible(P, M, d, p)
    <3>1. CASE p \in Positions(P)
      BY <1>1, <1>8, <3>1 DEF Scoped
    <3>2. CASE p = n
      BY <1>1, <1>f, <1>8, <3>2
    <3> QED
      BY <1>1, <3>1, <3>2
  <2>2. DeclOf(Q, d, v)
    BY <1>1, <2>1 DEF DeclOf
  <2> QED
    BY <1>1, <1>3, <2>1, <2>2
<1>9. ASSUME NEW p \in Positions(Q), Q[p].k \in Exits
      PROVE  \E i \in Around(Q, N, p) : Q[i].k \in Loops
  <2>1. PICK i \in Around(P, M, p) : P[i].k \in Loops
    <3>1. CASE p \in Positions(P)
      BY <1>1, <1>9, <3>1 DEF Scoped
    <3>2. CASE p = n
      BY <1>1, <1>f, <1>9, <3>2
    <3> QED
      BY <1>1, <3>1, <3>2
  <2>2. i \in Positions(P)
    BY DEF Around
  <2> QED
    BY <1>1, <1>2, <2>1, <2>2
<1>10. Elses(Q, N)
  BY <1>5, <1>6 DEF Elses
<1>11. Scoped(Q, N)
  BY <1>7, <1>8, <1>9 DEF Scoped
<1> QED
  BY <1>10, <1>11 DEF Q

-----------------------------------------------------------------------------
(* The checker's walk keeps the shape. *)

\* The last frame is the innermost block around pos.
LEMMA TopFacts ==
    ASSUME Closing(prog, mate), pos \in Nat, Stack, frames # <<>>
    PROVE  /\ Len(frames) \in Nat /\ Len(frames) \in Depths /\ Top \in Frame
           /\ Top.at \in Around(prog, mate, pos) /\ Top.at \in Nat
           /\ \A j \in Around(prog, mate, pos) : j <= Top.at
           /\ Around(prog, mate, pos) = Around(prog, mate, Top.at) \cup {Top.at}
           /\ Top.k = IF InElse(prog, mate, Top.at, pos) THEN "else" ELSE prog[Top.at].k
<1>1. frames \in Seq(Frame)
  BY DEF Stack
<1>2. Len(frames) \in Nat /\ Len(frames) # 0
  BY <1>1
<1>3. Len(frames) \in Depths
  BY <1>2 DEF Depths
<1>4. Top \in Frame
  BY <1>1, <1>2, <1>3 DEF Top, Depths
<1>5. Top.at \in Nat
  BY <1>4 DEF Frame
<1>6. Top.at \in Around(prog, mate, pos)
  BY <1>3 DEF Stack, Top
<1>7. ASSUME NEW j \in Around(prog, mate, pos) PROVE j <= Top.at
  <2>1. PICK x \in Depths : frames[x].at = j
    BY DEF Stack
  <2>2. x = Len(frames) \/ x < Len(frames)
    BY <1>2 DEF Depths
  <2>3. j \in Nat
    BY Numbers
  <2>4. CASE x = Len(frames)
    BY <1>5, <2>1, <2>4 DEF Top
  <2>5. CASE x < Len(frames)
    <3>1. frames[x].at < Top.at
      BY <1>3, <2>5 DEF Stack, Top
    <3> QED
      BY <1>5, <2>1, <2>3, <3>1
  <2> QED
    BY <2>2, <2>4, <2>5
<1>8. ASSUME NEW j \in Around(prog, mate, pos), j # Top.at PROVE j \in Around(prog, mate, Top.at)
  <2>1. j \in Nat /\ Top.at < pos
    BY <1>6, Numbers DEF Around
  <2>2. j < Top.at /\ Top.at <= pos
    BY <1>5, <1>7, <1>8, <2>1
  <2> QED
    BY <1>5, <1>8, <2>2, AroundBetween
<1>9. Around(prog, mate, Top.at) \subseteq Around(prog, mate, pos)
  BY <1>6, AroundNested
<1>10. Top.k = IF InElse(prog, mate, Top.at, pos) THEN "else" ELSE prog[Top.at].k
  BY <1>3 DEF Stack, Top
<1> QED
  BY <1>2, <1>3, <1>4, <1>5, <1>6, <1>7, <1>8, <1>9, <1>10

\* The statements a step of the walk is about.
Checks(s) ==
    \/ CheckDecl(s) \/ CheckMemo(s) \/ CheckRead(s) \/ CheckMove(s) \/ CheckAssign(s)
    \/ CheckOpen(s) \/ CheckElse(s) \/ CheckEndIf(s) \/ CheckEndLoop(s)

\* What a step does to the program.
LEMMA StepEffect ==
    ASSUME NEW s, Checks(s)
    PROVE  /\ prog' = IF pos <= Len(prog) THEN prog ELSE Append(prog, s)
           /\ s.k \in Kinds
           /\ s.k # "end" => mate' = mate
           /\ s.k = "end" => mate' = [i \in DOMAIN mate \cup {Top.at} |-> IF i = Top.at THEN pos ELSE mate[i]]
<1>1. CASE CheckDecl(s)
  BY <1>1 DEF CheckDecl, Record, Kinds, Decls, Unary, Binary
<1>2. CASE CheckMemo(s)
  BY <1>2 DEF CheckMemo, Record, Kinds, InBinary, Unary
<1>3. CASE CheckRead(s)
  BY <1>3 DEF CheckRead, Record, Kinds, Unary, Exits, Returns
<1>4. CASE CheckMove(s)
  BY <1>4 DEF CheckMove, Record, Kinds, Unary
<1>5. CASE CheckAssign(s)
  BY <1>5 DEF CheckAssign, Record, Kinds, Unary, Binary
<1>6. CASE CheckOpen(s)
  BY <1>6 DEF CheckOpen, Record, Kinds, Opens, Loops
<1>7. CASE CheckElse(s)
  BY <1>7 DEF CheckElse, Record, Kinds
<1>8. CASE CheckEndIf(s)
  BY <1>8 DEF CheckEndIf, Record, Kinds
<1>9. CASE CheckEndLoop(s)
  BY <1>9 DEF CheckEndLoop, Record, Kinds
<1> QED
  BY <1>1, <1>2, <1>3, <1>4, <1>5, <1>6, <1>7, <1>8, <1>9 DEF Checks

\* A new statement is well formed and fits.
LEMMA NewStatement ==
    ASSUME Shape, phase = "check", Walk, NEW s \in Stmt, s.k \in Kinds, ~(pos <= Len(prog))
    PROVE  /\ pos = Len(prog) + 1 /\ s \in Statement /\ Fits(prog, mate, s)
           /\ s.k = "end" => frames # <<>>
<1>1. pos = Len(prog) + 1 /\ pos \in Nat
  BY DEF Walk, Walking, Shape
<1>2. Stack /\ Defined /\ Closing(prog, mate) /\ prog \in Seq(Statement)
  BY DEF Walk, Walking, Shape
<1>3. s \in UNION {Stmts(k) : k \in gram.kinds} /\ Wellformed(s)
  BY DEF Stmt
<1>4. PICK k \in gram.kinds : s \in Stmts(k)
  BY <1>3
<1>5. s \in Stmts(s.k)
  BY <1>4 DEF Stmts
<1>6. s \in Statement
  BY <1>5, ProgramAssumption DEF Stmts, Statement
<1>7. s.k = "else" =>
          /\ \E t \in Positions(prog) : prog[t].k = "if" /\ Around(prog, mate, Len(prog) + 1) = Around(prog, mate, t) \cup {t}
          /\ \A f \in Positions(prog) : prog[f].k = "else" => Around(prog, mate, f) # Around(prog, mate, Len(prog) + 1)
  <2> SUFFICES ASSUME s.k = "else"
               PROVE  /\ \E t \in Positions(prog) : prog[t].k = "if" /\ Around(prog, mate, pos) = Around(prog, mate, t) \cup {t}
                      /\ \A f \in Positions(prog) : prog[f].k = "else" => Around(prog, mate, f) # Around(prog, mate, pos)
    BY <1>1
  <2>1. frames # <<>> /\ Top.k = "if"
    BY <1>3 DEF Wellformed
  <2>2. /\ Top.at \in Around(prog, mate, pos)
        /\ Around(prog, mate, pos) = Around(prog, mate, Top.at) \cup {Top.at}
        /\ Top.k = IF InElse(prog, mate, Top.at, pos) THEN "else" ELSE prog[Top.at].k
    BY <1>1, <1>2, <2>1, TopFacts
  <2>3. ~InElse(prog, mate, Top.at, pos) /\ prog[Top.at].k = "if"
    BY <2>1, <2>2
  <2>4. \A f \in Positions(prog) : f < pos
    BY <1>1, <1>2 DEF Positions
  <2>5. Top.at \in Positions(prog)
    BY <2>2 DEF Around
  <2> QED
    BY <2>2, <2>3, <2>4, <2>5 DEF InElse
<1>8. s.k \in Decls => \A c \in Positions(prog) : prog[c].k \in Decls => prog[c].v # s.v
  <2> SUFFICES ASSUME s.k \in Decls, NEW c \in Positions(prog), prog[c].k \in Decls PROVE prog[c].v # s.v
    OBVIOUS
  <2>1. s.v # NoVar
    BY <1>6 DEF Statement, Decls, Unary, Binary
  <2>2. s.v \notin Declared
    BY <1>3, <2>1 DEF Wellformed
  <2> QED
    BY <2>2 DEF Declared, Positions
<1>9. \A v \in Needs(s) : \E d \in Positions(prog) : DeclOf(prog, d, v) /\ Visible(prog, mate, d, Len(prog) + 1)
  <2> SUFFICES ASSUME NEW v \in Needs(s)
               PROVE \E d \in Positions(prog) : DeclOf(prog, d, v) /\ Visible(prog, mate, d, pos)
    BY <1>1
  <2>1. v # NoVar /\ (v = s.w \/ (v = s.v /\ s.k \notin Decls))
    BY DEF Needs
  <2>2. v \in Vars
    BY <1>6, <2>1 DEF Statement
  <2>3. st[v] # "undef"
    BY <1>3, <2>1 DEF Wellformed
  <2> QED
    BY <1>2, <2>2, <2>3 DEF Defined, InSight
<1>10. s.k \in Exits => \E i \in Around(prog, mate, Len(prog) + 1) : prog[i].k \in Loops
  <2> SUFFICES ASSUME s.k \in Exits PROVE \E i \in Around(prog, mate, pos) : prog[i].k \in Loops
    BY <1>1
  <2>1. PICK x \in Depths : frames[x].k \in Loops
    BY <1>3 DEF Wellformed, InLoop, Depths
  <2>2. frames[x].at \in Around(prog, mate, pos)
    BY <1>2 DEF Stack
  <2>3. frames[x].k = prog[frames[x].at].k
    BY <1>2, <2>1 DEF Stack, Loops
  <2> QED
    BY <2>1, <2>2, <2>3
<1>11. s.k = "end" => frames # <<>>
  BY <1>3 DEF Wellformed
<1> QED
  BY <1>1, <1>6, <1>7, <1>8, <1>9, <1>10, <1>11 DEF Fits

\* On a later walk the statement is there, and its end closes the same block.
LEMMA OldStatement ==
    ASSUME Shape, phase = "check", Walk, NEW s \in Stmt, pos <= Len(prog)
    PROVE  /\ s = prog[pos] /\ pos \in Positions(prog) /\ s \in Statement
           /\ s.k \in {"else", "end"} => frames # <<>>
           /\ s.k = "end" => Top.at \in DOMAIN mate /\ mate[Top.at] = pos
<1>1. pos \in Nat /\ pos \in Positions(prog) /\ s = prog[pos] /\ s \in Statement
  BY DEF Walk, Walking, Shape, Stmt, Positions
<1>2. Stack /\ Closing(prog, mate) /\ Elses(prog, mate)
  BY DEF Walk, Walking, Shape
<1>3. ASSUME Around(prog, mate, pos) # {} PROVE frames # <<>>
  <2> SUFFICES ASSUME frames = <<>> PROVE FALSE
    OBVIOUS
  <2>1. Depths = {}
    BY DEF Depths
  <2> QED
    BY <1>2, <1>3, <2>1 DEF Stack
<1>4. s.k = "else" => frames # <<>>
  BY <1>1, <1>2, <1>3 DEF Elses
<1>5. s.k = "end" => frames # <<>> /\ Top.at \in DOMAIN mate /\ mate[Top.at] = pos
  <2> SUFFICES ASSUME s.k = "end" PROVE frames # <<>> /\ Top.at \in DOMAIN mate /\ mate[Top.at] = pos
    OBVIOUS
  <2>1. PICK i \in DOMAIN mate : mate[i] = pos
    BY <1>1, <1>2 DEF Closing
  <2>2. Around(prog, mate, pos) = Around(prog, mate, i) \cup {i}
    BY <1>2, <2>1, AroundEnd
  <2>3. frames # <<>>
    BY <1>3, <2>2
  <2>4. Top.at \in Around(prog, mate, pos) /\ Top.at \in Nat /\ i <= Top.at
    BY <1>1, <1>2, <2>2, <2>3, TopFacts
  <2>5. i \in Nat /\ \A j \in Around(prog, mate, i) : j \in Nat /\ j < i
    BY <1>2, Numbers DEF Around
  <2>6. Top.at = i
    BY <2>2, <2>4, <2>5
  <2> QED
    BY <2>1, <2>3, <2>6
<1> QED
  BY <1>1, <1>4, <1>5

\* What a step of the walk leaves of the program.
Grown(s) ==
    /\ Shape' /\ Extends(prog, mate, prog', mate')
    /\ s \in Statement /\ pos \in Nat /\ pos <= Len(prog) + 1
    /\ pos \in Positions(prog') /\ prog'[pos] = s
    /\ s.k \in {"else", "end"} => frames # <<>>
    /\ s.k = "end" => Top.at \in DOMAIN mate' /\ mate'[Top.at] = pos

\* Every step of the walk keeps the shape.
LEMMA CheckGrows ==
    ASSUME Shape, phase = "check", Walk, NEW s \in Stmt, Checks(s)
    PROVE  Grown(s)
<1>1. /\ prog' = IF pos <= Len(prog) THEN prog ELSE Append(prog, s)
      /\ s.k \in Kinds
      /\ s.k # "end" => mate' = mate
      /\ s.k = "end" => mate' = [i \in DOMAIN mate \cup {Top.at} |-> IF i = Top.at THEN pos ELSE mate[i]]
  BY StepEffect
<1>2. /\ prog \in Seq(Statement) /\ Closing(prog, mate) /\ Elses(prog, mate) /\ Scoped(prog, mate)
      /\ mate \in [DOMAIN mate -> Nat] /\ pos \in Nat /\ Len(prog) \in Nat /\ pos <= Len(prog) + 1 /\ Stack
  BY DEF Shape, Walk, Walking
<1>3. CASE pos <= Len(prog)
  <2>1. /\ s = prog[pos] /\ pos \in Positions(prog) /\ s \in Statement
        /\ s.k \in {"else", "end"} => frames # <<>>
        /\ s.k = "end" => Top.at \in DOMAIN mate /\ mate[Top.at] = pos
    BY <1>3, OldStatement
  <2>2. mate' = mate
    <3>1. CASE s.k = "end"
      <4> DEFINE N == [i \in DOMAIN mate \cup {Top.at} |-> IF i = Top.at THEN pos ELSE mate[i]]
      <4>1. N = mate
        BY <1>2, <2>1, <3>1
      <4> QED
        BY <1>1, <3>1, <4>1
    <3> QED
      BY <1>1, <3>1
  <2>3. prog' = prog
    BY <1>1, <1>3
  <2>4. Shape'
    BY <2>2, <2>3 DEF Shape
  <2>5. Extends(prog, mate, prog, mate)
    BY <1>2 DEF Extends
  <2> QED
    BY <1>2, <2>1, <2>2, <2>3, <2>4, <2>5 DEF Grown
<1>4. CASE ~(pos <= Len(prog))
  <2>1. /\ pos = Len(prog) + 1 /\ s \in Statement /\ Fits(prog, mate, s)
        /\ s.k = "end" => frames # <<>>
    BY <1>1, <1>4, NewStatement
  <2>2. prog' = Append(prog, s)
    BY <1>1, <1>4
  <2>3. prog' \in Seq(Statement) /\ pos \in Positions(prog') /\ prog'[pos] = s
    BY <1>2, <2>1, <2>2, Appended
  <2>4. s.k = "else" => frames # <<>>
    <3> SUFFICES ASSUME s.k = "else" PROVE frames # <<>>
      OBVIOUS
    <3>1. Wellformed(s)
      BY <1>4 DEF Stmt
    <3> QED
      BY <3>1 DEF Wellformed
  <2>5. /\ Closing(prog', mate') /\ Extends(prog, mate, prog', mate') /\ mate' \in [DOMAIN mate' -> Nat]
        /\ s.k = "end" => Top.at \in DOMAIN mate' /\ mate'[Top.at] = pos
    <3>1. CASE s.k # "end"
      <4>1. Closing(Append(prog, s), mate) /\ Extends(prog, mate, Append(prog, s), mate)
        BY <1>2, <2>1, <3>1, GrowMore
      <4> QED
        BY <1>1, <1>2, <2>2, <3>1, <4>1
    <3>2. CASE s.k = "end"
      <4>1. Top.at \in Around(prog, mate, Len(prog) + 1) /\ \A j \in Around(prog, mate, Len(prog) + 1) : j <= Top.at
        BY <1>2, <2>1, <3>2, TopFacts
      <4>2. mate' = [i \in DOMAIN mate \cup {Top.at} |-> IF i = Top.at THEN Len(prog) + 1 ELSE mate[i]]
        BY <1>1, <2>1, <3>2
      <4>3. /\ Closing(Append(prog, s), mate') /\ Extends(prog, mate, Append(prog, s), mate')
            /\ Top.at \in DOMAIN mate' /\ mate'[Top.at] = Len(prog) + 1
        BY <1>2, <2>1, <3>2, <4>1, <4>2, GrowEnd
      <4>4. mate' \in [DOMAIN mate' -> Nat]
        BY <1>2, <4>2
      <4> QED
        BY <2>1, <2>2, <4>3, <4>4
    <3> QED
      BY <3>1, <3>2
  <2>6. Elses(prog', mate') /\ Scoped(prog', mate')
    BY <1>2, <2>1, <2>2, <2>5, GrowRest
  <2> QED
    BY <1>2, <2>1, <2>3, <2>4, <2>5, <2>6 DEF Grown, Shape
<1> QED
  BY <1>3, <1>4

-----------------------------------------------------------------------------
(* The checker's walk keeps to the scopes. *)

\* Fewer names defined.
LEMMA SightLess ==
    ASSUME NEW P, NEW M, NEW S, NEW T, NEW p, InSight(P, M, S, p),
           \A v \in Vars : T[v] # "undef" => S[v] # "undef"
    PROVE  InSight(P, M, T, p)
  BY DEF InSight

\* The program grows.
LEMMA SightStable ==
    ASSUME NEW P, NEW M, NEW Q, NEW N, Extends(P, M, Q, N), NEW S, NEW p \in Nat, p <= Len(P) + 1,
           InSight(P, M, S, p)
    PROVE  InSight(Q, N, S, p)
<1> SUFFICES ASSUME NEW v \in Vars, S[v] # "undef"
             PROVE  \E d \in Positions(Q) : DeclOf(Q, d, v) /\ Visible(Q, N, d, p)
  BY DEF InSight
<1>1. PICK d \in Positions(P) : DeclOf(P, d, v) /\ Visible(P, M, d, p)
  BY DEF InSight
<1>2. d \in Positions(Q) /\ d \in Nat /\ Q[d] = P[d]
  BY DEF Extends, Positions
<1>3. DeclOf(Q, d, v)
  BY <1>1, <1>2 DEF DeclOf
<1>4. Visible(Q, N, d, p)
  BY <1>1, <1>2, VisStable
<1> QED
  BY <1>2, <1>3, <1>4

\* One statement on, that may declare a name.
LEMMA SightStep ==
    ASSUME NEW P, NEW M, Closing(P, M), NEW p \in Positions(P),
           P[p].k \notin Opens \cup {"end", "else"}, NEW S, InSight(P, M, S, p), NEW T,
           \A v \in Vars : T[v] # "undef" => S[v] # "undef" \/ (P[p].k \in Decls /\ P[p].v = v)
    PROVE  InSight(P, M, T, p + 1)
<1> SUFFICES ASSUME NEW v \in Vars, T[v] # "undef"
             PROVE  \E d \in Positions(P) : DeclOf(P, d, v) /\ Visible(P, M, d, p + 1)
  BY DEF InSight
<1>1. Positions(P) \subseteq Nat
  BY Numbers
<1>2. CASE S[v] # "undef"
  <2>1. PICK d \in Positions(P) : DeclOf(P, d, v) /\ Visible(P, M, d, p)
    BY <1>2 DEF InSight
  <2> QED
    BY <1>1, <2>1, VisStep
<1>3. CASE P[p].k \in Decls /\ P[p].v = v
  <2>1. DeclOf(P, p, v)
    BY <1>3 DEF DeclOf
  <2>2. Visible(P, M, p, p + 1)
    BY <1>1, VisStep
  <2> QED
    BY <2>1, <2>2
<1> QED
  BY <1>2, <1>3

\* Into a block.
LEMMA SightOpen ==
    ASSUME NEW P, NEW M, Closing(P, M), NEW p \in Positions(P), P[p].k \in Opens, NEW S, InSight(P, M, S, p)
    PROVE  InSight(P, M, S, p + 1)
<1> SUFFICES ASSUME NEW v \in Vars, S[v] # "undef"
             PROVE  \E d \in Positions(P) : DeclOf(P, d, v) /\ Visible(P, M, d, p + 1)
  BY DEF InSight
<1>1. PICK d \in Positions(P) : DeclOf(P, d, v) /\ Visible(P, M, d, p)
  BY DEF InSight
<1>2. d # p /\ d \in Nat
  BY <1>1, Numbers DEF DeclOf, Decls, Opens, Loops
<1> QED
  BY <1>1, <1>2, VisOpen

\* Behind a block.
LEMMA SightSkip ==
    ASSUME NEW P, NEW M, Closing(P, M), NEW i \in DOMAIN M, NEW S, InSight(P, M, S, i)
    PROVE  InSight(P, M, S, M[i] + 1)
<1> SUFFICES ASSUME NEW v \in Vars, S[v] # "undef"
             PROVE  \E d \in Positions(P) : DeclOf(P, d, v) /\ Visible(P, M, d, M[i] + 1)
  BY DEF InSight
<1>1. PICK d \in Positions(P) : DeclOf(P, d, v) /\ Visible(P, M, d, i)
  BY DEF InSight
<1>2. P[d].k \notin Opens
  BY <1>1 DEF DeclOf, Decls, Opens, Loops
<1> QED
  BY <1>1, <1>2, VisSkip

\* Into an else branch.
LEMMA SightElse ==
    ASSUME NEW P, NEW M, Closing(P, M), NEW i \in Positions(P), P[i].k \in Opens,
           NEW e \in Positions(P), P[e].k = "else", i < e,
           Around(P, M, e) = Around(P, M, i) \cup {i}, NEW S, InSight(P, M, S, i)
    PROVE  InSight(P, M, S, e + 1)
<1> SUFFICES ASSUME NEW v \in Vars, S[v] # "undef"
             PROVE  \E d \in Positions(P) : DeclOf(P, d, v) /\ Visible(P, M, d, e + 1)
  BY DEF InSight
<1>1. PICK d \in Positions(P) : DeclOf(P, d, v) /\ Visible(P, M, d, i)
  BY DEF InSight
<1>2. P[d].k \notin Opens \cup {"else"}
  BY <1>1 DEF DeclOf, Decls, Opens, Loops
<1> QED
  BY <1>1, <1>2, VisElse

\* The frames that stay: their blocks and names are as they were.
LEMMA FrameStable ==
    ASSUME NEW s, Grown(s), Closing(prog, mate), Stack, Defined, NEW x \in Depths, NEW p \in Nat, p <= pos
    PROVE  /\ frames[x].at \in Nat /\ frames[x].at < pos
           /\ frames[x].at \in Positions(prog') /\ prog'[frames[x].at] = prog[frames[x].at]
           /\ prog[frames[x].at].k \in Opens
           /\ InElse(prog', mate', frames[x].at, p) <=> InElse(prog, mate, frames[x].at, p)
           /\ InSight(prog', mate', frames[x].base, frames[x].at)
<1> DEFINE i == frames[x].at
<1>1. i \in Around(prog, mate, pos)
  BY DEF Stack
<1> HIDE DEF i
<1>2. i \in Nat /\ i \in Positions(prog) /\ i < pos /\ prog[i].k \in Opens
  BY <1>1, Numbers DEF Around
<1>3. /\ Extends(prog, mate, prog', mate') /\ pos \in Nat /\ Len(prog) \in Nat /\ pos <= Len(prog) + 1
      /\ Len(prog') \in Nat /\ Len(prog) <= Len(prog')
  BY DEF Grown, Extends
<1>4. i <= Len(prog) + 1
  BY <1>2, <1>3
<1>5. Around(prog', mate', i) = Around(prog, mate, i)
  BY <1>2, <1>3, <1>4, AroundStable
<1>6. ASSUME NEW e, e < p PROVE e \in Positions(prog') <=> e \in Positions(prog)
  <2>1. e \in 1 .. Len(prog') => e <= Len(prog)
    BY <1>3, <1>6
  <2> QED
    BY <1>3, <2>1 DEF Positions
<1>7. ASSUME NEW e \in Positions(prog)
      PROVE  Around(prog', mate', e) = Around(prog, mate, e) /\ prog'[e] = prog[e]
  <2>1. e \in Nat /\ e <= Len(prog) + 1
    BY <1>3 DEF Positions
  <2>2. Around(prog', mate', e) = Around(prog, mate, e)
    BY <1>3, <2>1, AroundStable
  <2>3. prog'[e] = prog[e]
    BY <1>3 DEF Extends
  <2> QED
    BY <2>2, <2>3
<1>8. InElse(prog', mate', i, p) <=> InElse(prog, mate, i, p)
  BY <1>5, <1>6, <1>7 DEF InElse
<1>9. InSight(prog, mate, frames[x].base, i)
  BY DEF Defined, i
<1>10. InSight(prog', mate', frames[x].base, i)
  BY <1>2, <1>3, <1>4, <1>9, SightStable
<1>11. i \in Positions(prog') /\ prog'[i] = prog[i]
  BY <1>2, <1>3, <1>7 DEF Positions
<1> QED
  BY <1>2, <1>8, <1>10, <1>11 DEF i

\* The stack of frames without and with another last frame.
LEMMA PopFacts ==
    ASSUME frames \in Seq(Frame), frames # <<>>, NEW F \in Frame
    PROVE  /\ Pop \in Seq(Frame) /\ Len(Pop) = Len(frames) - 1 /\ Len(frames) \in Nat /\ Len(frames) >= 1
           /\ \A x \in 1 .. Len(frames) - 1 : Pop[x] = frames[x]
           /\ Append(Pop, F) \in Seq(Frame) /\ Len(Append(Pop, F)) = Len(frames)
           /\ Append(Pop, F)[Len(frames)] = F
           /\ \A x \in 1 .. Len(frames) - 1 : Append(Pop, F)[x] = frames[x]
           /\ Append(frames, F) \in Seq(Frame)
<1>1. Len(frames) \in Nat /\ Len(frames) >= 1
  OBVIOUS
<1>2. Pop \in Seq(Frame) /\ Len(Pop) = Len(frames) - 1 /\ \A x \in 1 .. Len(frames) - 1 : Pop[x] = frames[x]
  <2> DEFINE m == Len(frames) - 1
  <2>1. 1 \in Int /\ m \in Int /\ \A i \in 1 .. m : frames[i] \in Frame
    BY <1>1
  <2>m. m \in Nat
    BY <1>1
  <2> HIDE DEF m
  <2>2. /\ IF 1 <= m THEN m - 1 + 1 = m ELSE m = 0
        /\ m - 1 + 1 = m /\ \A x \in 1 .. m : 1 + x - 1 = x
    BY <2>m
  <2>3. /\ SubSeq(frames, 1, m) \in Seq(Frame) /\ Len(SubSeq(frames, 1, m)) = IF 1 <= m THEN m - 1 + 1 ELSE 0
        /\ \A x \in 1 .. m - 1 + 1 : SubSeq(frames, 1, m)[x] = frames[1 + x - 1]
    BY <2>1, SubSeqProperties
  <2>4. /\ SubSeq(frames, 1, m) \in Seq(Frame) /\ Len(SubSeq(frames, 1, m)) = m
        /\ \A x \in 1 .. m : SubSeq(frames, 1, m)[x] = frames[x]
    BY <2>2, <2>3
  <2> QED
    BY <2>4 DEF Pop, m
<1>3. Append(Pop, F) \in Seq(Frame) /\ Len(Append(Pop, F)) = Len(frames) /\ Append(Pop, F)[Len(frames)] = F
  BY <1>1, <1>2
<1>4. \A x \in 1 .. Len(frames) - 1 : Append(Pop, F)[x] = frames[x]
  BY <1>1, <1>2
<1> QED
  BY <1>1, <1>2, <1>3, <1>4

\* Only an else starts an else branch.
LEMMA ElseStep ==
    ASSUME NEW s, Grown(s), s.k # "else", NEW i
    PROVE  InElse(prog', mate', i, pos + 1) <=> InElse(prog', mate', i, pos)
<1>1. pos \in Nat /\ Len(prog') \in Nat /\ prog'[pos] = s
  BY DEF Grown, Extends
<1>2. \A e \in Positions(prog') : prog'[e].k = "else" => (e < pos + 1 <=> e < pos)
  BY <1>1 DEF Positions
<1> QED
  BY <1>2 DEF InElse

\* Where a step of the walk is.
LEMMA GrownFacts ==
    ASSUME NEW s, Grown(s), Closing(prog, mate), Stack, Defined
    PROVE  /\ pos \in Nat /\ pos \in Positions(prog') /\ prog'[pos] = s /\ Closing(prog', mate')
           /\ Len(prog') \in Nat /\ pos + 1 \in 1 .. Len(prog') + 1 /\ pos >= 1
           /\ Extends(prog, mate, prog', mate')
           /\ Around(prog', mate', pos) = Around(prog, mate, pos)
           /\ InSight(prog', mate', st, pos)
<1>1. /\ pos \in Nat /\ pos \in Positions(prog') /\ prog'[pos] = s /\ Closing(prog', mate')
      /\ Extends(prog, mate, prog', mate') /\ pos <= Len(prog) + 1
  BY DEF Grown, Shape
<1>2. Len(prog') \in Nat
  BY <1>1 DEF Extends
<1>3. pos + 1 \in 1 .. Len(prog') + 1 /\ pos >= 1
  BY <1>1, <1>2 DEF Positions
<1>4. Around(prog', mate', pos) = Around(prog, mate, pos)
  BY <1>1, AroundStable
<1>5. InSight(prog', mate', st, pos)
  BY <1>1, SightStable DEF Defined
<1> QED
  BY <1>1, <1>2, <1>3, <1>4, <1>5

\* A statement that opens and closes nothing.
LEMMA WalkPlain ==
    ASSUME NEW s, Grown(s), Closing(prog, mate), Stack, Defined, s.k \notin Opens \cup {"else", "end"},
           frames' = frames, pos' = pos + 1, st' \in States,
           \A v \in Vars : st'[v] # "undef" => st[v] # "undef" \/ (s.k \in Decls /\ s.v = v)
    PROVE  Walking'
<1>1. /\ pos \in Nat /\ pos \in Positions(prog') /\ prog'[pos] = s /\ Closing(prog', mate')
      /\ Len(prog') \in Nat /\ pos + 1 \in 1 .. Len(prog') + 1
      /\ Around(prog', mate', pos) = Around(prog, mate, pos)
      /\ InSight(prog', mate', st, pos)
  BY GrownFacts
<1>2. Around(prog', mate', pos + 1) = Around(prog, mate, pos)
  BY <1>1, AroundSame
<1>3. InSight(prog', mate', st', pos + 1)
  BY <1>1, SightStep
<1>4. ASSUME NEW x \in Depths
      PROVE  /\ frames[x].k = IF InElse(prog', mate', frames[x].at, pos + 1) THEN "else"
                               ELSE prog'[frames[x].at].k
             /\ InSight(prog', mate', frames[x].base, frames[x].at)
  <2>1. pos <= pos
    BY <1>1
  <2>2. /\ prog'[frames[x].at] = prog[frames[x].at]
        /\ InElse(prog', mate', frames[x].at, pos) <=> InElse(prog, mate, frames[x].at, pos)
        /\ InSight(prog', mate', frames[x].base, frames[x].at)
    BY <1>1, <2>1, FrameStable
  <2>3. InElse(prog', mate', frames[x].at, pos + 1) <=> InElse(prog', mate', frames[x].at, pos)
    BY ElseStep
  <2>4. frames[x].k = IF InElse(prog, mate, frames[x].at, pos) THEN "else" ELSE prog[frames[x].at].k
    BY DEF Stack
  <2> QED
    BY <2>2, <2>3, <2>4
<1>5. Stack'
  BY <1>2, <1>4 DEF Stack, Depths
<1>6. Defined'
  BY <1>3, <1>4 DEF Defined, Depths
<1> QED
  BY <1>1, <1>5, <1>6 DEF Walking

\* The head of a block.
LEMMA WalkOpen ==
    ASSUME NEW s, Grown(s), Closing(prog, mate), Stack, Defined, s.k \in Opens, NEW S \in States,
           frames' = Append(frames, [k |-> s.k, at |-> pos, base |-> S, other |-> S, pass |-> 1]),
           pos' = pos + 1, st' = S,
           \A v \in Vars : S[v] # "undef" => st[v] # "undef"
    PROVE  Walking'
<1> DEFINE F == [k |-> s.k, at |-> pos, base |-> S, other |-> S, pass |-> 1]
           n == Len(frames)
<1>1. /\ pos \in Nat /\ pos \in Positions(prog') /\ prog'[pos] = s /\ Closing(prog', mate')
      /\ Len(prog') \in Nat /\ pos + 1 \in 1 .. Len(prog') + 1
      /\ Around(prog', mate', pos) = Around(prog, mate, pos)
      /\ InSight(prog', mate', st, pos)
  BY GrownFacts
<1>2. Around(prog', mate', pos + 1) = Around(prog, mate, pos) \cup {pos}
  BY <1>1, AroundOpen
<1>3. InSight(prog', mate', S, pos) /\ InSight(prog', mate', S, pos + 1)
  <2>1. InSight(prog', mate', S, pos)
    BY <1>1, SightLess
  <2> QED
    BY <1>1, <2>1, SightOpen
<1>4. F \in Frame /\ F.k = s.k /\ F.at = pos /\ F.base = S
  BY <1>1 DEF Frame
<1>5. frames \in Seq(Frame) /\ n \in Nat /\ frames' = Append(frames, F)
  BY DEF Stack
<1> HIDE DEF F, n
<1>6. /\ frames' \in Seq(Frame) /\ Depths' = 1 .. n + 1 /\ Depths = 1 .. n /\ frames'[n + 1] = F
      /\ \A x \in 1 .. n : frames'[x] = frames[x]
  BY <1>4, <1>5 DEF n, Depths
<1>7. ASSUME NEW x \in 1 .. n
      PROVE  /\ frames[x].k = IF InElse(prog', mate', frames[x].at, pos + 1) THEN "else"
                               ELSE prog'[frames[x].at].k
             /\ InSight(prog', mate', frames[x].base, frames[x].at)
             /\ frames[x].at < pos
  <2>1. pos <= pos /\ x \in Depths
    BY <1>1, <1>6
  <2>2. /\ prog'[frames[x].at] = prog[frames[x].at] /\ frames[x].at < pos
        /\ InElse(prog', mate', frames[x].at, pos) <=> InElse(prog, mate, frames[x].at, pos)
        /\ InSight(prog', mate', frames[x].base, frames[x].at)
    BY <1>1, <2>1, FrameStable
  <2>3. InElse(prog', mate', frames[x].at, pos + 1) <=> InElse(prog', mate', frames[x].at, pos)
    BY ElseStep DEF Opens, Loops
  <2>4. frames[x].k = IF InElse(prog, mate, frames[x].at, pos) THEN "else" ELSE prog[frames[x].at].k
    BY <2>1 DEF Stack
  <2> QED
    BY <2>2, <2>3, <2>4
<1>8. ~InElse(prog', mate', pos, pos + 1)
  <2> SUFFICES ASSUME NEW e \in Positions(prog'), e < pos + 1, prog'[e].k = "else",
                      Around(prog', mate', e) = Around(prog', mate', pos) \cup {pos}
               PROVE  FALSE
    BY DEF InElse
  <2>1. pos < e
    BY DEF Around
  <2> QED
    BY <1>1, <2>1 DEF Positions
<1>9. \A x, y \in Depths' : x < y => frames'[x].at < frames'[y].at
  <2> SUFFICES ASSUME NEW x \in 1 .. n + 1, NEW y \in 1 .. n + 1, x < y PROVE frames'[x].at < frames'[y].at
    BY <1>6
  <2>1. x \in 1 .. n /\ (y \in 1 .. n \/ y = n + 1)
    BY <1>5
  <2>2. CASE y \in 1 .. n
    BY <1>6, <2>1, <2>2 DEF Stack
  <2>3. CASE y = n + 1
    BY <1>4, <1>6, <1>7, <2>1, <2>3
  <2> QED
    BY <2>1, <2>2, <2>3
<1>10. {frames'[x].at : x \in Depths'} = Around(prog', mate', pos + 1)
  <2>1. {frames[x].at : x \in 1 .. n} = Around(prog, mate, pos)
    BY <1>6 DEF Stack
  <2>2. 1 .. n + 1 = (1 .. n) \cup {n + 1}
    BY <1>5
  <2>3. \A x \in 1 .. n : frames'[x].at = frames[x].at
    BY <1>6
  <2>4. frames'[n + 1].at = pos
    BY <1>4, <1>6
  <2>5. {frames'[x].at : x \in (1 .. n) \cup {n + 1}} = {frames[x].at : x \in 1 .. n} \cup {pos}
    BY <2>3, <2>4
  <2> QED
    BY <1>2, <1>6, <2>1, <2>2, <2>5
<1>11. \A x \in Depths' : frames'[x].k = IF InElse(prog', mate', frames'[x].at, pos + 1) THEN "else"
                                       ELSE prog'[frames'[x].at].k
  <2> SUFFICES ASSUME NEW x \in 1 .. n + 1
               PROVE  frames'[x].k = IF InElse(prog', mate', frames'[x].at, pos + 1) THEN "else"
                                       ELSE prog'[frames'[x].at].k
    BY <1>6
  <2>1. x \in 1 .. n \/ x = n + 1
    BY <1>5
  <2>2. CASE x \in 1 .. n
    BY <1>6, <1>7, <2>2
  <2>3. CASE x = n + 1
    BY <1>1, <1>4, <1>6, <1>8, <2>3
  <2> QED
    BY <2>1, <2>2, <2>3
<1>12. \A x \in Depths' : InSight(prog', mate', frames'[x].base, frames'[x].at)
  <2> SUFFICES ASSUME NEW x \in 1 .. n + 1
               PROVE  InSight(prog', mate', frames'[x].base, frames'[x].at)
    BY <1>6
  <2>1. x \in 1 .. n \/ x = n + 1
    BY <1>5
  <2>2. CASE x \in 1 .. n
    BY <1>6, <1>7, <2>2
  <2>3. CASE x = n + 1
    BY <1>3, <1>4, <1>6, <2>3
  <2> QED
    BY <2>1, <2>2, <2>3
<1>13. Stack'
  BY <1>6, <1>9, <1>10, <1>11 DEF Stack
<1>14. Defined'
  BY <1>3, <1>12 DEF Defined
<1> QED
  BY <1>1, <1>13, <1>14 DEF Walking

\* Another frame for the same block on top.
LEMMA SwapTop ==
    ASSUME Stack, frames # <<>>, NEW F \in Frame, F.at = Top.at, frames' = Append(Pop, F)
    PROVE  /\ frames' \in Seq(Frame) /\ Depths' = Depths
           /\ Len(frames) \in Depths /\ frames'[Len(frames)] = F
           /\ \A x \in Depths : x # Len(frames) => frames'[x] = frames[x] /\ frames[x].at < Top.at
           /\ \A x, y \in Depths' : x < y => frames'[x].at < frames'[y].at
           /\ {frames'[x].at : x \in Depths'} = Around(prog, mate, pos)
<1> DEFINE n == Len(frames)
<1>1. frames \in Seq(Frame)
  BY DEF Stack
<1>2. /\ n \in Nat /\ n >= 1 /\ frames' \in Seq(Frame) /\ Len(frames') = n /\ frames'[n] = F
      /\ \A x \in 1 .. n - 1 : frames'[x] = frames[x]
  BY <1>1, PopFacts
<1>3. Depths' = 1 .. n /\ Depths = 1 .. n /\ Top = frames[n]
  BY <1>2 DEF Depths, Top
<1>a. \A x, y \in Depths : x < y => frames[x].at < frames[y].at
  BY DEF Stack
<1>b. {frames[x].at : x \in Depths} = Around(prog, mate, pos)
  BY DEF Stack
<1> HIDE DEF n
<1>4. n \in Depths
  BY <1>2, <1>3
<1>5. \A x \in Depths : x # n => x \in 1 .. n - 1 /\ x < n
  BY <1>2, <1>3
<1>6. \A x \in Depths : x # n => frames'[x] = frames[x] /\ frames[x].at < Top.at
  BY <1>2, <1>3, <1>4, <1>5, <1>a
<1>7. \A x \in Depths : frames'[x].at = frames[x].at
  BY <1>2, <1>3, <1>6
<1>8. \A x, y \in Depths' : x < y => frames'[x].at < frames'[y].at
  BY <1>3, <1>7, <1>a
<1>9. {frames'[x].at : x \in Depths'} = Around(prog, mate, pos)
  <2>1. {frames'[x].at : x \in Depths} = {frames[x].at : x \in Depths}
    BY <1>7
  <2> QED
    BY <1>3, <2>1, <1>b
<1> QED
  BY <1>2, <1>3, <1>4, <1>6, <1>8, <1>9 DEF n

\* The else of the innermost block.
LEMMA WalkElse ==
    ASSUME NEW s, Grown(s), Closing(prog, mate), Stack, Defined, s.k = "else",
           frames' = Append(Pop, [Top EXCEPT !.k = "else", !.other = st]), st \in States,
           pos' = pos + 1, st' = Top.base
    PROVE  Walking'
<1> DEFINE F == [Top EXCEPT !.k = "else", !.other = st]
           n == Len(frames)
<1>1. /\ pos \in Nat /\ pos \in Positions(prog') /\ prog'[pos] = s /\ Closing(prog', mate')
      /\ Len(prog') \in Nat /\ pos + 1 \in 1 .. Len(prog') + 1
      /\ Around(prog', mate', pos) = Around(prog, mate, pos)
      /\ Extends(prog, mate, prog', mate')
  BY GrownFacts
<1>2. frames # <<>>
  BY DEF Grown
<1>3. /\ n \in Depths /\ Top \in Frame /\ Top.at \in Nat /\ Top.at \in Around(prog, mate, pos)
      /\ Around(prog, mate, pos) = Around(prog, mate, Top.at) \cup {Top.at}
  BY <1>1, <1>2, TopFacts
<1>4. F \in Frame /\ F.k = "else" /\ F.at = Top.at /\ F.base = Top.base
  BY <1>3 DEF Frame
<1>5. frames' = Append(Pop, F) /\ Top = frames[n]
  BY DEF Top
<1> HIDE DEF F, n
<1>6. /\ frames' \in Seq(Frame) /\ Depths' = Depths /\ frames'[n] = F
      /\ \A x \in Depths : x # n => frames'[x] = frames[x] /\ frames[x].at < Top.at
      /\ \A x, y \in Depths' : x < y => frames'[x].at < frames'[y].at
      /\ {frames'[x].at : x \in Depths'} = Around(prog, mate, pos)
  BY <1>2, <1>4, <1>5, SwapTop DEF n
<1>7. Around(prog', mate', pos + 1) = Around(prog, mate, pos)
  <2>1. prog'[pos].k \notin Opens \cup {"end"}
    BY <1>1 DEF Opens, Loops
  <2> QED
    BY <1>1, <2>1, AroundSame
<1>8. Top.at < pos /\ Top.at \in Positions(prog') /\ prog'[Top.at].k \in Opens /\ pos <= pos
      /\ InSight(prog', mate', Top.base, Top.at)
  BY <1>1, <1>3, <1>5, FrameStable
<1>9. Around(prog', mate', Top.at) = Around(prog, mate, Top.at)
  <2>1. Top.at <= Len(prog) + 1
    BY <1>3, Numbers DEF Around, Positions
  <2> QED
    BY <1>1, <1>3, <2>1, AroundStable
<1>10. InElse(prog', mate', Top.at, pos + 1)
  <2>1. pos < pos + 1
    BY <1>1
  <2> QED
    BY <1>1, <1>3, <1>9, <2>1 DEF InElse
<1>11. ASSUME NEW x \in Depths, x # n
       PROVE  /\ frames[x].k = IF InElse(prog', mate', frames[x].at, pos + 1) THEN "else"
                               ELSE prog'[frames[x].at].k
              /\ InSight(prog', mate', frames[x].base, frames[x].at)
  <2> DEFINE i == frames[x].at
  <2>1. /\ prog'[i] = prog[i] /\ i \in Nat /\ i < pos
        /\ InElse(prog', mate', i, pos) <=> InElse(prog, mate, i, pos)
        /\ InSight(prog', mate', frames[x].base, i)
    BY <1>1, <1>8, FrameStable
  <2>2. i < Top.at
    BY <1>6, <1>11
  <2>3. frames[x].k = IF InElse(prog, mate, i, pos) THEN "else" ELSE prog[i].k
    BY DEF Stack
  <2> HIDE DEF i
  <2>4. Top.at \notin Around(prog', mate', i) \cup {i}
    BY <1>3, <2>1, <2>2 DEF Around
  <2>5. ASSUME NEW e \in Positions(prog'), Around(prog', mate', e) = Around(prog', mate', i) \cup {i}
        PROVE  e < pos + 1 <=> e < pos
    <3>1. e # pos
      BY <1>1, <1>3, <2>4, <2>5
    <3> QED
      BY <1>1, <3>1 DEF Positions
  <2>6. InElse(prog', mate', i, pos + 1) <=> InElse(prog', mate', i, pos)
    BY <2>5 DEF InElse
  <2>7. /\ frames[x].k = IF InElse(prog', mate', i, pos + 1) THEN "else" ELSE prog'[i].k
        /\ InSight(prog', mate', frames[x].base, i)
    BY <2>1, <2>3, <2>6
  <2> QED
    BY <2>7 DEF i
<1>12. InSight(prog', mate', Top.base, pos + 1)
  BY <1>1, <1>3, <1>8, <1>9, SightElse
<1>13. \A x \in Depths' : frames'[x].k = IF InElse(prog', mate', frames'[x].at, pos + 1) THEN "else"
                                       ELSE prog'[frames'[x].at].k
  BY <1>4, <1>6, <1>10, <1>11
<1>14. \A x \in Depths' : InSight(prog', mate', frames'[x].base, frames'[x].at)
  BY <1>4, <1>6, <1>8, <1>11
<1>15. Stack'
  BY <1>6, <1>7, <1>13 DEF Stack
<1>16. Defined'
  BY <1>12, <1>14 DEF Defined
<1>17. st' \in States
  BY <1>3 DEF Frame
<1> QED
  BY <1>1, <1>15, <1>16, <1>17 DEF Walking

\* The end of the innermost block.
LEMMA WalkPop ==
    ASSUME NEW s, Grown(s), Closing(prog, mate), Stack, Defined, s.k = "end",
           frames' = Pop, pos' = pos + 1, st' \in States,
           \A v \in Vars : st'[v] # "undef" => Top.base[v] # "undef"
    PROVE  Walking'
<1> DEFINE n == Len(frames)
<1>1. /\ pos \in Nat /\ pos \in Positions(prog') /\ prog'[pos] = s /\ Closing(prog', mate')
      /\ Len(prog') \in Nat /\ pos + 1 \in 1 .. Len(prog') + 1
      /\ Extends(prog, mate, prog', mate')
  BY GrownFacts
<1>2. frames # <<>> /\ Top.at \in DOMAIN mate' /\ mate'[Top.at] = pos
  BY DEF Grown
<1>3. /\ n \in Depths /\ n \in Nat /\ Top \in Frame /\ Top.at \in Nat /\ Top.at \in Around(prog, mate, pos)
      /\ Around(prog, mate, pos) = Around(prog, mate, Top.at) \cup {Top.at}
  BY <1>1, <1>2, TopFacts
<1>4. /\ frames' \in Seq(Frame) /\ Len(frames') = n - 1 /\ n >= 1
      /\ \A x \in 1 .. n - 1 : frames'[x] = frames[x]
  BY <1>2, <1>3, PopFacts DEF Stack
<1>5. Depths' = 1 .. n - 1 /\ Depths = 1 .. n /\ Top = frames[n]
  BY <1>4 DEF Depths, Top
<1> HIDE DEF n
<1>6. \A x \in Depths' : x \in Depths /\ frames'[x] = frames[x] /\ frames[x].at < Top.at
  <2>1. \A x \in 1 .. n - 1 : x \in 1 .. n /\ x < n
    BY <1>3
  <2> QED
    BY <1>3, <1>4, <1>5, <2>1 DEF Stack
<1>7. \A x \in Depths : x \in Depths' \/ x = n
  BY <1>3, <1>5
<1>8. Around(prog', mate', Top.at) = Around(prog, mate, Top.at)
  <2>1. Top.at <= Len(prog) + 1
    BY <1>3, Numbers DEF Around, Positions
  <2> QED
    BY <1>1, <1>3, <2>1, AroundStable
<1>9. Around(prog', mate', pos + 1) = Around(prog, mate, Top.at)
  BY <1>1, <1>2, <1>8, AroundEnd
<1>10. {frames'[x].at : x \in Depths'} = Around(prog, mate, Top.at)
  <2>1. {frames[x].at : x \in Depths} = Around(prog, mate, pos)
    BY DEF Stack
  <2>2. Top.at \notin Around(prog, mate, Top.at)
    BY <1>3 DEF Around
  <2>3. \A x \in Depths' : frames'[x].at = frames[x].at /\ frames[x].at # Top.at
    BY <1>3, <1>6
  <2>4. ASSUME NEW x \in Depths' PROVE frames'[x].at \in Around(prog, mate, Top.at)
    BY <1>3, <1>6, <2>1, <2>3
  <2>5. ASSUME NEW j \in Around(prog, mate, Top.at) PROVE \E x \in Depths' : frames'[x].at = j
    <3>1. PICK x \in Depths : frames[x].at = j
      BY <1>3, <2>1
    <3>2. x # n
      BY <1>5, <2>2, <3>1
    <3> QED
      BY <1>7, <2>3, <3>1, <3>2
  <2> QED
    BY <2>4, <2>5
<1>11. ASSUME NEW x \in Depths'
       PROVE  /\ frames'[x].k = IF InElse(prog', mate', frames'[x].at, pos + 1) THEN "else"
                                ELSE prog'[frames'[x].at].k
              /\ InSight(prog', mate', frames'[x].base, frames'[x].at)
  <2>1. pos <= pos /\ x \in Depths /\ frames'[x] = frames[x]
    BY <1>1, <1>6
  <2>2. /\ prog'[frames[x].at] = prog[frames[x].at]
        /\ InElse(prog', mate', frames[x].at, pos) <=> InElse(prog, mate, frames[x].at, pos)
        /\ InSight(prog', mate', frames[x].base, frames[x].at)
    BY <1>1, <2>1, FrameStable
  <2>3. InElse(prog', mate', frames[x].at, pos + 1) <=> InElse(prog', mate', frames[x].at, pos)
    BY ElseStep
  <2>4. frames[x].k = IF InElse(prog, mate, frames[x].at, pos) THEN "else" ELSE prog[frames[x].at].k
    BY <2>1 DEF Stack
  <2> QED
    BY <2>1, <2>2, <2>3, <2>4
<1>12. InSight(prog', mate', st', pos + 1)
  <2>1. pos <= pos
    BY <1>1
  <2>2. InSight(prog', mate', Top.base, Top.at)
    BY <1>1, <1>3, <1>5, <2>1, FrameStable
  <2>3. InSight(prog', mate', Top.base, pos + 1)
    BY <1>1, <1>2, <2>2, SightSkip
  <2> QED
    BY <2>3, SightLess
<1>13. \A x, y \in Depths' : x < y => frames'[x].at < frames'[y].at
  BY <1>6 DEF Stack
<1>14. Stack'
  BY <1>4, <1>9, <1>10, <1>11, <1>13 DEF Stack
<1>15. Defined'
  BY <1>11, <1>12 DEF Defined
<1> QED
  BY <1>1, <1>14, <1>15 DEF Walking

\* The end of a loop body, to be walked again.
LEMMA WalkAgain ==
    ASSUME NEW s, Grown(s), Closing(prog, mate), Stack, Defined, s.k = "end", Top.k \in Loops,
           frames' = Append(Pop, [Top EXCEPT !.pass = 2]), pos' = Top.at + 1, st' \in States,
           \A v \in Vars : st'[v] # "undef" => Top.base[v] # "undef"
    PROVE  Walking'
<1> DEFINE F == [Top EXCEPT !.pass = 2]
           n == Len(frames)
<1>1. /\ pos \in Nat /\ pos \in Positions(prog') /\ prog'[pos] = s /\ Closing(prog', mate')
      /\ Len(prog') \in Nat /\ Extends(prog, mate, prog', mate')
  BY GrownFacts
<1>2. frames # <<>>
  BY DEF Grown
<1>3. /\ n \in Depths /\ Top \in Frame /\ Top.at \in Nat /\ Top.at \in Around(prog, mate, pos)
      /\ Around(prog, mate, pos) = Around(prog, mate, Top.at) \cup {Top.at}
      /\ Top.k = IF InElse(prog, mate, Top.at, pos) THEN "else" ELSE prog[Top.at].k
  BY <1>1, <1>2, TopFacts
<1>4. F \in Frame /\ F.k = Top.k /\ F.at = Top.at /\ F.base = Top.base
  BY <1>3 DEF Frame
<1>5. frames' = Append(Pop, F) /\ Top = frames[n]
  BY DEF Top
<1> HIDE DEF F, n
<1>6. /\ frames' \in Seq(Frame) /\ Depths' = Depths /\ frames'[n] = F
      /\ \A x \in Depths : x # n => frames'[x] = frames[x] /\ frames[x].at < Top.at
      /\ \A x, y \in Depths' : x < y => frames'[x].at < frames'[y].at
      /\ {frames'[x].at : x \in Depths'} = Around(prog, mate, pos)
  BY <1>2, <1>4, <1>5, SwapTop DEF n
<1>7. \A x \in Depths : frames'[x].k = frames[x].k /\ frames'[x].at = frames[x].at /\ frames'[x].base = frames[x].base
  BY <1>4, <1>5, <1>6
<1>8. /\ Top.at < pos /\ Top.at \in Positions(prog') /\ prog'[Top.at].k \in Opens /\ pos <= pos
      /\ InSight(prog', mate', Top.base, Top.at)
  BY <1>1, <1>3, <1>5, FrameStable
<1>9. Top.at + 1 \in 1 .. Len(prog') + 1
  BY <1>1, <1>3, <1>8 DEF Positions
<1>10. Around(prog', mate', Top.at + 1) = Around(prog, mate, pos)
  <2>1. Top.at <= Len(prog) + 1
    BY <1>3, Numbers DEF Around, Positions
  <2>2. Around(prog', mate', Top.at) = Around(prog, mate, Top.at)
    BY <1>1, <1>3, <2>1, AroundStable
  <2>3. Around(prog', mate', Top.at + 1) = Around(prog', mate', Top.at) \cup {Top.at}
    BY <1>1, <1>8, AroundOpen
  <2> QED
    BY <1>3, <2>2, <2>3
<1>11. InSight(prog', mate', st', Top.at + 1)
  <2>1. InSight(prog', mate', Top.base, Top.at + 1)
    BY <1>1, <1>8, SightOpen
  <2> QED
    BY <2>1, SightLess
<1>12. ASSUME NEW x \in Depths
       PROVE  /\ frames[x].k = IF InElse(prog', mate', frames[x].at, Top.at + 1) THEN "else"
                               ELSE prog'[frames[x].at].k
              /\ InSight(prog', mate', frames[x].base, frames[x].at)
  <2> DEFINE i == frames[x].at
  <2>p. Top.at + 1 \in Nat /\ Top.at + 1 <= pos
    BY <1>1, <1>3, <1>8
  <2>1. /\ prog'[i] = prog[i] /\ i \in Nat /\ i < pos
        /\ InElse(prog', mate', i, Top.at + 1) <=> InElse(prog, mate, i, Top.at + 1)
        /\ InSight(prog', mate', frames[x].base, i)
    BY <2>p, FrameStable
  <2>2. i <= Top.at
    <3>1. CASE x = n
      BY <1>3, <1>5, <3>1
    <3>2. CASE x # n
      BY <1>3, <1>6, <2>1, <3>2
    <3> QED
      BY <3>1, <3>2
  <2>3. frames[x].k = IF InElse(prog, mate, i, pos) THEN "else" ELSE prog[i].k
    BY DEF Stack
  <2> HIDE DEF i
  <2>4. ~InElse(prog, mate, Top.at, pos)
    BY <1>3 DEF Loops
  <2>5. ASSUME NEW e \in Positions(prog), e < pos, prog[e].k = "else",
               Around(prog, mate, e) = Around(prog, mate, i) \cup {i}
        PROVE  e < Top.at + 1
    <3> SUFFICES ASSUME ~(e < Top.at + 1) PROVE FALSE
      OBVIOUS
    <3>1. e \in Nat
      BY Numbers
    <3>2. Top.at < e /\ e <= pos
      BY <1>1, <1>3, <2>5, <3>1
    <3>3. Top.at \in Around(prog, mate, e)
      BY <1>1, <1>3, <3>1, <3>2, AroundBetween
    <3>4. Top.at = i
      BY <1>3, <2>1, <2>2, <2>5, <3>3 DEF Around
    <3> QED
      BY <2>4, <2>5, <3>4 DEF InElse
  <2>6. ASSUME NEW e \in Positions(prog), e < Top.at + 1 PROVE e < pos
    <3>1. e \in Nat
      BY Numbers
    <3> QED
      BY <1>1, <1>3, <2>6, <2>p, <3>1
  <2>7. InElse(prog, mate, i, Top.at + 1) <=> InElse(prog, mate, i, pos)
    BY <2>5, <2>6 DEF InElse
  <2>8. /\ frames[x].k = IF InElse(prog', mate', i, Top.at + 1) THEN "else" ELSE prog'[i].k
        /\ InSight(prog', mate', frames[x].base, i)
    BY <2>1, <2>3, <2>7
  <2> QED
    BY <2>8 DEF i
<1>13. Stack'
  <2>1. \A x \in Depths' : frames'[x].k = IF InElse(prog', mate', frames'[x].at, pos') THEN "else"
                                         ELSE prog'[frames'[x].at].k
    <3> SUFFICES ASSUME NEW x \in Depths
                 PROVE  frames'[x].k = IF InElse(prog', mate', frames'[x].at, Top.at + 1) THEN "else"
                                       ELSE prog'[frames'[x].at].k
      BY <1>6
    <3>1. frames'[x].k = frames[x].k /\ frames'[x].at = frames[x].at
      BY <1>7
    <3>2. frames[x].k = IF InElse(prog', mate', frames[x].at, Top.at + 1) THEN "else" ELSE prog'[frames[x].at].k
      BY <1>12
    <3> QED
      BY <3>1, <3>2
  <2>2. {frames'[x].at : x \in Depths'} = Around(prog', mate', pos')
    BY <1>6, <1>10
  <2> QED
    BY <1>6, <2>1, <2>2 DEF Stack
<1>14. Defined'
  BY <1>6, <1>7, <1>11, <1>12 DEF Defined
<1> QED
  BY <1>9, <1>13, <1>14 DEF Walking

\* Marking a name moved defines none.
LEMMA MarkFacts ==
    ASSUME NEW S \in States, NEW w
    PROVE  /\ Mark(S, w) \in States
           /\ \A v \in Vars : Mark(S, w)[v] # "undef" => S[v] # "undef"
  BY DEF Mark, States, Status

\* Every step of the checker keeps the shape, the frames and the scopes.
LEMMA CheckWalk ==
    ASSUME Shape, phase = "check", Walk, NEW s \in Stmt, Checks(s)
    PROVE  Shape' /\ Walking' /\ Grown(s)
<1>1. Grown(s)
  BY CheckGrows
<1>2. Closing(prog, mate) /\ Stack /\ Defined /\ st \in States /\ frames \in Seq(Frame) /\ pos \in Nat
  BY DEF Shape, Walk, Walking, Stack
<1>3. s \in Statement /\ (s.k \in {"else", "end"} => frames # <<>>) /\ Shape'
  BY <1>1 DEF Grown
<1>4. frames # <<>> => Top \in Frame
  BY <1>2, TopFacts
<1>5. CASE CheckDecl(s)
  <2> DEFINE D == [st EXCEPT ![s.v] = "live"]
  <2>1. /\ s.k \in Decls /\ frames' = frames /\ pos' = pos + 1
        /\ st' = IF s.k = "bind" THEN Mark(D, s.w) ELSE D
    BY <1>5 DEF CheckDecl, Record
  <2>2. D \in States /\ \A v \in Vars : D[v] # "undef" => st[v] # "undef" \/ s.v = v
    BY <1>2 DEF States, Status
  <2> HIDE DEF D
  <2>3. Mark(D, s.w) \in States /\ \A v \in Vars : Mark(D, s.w)[v] # "undef" => D[v] # "undef"
    BY <2>2, MarkFacts
  <2>4. st' \in States /\ \A v \in Vars : st'[v] # "undef" => st[v] # "undef" \/ (s.k \in Decls /\ s.v = v)
    BY <2>1, <2>2, <2>3
  <2>5. s.k \notin Opens \cup {"else", "end"}
    BY <2>1 DEF Decls, Opens, Loops
  <2>6. Walking'
    BY <1>1, <1>2, <2>1, <2>4, <2>5, WalkPlain
  <2> QED
    BY <1>1, <1>3, <2>6
<1>6. CASE CheckMemo(s) \/ CheckRead(s)
  <2>1. /\ s.k \notin Opens \cup {"else", "end"} /\ frames' = frames /\ pos' = pos + 1 /\ st' = st
    BY <1>6 DEF CheckMemo, CheckRead, Record, InBinary, Exits, Opens, Loops
  <2>2. Walking'
    BY <1>1, <1>2, <2>1, WalkPlain
  <2> QED
    BY <1>1, <1>3, <2>2
<1>7. CASE CheckMove(s) \/ CheckAssign(s)
  <2>1. /\ s.k \notin Opens \cup {"else", "end"} /\ frames' = frames /\ pos' = pos + 1
        /\ st' = st \/ st' = Mark(st, s.v) \/ st' = Mark(st, s.w)
    BY <1>7 DEF CheckMove, CheckAssign, Record, Opens, Loops
  <2>2. st' \in States /\ \A v \in Vars : st'[v] # "undef" => st[v] # "undef"
    BY <1>2, <2>1, MarkFacts
  <2>3. Walking'
    BY <1>1, <1>2, <2>1, <2>2, WalkPlain
  <2> QED
    BY <1>1, <1>3, <2>3
<1>8. CASE CheckOpen(s)
  <2> DEFINE S == IF s.k = "whilemove" THEN Mark(st, s.v) ELSE st
  <2>1. /\ s.k \in Opens /\ pos' = pos + 1 /\ st' = S
        /\ frames' = Append(frames, [k |-> s.k, at |-> pos, base |-> S, other |-> S, pass |-> 1])
    BY <1>8 DEF CheckOpen, Record
  <2>2. S \in States /\ \A v \in Vars : S[v] # "undef" => st[v] # "undef"
    BY <1>2, MarkFacts
  <2> HIDE DEF S
  <2>3. Walking'
    BY <1>1, <1>2, <2>1, <2>2, WalkOpen
  <2> QED
    BY <1>1, <1>3, <2>3
<1>9. CASE CheckElse(s)
  <2>1. /\ s.k = "else" /\ pos' = pos + 1 /\ st' = Top.base
        /\ frames' = Append(Pop, [Top EXCEPT !.k = "else", !.other = st])
    BY <1>9 DEF CheckElse, Record
  <2>2. Walking'
    BY <1>1, <1>2, <2>1, WalkElse
  <2> QED
    BY <1>1, <1>3, <2>2
<1>10. CASE CheckEndIf(s)
  <2> DEFINE J == [v \in Vars |-> IF Top.k = "else" THEN Merge(Top.other[v], st[v]) ELSE Elevate(Top.base[v], st[v])]
  <2>1. s.k = "end" /\ pos' = pos + 1 /\ st' = Snap(Top.base, J) /\ frames' = Pop
    BY <1>10 DEF CheckEndIf, Record
  <2>2. \A v \in Vars : J[v] \in Status
    <3> SUFFICES ASSUME NEW v \in Vars PROVE J[v] \in Status
      OBVIOUS
    <3>1. Top.other[v] \in Status /\ Top.base[v] \in Status /\ st[v] \in Status
      BY <1>2, <1>3, <1>4, <2>1 DEF Frame, States
    <3>2. Merge(Top.other[v], st[v]) \in Status
      BY DEF Merge, Status
    <3>3. Elevate(Top.base[v], st[v]) \in Status
      BY <3>1 DEF Elevate, Status
    <3> QED
      BY <3>2, <3>3
  <2> HIDE DEF J
  <2>3. st' \in States /\ \A v \in Vars : st'[v] # "undef" => Top.base[v] # "undef"
    BY <2>1, <2>2 DEF Snap, States, Status
  <2>4. Walking'
    BY <1>1, <1>2, <2>1, <2>3, WalkPop
  <2> QED
    BY <1>1, <1>3, <2>4
<1>11. CASE CheckEndLoop(s)
  <2> DEFINE Seeded == [v \in Vars |-> Preseed(Top.base[v], st[v])]
             Done   == [v \in Vars |-> Elevate(Top.base[v], st[v])]
  <2>1. /\ s.k = "end" /\ Top.k \in Loops
        /\ IF Top.pass = 1
           THEN st' = Snap(Top.base, Seeded) /\ frames' = Append(Pop, [Top EXCEPT !.pass = 2]) /\ pos' = Top.at + 1
           ELSE st' = Snap(Top.base, Done) /\ frames' = Pop /\ pos' = pos + 1
    BY <1>11 DEF CheckEndLoop, Record
  <2>2. \A v \in Vars : Seeded[v] \in Status /\ Done[v] \in Status
    <3> SUFFICES ASSUME NEW v \in Vars PROVE Seeded[v] \in Status /\ Done[v] \in Status
      OBVIOUS
    <3>1. Top.base[v] \in Status /\ st[v] \in Status
      BY <1>2, <1>3, <1>4, <2>1 DEF Frame, States
    <3>2. Preseed(Top.base[v], st[v]) \in Status
      BY <3>1 DEF Preseed, Status
    <3>3. Elevate(Top.base[v], st[v]) \in Status
      BY <3>1 DEF Elevate, Status
    <3> QED
      BY <3>2, <3>3
  <2> HIDE DEF Seeded, Done
  <2>3. st' \in States /\ \A v \in Vars : st'[v] # "undef" => Top.base[v] # "undef"
    BY <2>1, <2>2 DEF Snap, States, Status
  <2>4. CASE Top.pass = 1
    <3>1. frames' = Append(Pop, [Top EXCEPT !.pass = 2]) /\ pos' = Top.at + 1
      BY <2>1, <2>4
    <3>2. Walking'
      BY <1>1, <1>2, <2>1, <2>3, <3>1, WalkAgain
    <3> QED
      BY <1>1, <1>3, <3>2
  <2>5. CASE Top.pass # 1
    <3>1. Walking'
      BY <1>1, <1>2, <2>1, <2>3, <2>5, WalkPop
    <3> QED
      BY <1>1, <1>3, <3>1
  <2> QED
    BY <2>4, <2>5
<1> QED
  BY <1>5, <1>6, <1>7, <1>8, <1>9, <1>10, <1>11 DEF Checks

-----------------------------------------------------------------------------
(* Depths of blocks. *)

\* A finite set of positions has a last one.
LEMMA LastOf ==
    ASSUME NEW n \in Nat, NEW S, S \subseteq 1 .. n, S # {}
    PROVE  \E i \in S : \A j \in S : j <= i
<1> DEFINE T == {k \in Nat : \E i \in S : k = n - i}
<1>1. T \subseteq Nat /\ T # {}
  <2>1. PICK i \in S : TRUE
    OBVIOUS
  <2>2. n - i \in Nat
    BY <2>1
  <2> QED
    BY <2>1, <2>2
<1> HIDE DEF T
<1>2. PICK k \in T : \A j \in T : <<j, k>> \notin OpToRel(<, Nat)
  BY <1>1, WFMin, NatLessThanWellFounded, Zenon
<1>3. k \in T /\ \A j \in T : ~(j < k)
  BY <1>1, <1>2, Zenon DEF OpToRel
<1>4. PICK i \in S : k = n - i
  BY <1>3 DEF T
<1>5. ASSUME NEW j \in S PROVE j <= i
  <2>1. n - j \in Nat
    OBVIOUS
  <2>2. n - j \in T
    BY <2>1 DEF T
  <2>3. ~(n - j < n - i)
    BY <1>3, <1>4, <2>2
  <2> QED
    BY <2>3
<1> QED
  BY <1>4, <1>5

\* The depth of a position is the number of blocks around it.
LEMMA NestAround ==
    ASSUME Closing(prog, mate), AllClosed, Len(prog) \in Nat, NEW p
    PROVE  /\ Nest(p) = Cardinality(Around(prog, mate, p)) /\ IsFiniteSet(Around(prog, mate, p))
           /\ Nest(p) \in Nat
<1>1. Around(prog, mate, p) = {i \in DOMAIN mate : i < p /\ p <= mate[i]}
  BY DEF AllClosed, Around
<1>2. IsFiniteSet(Around(prog, mate, p))
  <2>1. IsFiniteSet(1 .. Len(prog))
    BY FS_Interval
  <2>2. Around(prog, mate, p) \subseteq 1 .. Len(prog)
    BY DEF Around, Positions
  <2> QED
    BY <2>1, <2>2, FS_Subset
<1> QED
  BY <1>1, <1>2, FS_CardinalityType DEF Nest

\* Deeper, and one deeper.
LEMMA NestLess ==
    ASSUME Closing(prog, mate), AllClosed, Len(prog) \in Nat, NEW a, NEW b,
           Around(prog, mate, a) \subseteq Around(prog, mate, b)
    PROVE  /\ Nest(a) <= Nest(b)
           /\ Nest(a) = Nest(b) => Around(prog, mate, a) = Around(prog, mate, b)
<1>1. /\ Nest(a) = Cardinality(Around(prog, mate, a)) /\ Nest(b) = Cardinality(Around(prog, mate, b))
      /\ IsFiniteSet(Around(prog, mate, b))
  BY NestAround
<1>2. /\ Cardinality(Around(prog, mate, a)) <= Cardinality(Around(prog, mate, b))
      /\ Cardinality(Around(prog, mate, a)) = Cardinality(Around(prog, mate, b)) =>
            Around(prog, mate, b) = Around(prog, mate, a)
  BY <1>1, FS_Subset
<1> QED
  BY <1>1, <1>2

\* A position inside the block of i nests deeper than i, one level deeper exactly
\* when no other block lies between.
LEMMA NestInner ==
    ASSUME Closing(prog, mate), AllClosed, Len(prog) \in Nat, NEW i \in Nat, NEW b,
           Around(prog, mate, i) \cup {i} \subseteq Around(prog, mate, b)
    PROVE  /\ Nest(i) + 1 <= Nest(b)
           /\ Nest(i) + 1 = Nest(b) <=> Around(prog, mate, b) = Around(prog, mate, i) \cup {i}
<1> DEFINE T == Around(prog, mate, i) \cup {i}
<1>1. /\ Nest(i) = Cardinality(Around(prog, mate, i)) /\ Nest(b) = Cardinality(Around(prog, mate, b))
      /\ IsFiniteSet(Around(prog, mate, b)) /\ IsFiniteSet(Around(prog, mate, i))
  BY NestAround
<1>2. i \notin Around(prog, mate, i)
  BY DEF Around
<1>3. Cardinality(T) = Nest(i) + 1
  BY <1>1, <1>2, FS_AddElement
<1>4. T \subseteq Around(prog, mate, b)
  OBVIOUS
<1> HIDE DEF T
<1>5. /\ Cardinality(T) <= Cardinality(Around(prog, mate, b))
      /\ Cardinality(T) = Cardinality(Around(prog, mate, b)) => Around(prog, mate, b) = T
  BY <1>1, <1>4, FS_Subset
<1>6. /\ Nest(i) + 1 <= Nest(b)
      /\ Nest(i) + 1 = Nest(b) <=> Around(prog, mate, b) = T
  BY <1>1, <1>3, <1>5
<1> QED
  BY <1>6 DEF T

\* Inside the block at i, what is declared in the block is what is declared
\* deeper than its head.
LEMMA DeeperInside ==
    ASSUME Closing(prog, mate), AllClosed, Len(prog) \in Nat, NEW q \in Nat, NEW i \in Around(prog, mate, q),
           NEW d \in Positions(prog), prog[d].k \in Decls, Visible(prog, mate, d, q)
    PROVE  Nest(d) + 1 > Nest(i) + 1 <=> ~(d < i)
<1>1. i \in Nat /\ d \in Nat /\ i < q /\ d < q /\ prog[i].k \in Opens /\ d # i
  BY Numbers DEF Around, Visible, Opens, Loops, Decls
<1>2. Nest(d) \in Nat /\ Nest(i) \in Nat
  BY NestAround
<1>3. CASE d < i
  <2>1. Around(prog, mate, d) \subseteq Around(prog, mate, i)
    <3> SUFFICES ASSUME NEW h \in Around(prog, mate, d) PROVE h \in Around(prog, mate, i)
      OBVIOUS
    <3>1. h \in Around(prog, mate, q) /\ h \in Nat /\ h < d
      BY Numbers DEF Visible, Around
    <3>2. h < i /\ i <= q
      BY <1>1, <1>3, <3>1
    <3> QED
      BY <1>1, <3>1, <3>2, AroundBetween
  <2>2. Nest(d) <= Nest(i)
    BY <2>1, NestLess
  <2> QED
    BY <1>2, <1>3, <2>2
<1>4. CASE i < d
  <2>1. d <= q
    BY <1>1
  <2>2. i \in Around(prog, mate, d)
    BY <1>1, <1>4, <2>1, AroundBetween
  <2>3. Around(prog, mate, i) \cup {i} \subseteq Around(prog, mate, d)
    BY <1>1, <2>2, AroundNested
  <2>4. Nest(i) + 1 <= Nest(d)
    BY <1>1, <2>3, NestInner
  <2> QED
    BY <1>1, <1>2, <1>4, <2>4
<1> QED
  BY <1>1, <1>3, <1>4

\* The block that an end or an else closes.
LEMMA ClosedBlock ==
    ASSUME Closing(prog, mate), AllClosed, Elses(prog, mate), Len(prog) \in Nat,
           NEW q \in Positions(prog), prog[q].k \in {"end", "else"}
    PROVE  \E i \in DOMAIN mate :
              /\ Around(prog, mate, q) = Around(prog, mate, i) \cup {i}
              /\ Nest(q) = Nest(i) + 1
              /\ i = CHOOSE o \in DOMAIN mate : o < q /\ q <= mate[o] /\ Nest(o) = Nest(q) - 1
              /\ prog[q].k = "end" => mate[i] = q
              /\ prog[q].k = "else" => prog[i].k = "if"
<1>1. q \in Nat
  BY Numbers
<1>2. PICK i \in DOMAIN mate : /\ Around(prog, mate, q) = Around(prog, mate, i) \cup {i}
                               /\ prog[q].k = "end" => mate[i] = q
                               /\ prog[q].k = "else" => prog[i].k = "if"
  <2>1. CASE prog[q].k = "end"
    <3>1. PICK i \in DOMAIN mate : mate[i] = q
      BY <2>1 DEF Closing
    <3>2. Around(prog, mate, q) = Around(prog, mate, i) \cup {i}
      BY <3>1, AroundEnd
    <3> QED
      BY <2>1, <3>1, <3>2
  <2>2. CASE prog[q].k = "else"
    <3>1. PICK i \in Positions(prog) : prog[i].k = "if" /\ Around(prog, mate, q) = Around(prog, mate, i) \cup {i}
      BY <2>2 DEF Elses
    <3>2. i \in DOMAIN mate
      BY <3>1 DEF AllClosed, Opens
    <3> QED
      BY <2>2, <3>1, <3>2
  <2> QED
    BY <2>1, <2>2
<1>3. i \in Nat /\ i < q /\ q <= mate[i]
  BY <1>2, Numbers DEF Around
<1>4. Nest(q) = Nest(i) + 1 /\ Nest(i) \in Nat /\ Nest(q) \in Nat
  BY <1>2, <1>3, NestInner, NestAround
<1>5. Nest(i) = Nest(q) - 1
  BY <1>4
<1>6. ASSUME NEW o \in DOMAIN mate, o < q, q <= mate[o], Nest(o) = Nest(q) - 1
      PROVE  o = i
  <2> SUFFICES ASSUME o # i PROVE FALSE
    OBVIOUS
  <2>1. o \in Positions(prog) /\ o \in Nat /\ prog[o].k \in Opens
    BY Numbers DEF Closing
  <2>2. o \in Around(prog, mate, q)
    BY <1>6, <2>1 DEF Around
  <2>3. o \in Around(prog, mate, i)
    BY <1>2, <2>2
  <2>4. Around(prog, mate, o) \cup {o} \subseteq Around(prog, mate, i)
    BY <1>3, <2>3, AroundNested
  <2>5. Nest(o) + 1 <= Nest(i)
    BY <2>1, <2>4, NestInner
  <2> QED
    BY <1>4, <1>6, <2>5
<1>7. i = CHOOSE o \in DOMAIN mate : o < q /\ q <= mate[o] /\ Nest(o) = Nest(q) - 1
  BY <1>3, <1>5, <1>6
<1> QED
  BY <1>2, <1>4, <1>7

-----------------------------------------------------------------------------
(* Scopes at run time. *)

\* The scope only depends on which declarations are visible.
LEMMA ScopeMoves ==
    ASSUME NEW P, NEW M, NEW D, NEW p, NEW q, ScopeAt(P, M, D, p),
           \A d \in Positions(P) : P[d].k \in Decls => (Visible(P, M, d, q) <=> Visible(P, M, d, p))
    PROVE  ScopeAt(P, M, D, q)
  BY DEF ScopeAt, DeclOf

\* One statement on.
LEMMA ScopeSame ==
    ASSUME NEW P, NEW M, Closing(P, M), NEW p \in Positions(P),
           P[p].k \notin Opens \cup Decls \cup {"end", "else"}, NEW D, ScopeAt(P, M, D, p)
    PROVE  ScopeAt(P, M, D, p + 1)
<1>1. \A d \in Positions(P) : P[d].k \in Decls => (Visible(P, M, d, p + 1) <=> Visible(P, M, d, p))
  BY VisStep, Numbers
<1> QED
  BY <1>1, ScopeMoves

\* A declaration.
LEMMA ScopeDecl ==
    ASSUME NEW P, NEW M, Closing(P, M), Scoped(P, M), NEW p \in Positions(P), P[p].k \in Decls,
           NEW D \in [Vars -> Nat], ScopeAt(P, M, D, p)
    PROVE  ScopeAt(P, M, [D EXCEPT ![P[p].v] = Cardinality(Around(P, M, p)) + 1], p + 1)
<1> DEFINE E == [D EXCEPT ![P[p].v] = Cardinality(Around(P, M, p)) + 1]
<1>1. P[p].k \notin Opens \cup {"end", "else"} /\ Positions(P) \subseteq Nat
  BY Numbers DEF Decls, Opens, Loops
<1>2. \A d \in Positions(P) : Visible(P, M, d, p + 1) <=> Visible(P, M, d, p) \/ d = p
  BY <1>1, VisStep
<1>3. ASSUME NEW v \in Vars
      PROVE  /\ E[v] # 0 => \E d \in Positions(P) : DeclOf(P, d, v)
             /\ \A d \in Positions(P) : DeclOf(P, d, v) =>
                  E[v] = IF Visible(P, M, d, p + 1) THEN Cardinality(Around(P, M, d)) + 1 ELSE 0
  <2>1. CASE v = P[p].v
    <3>1. DeclOf(P, p, v)
      BY <2>1 DEF DeclOf
    <3>2. \A d \in Positions(P) : DeclOf(P, d, v) => d = p
      BY <2>1 DEF DeclOf, Scoped
    <3>3. E[v] = Cardinality(Around(P, M, p)) + 1
      BY <2>1
    <3> HIDE DEF E
    <3> QED
      BY <1>2, <3>1, <3>2, <3>3
  <2>2. CASE v # P[p].v
    <3>1. E[v] = D[v]
      BY <2>2
    <3>2. \A d \in Positions(P) : DeclOf(P, d, v) => d # p
      BY <2>2 DEF DeclOf
    <3> HIDE DEF E
    <3> QED
      BY <1>2, <3>1, <3>2 DEF ScopeAt
  <2> QED
    BY <2>1, <2>2
<1> QED
  BY <1>3 DEF ScopeAt

\* Into a block.
LEMMA ScopeOpen ==
    ASSUME NEW P, NEW M, Closing(P, M), NEW p \in Positions(P), P[p].k \in Opens, NEW D, ScopeAt(P, M, D, p)
    PROVE  ScopeAt(P, M, D, p + 1)
<1>1. \A d \in Positions(P) : P[d].k \in Decls => d # p /\ d \in Nat
  BY Numbers DEF Decls, Opens, Loops
<1>2. \A d \in Positions(P) : P[d].k \in Decls => (Visible(P, M, d, p + 1) <=> Visible(P, M, d, p))
  BY <1>1, VisOpen
<1> QED
  BY <1>2, ScopeMoves

\* Past a block.
LEMMA ScopeSkip ==
    ASSUME NEW P, NEW M, Closing(P, M), NEW i \in DOMAIN M, NEW D, ScopeAt(P, M, D, i)
    PROVE  ScopeAt(P, M, D, M[i] + 1)
<1>1. \A d \in Positions(P) : P[d].k \in Decls => P[d].k \notin Opens
  BY DEF Decls, Opens, Loops
<1>2. \A d \in Positions(P) : P[d].k \in Decls => (Visible(P, M, d, M[i] + 1) <=> Visible(P, M, d, i))
  BY <1>1, VisSkip
<1> QED
  BY <1>2, ScopeMoves

\* Into an else branch.
LEMMA ScopeElse ==
    ASSUME NEW P, NEW M, Closing(P, M), NEW i \in Positions(P), P[i].k \in Opens,
           NEW e \in Positions(P), P[e].k = "else", i < e,
           Around(P, M, e) = Around(P, M, i) \cup {i}, NEW D, ScopeAt(P, M, D, i)
    PROVE  ScopeAt(P, M, D, e + 1)
<1>1. \A d \in Positions(P) : P[d].k \in Decls => P[d].k \notin Opens \cup {"else"}
  BY DEF Decls, Opens, Loops
<1>2. \A d \in Positions(P) : P[d].k \in Decls => (Visible(P, M, d, e + 1) <=> Visible(P, M, d, i))
  BY <1>1, VisElse
<1> QED
  BY <1>2, ScopeMoves

\* Out of a block, once what was declared in it is dropped.
LEMMA ScopeLeave ==
    ASSUME Closing(prog, mate), AllClosed, Len(prog) \in Nat, NEW q \in Nat, NEW i \in Around(prog, mate, q),
           depth \in [Vars -> Nat], ScopeAt(prog, mate, depth, q), NEW D,
           D = [v \in Vars |-> IF v \in InScope(Nest(i) + 1) THEN 0 ELSE depth[v]]
    PROVE  ScopeAt(prog, mate, D, i)
<1> SUFFICES ASSUME NEW v \in Vars
             PROVE  /\ D[v] # 0 => \E d \in Positions(prog) : DeclOf(prog, d, v)
                    /\ \A d \in Positions(prog) : DeclOf(prog, d, v) =>
                         D[v] = IF Visible(prog, mate, d, i) THEN Cardinality(Around(prog, mate, d)) + 1 ELSE 0
  BY DEF ScopeAt
<1>1. D[v] = IF depth[v] > Nest(i) + 1 THEN 0 ELSE depth[v]
  BY DEF InScope
<1>2. depth[v] # 0 => \E d \in Positions(prog) : DeclOf(prog, d, v)
  BY DEF ScopeAt
<1>3. ASSUME NEW d \in Positions(prog), DeclOf(prog, d, v)
      PROVE  D[v] = IF Visible(prog, mate, d, i) THEN Cardinality(Around(prog, mate, d)) + 1 ELSE 0
  <2>1. depth[v] = IF Visible(prog, mate, d, q) THEN Cardinality(Around(prog, mate, d)) + 1 ELSE 0
    BY <1>3 DEF ScopeAt
  <2>2. Visible(prog, mate, d, i) <=> d < i /\ Visible(prog, mate, d, q)
    BY VisOut, Numbers
  <2>3. Nest(d) = Cardinality(Around(prog, mate, d)) /\ Nest(d) \in Nat /\ Nest(i) \in Nat
    BY NestAround
  <2>4. CASE Visible(prog, mate, d, q)
    <3>1. Nest(d) + 1 > Nest(i) + 1 <=> ~(d < i)
      BY <1>3, <2>4, DeeperInside DEF DeclOf
    <3> QED
      BY <1>1, <2>1, <2>2, <2>3, <2>4, <3>1
  <2>5. CASE ~Visible(prog, mate, d, q)
    BY <1>1, <2>1, <2>2, <2>3, <2>5
  <2> QED
    BY <2>4, <2>5
<1> QED
  BY <1>1, <1>2, <1>3

\* What a statement needs is in scope, what it declares is not yet.
LEMMA NeededInScope ==
    ASSUME Closing(prog, mate), AllClosed, Len(prog) \in Nat, Scoped(prog, mate), NEW p \in Positions(prog),
           ScopeAt(prog, mate, depth, p)
    PROVE  /\ \A v \in Needs(prog[p]) : v \in Vars => depth[v] # 0
           /\ prog[p].k \in Decls /\ prog[p].v \in Vars => depth[prog[p].v] = 0
<1>1. ASSUME NEW v \in Needs(prog[p]), v \in Vars PROVE depth[v] # 0
  <2>1. PICK d \in Positions(prog) : DeclOf(prog, d, v) /\ Visible(prog, mate, d, p)
    BY DEF Scoped
  <2>2. depth[v] = Cardinality(Around(prog, mate, d)) + 1
    BY <1>1, <2>1 DEF ScopeAt
  <2>3. Cardinality(Around(prog, mate, d)) \in Nat
    BY NestAround
  <2> QED
    BY <2>2, <2>3
<1>2. ASSUME prog[p].k \in Decls, prog[p].v \in Vars PROVE depth[prog[p].v] = 0
  <2>1. DeclOf(prog, p, prog[p].v)
    BY <1>2 DEF DeclOf
  <2>2. ~Visible(prog, mate, p, p)
    BY Numbers DEF Visible
  <2> QED
    BY <1>2, <2>1, <2>2 DEF ScopeAt
<1> QED
  BY <1>1, <1>2

-----------------------------------------------------------------------------
(* The heap operations. *)

\* An allocation adds one live block behind the others.
LEMMA AllocFacts ==
    ASSUME NEW m \in Memory
    PROVE  /\ Alloc(m) \in Memory /\ Newest(Alloc(m)) = Len(m.h) + 1 /\ Len(m.h) \in Nat
           /\ Len(Alloc(m).h) = Len(m.h) + 1
           /\ \A b \in 1 .. Len(m.h) : Alloc(m).h[b] = m.h[b]
           /\ Alloc(m).h[Len(m.h) + 1] = "live"
<1>1. m.h \in Heaps /\ Alloc(m).h = Append(m.h, "live") /\ Alloc(m) \in Memory
  <2>1. m.h \in Heaps
    BY DEF Memory
  <2>2. Append(m.h, "live") \in Heaps
    BY <2>1 DEF Heaps
  <2> QED
    BY <2>1, <2>2 DEF Memory, Alloc
<1> QED
  BY <1>1 DEF Heaps, Newest

\* A free revives nothing, and the freed block is not live behind it.
LEMMA FreeFacts ==
    ASSUME NEW m \in Memory, NEW b
    PROVE  /\ Free(m, b) \in Memory /\ Len(Free(m, b).h) = Len(m.h)
           /\ \A c \in 1 .. Len(m.h) : Free(m, b).h[c] = "live" => c # b /\ m.h[c] = "live"
<1>1. m.h \in Heaps
  BY DEF Memory
<1>2. CASE m.h[b] = "freed"
  BY <1>1, <1>2 DEF Free, Memory
<1>3. CASE m.h[b] # "freed"
  <2>1. Free(m, b).h = [m.h EXCEPT ![b] = "freed"] /\ Free(m, b).f = m.f
    BY <1>3 DEF Free, Memory
  <2>2. [m.h EXCEPT ![b] = "freed"] \in Heaps /\ Len([m.h EXCEPT ![b] = "freed"]) = Len(m.h)
    <3> DEFINE H == [m.h EXCEPT ![b] = "freed"]
    <3>1. m.h \in [1 .. Len(m.h) -> {"live", "freed"}] /\ Len(m.h) \in Nat
      BY <1>1 DEF Heaps
    <3>2. H \in [1 .. Len(m.h) -> {"live", "freed"}]
      BY <3>1
    <3> HIDE DEF H
    <3>3. H \in Heaps /\ Len(H) = Len(m.h)
      BY <3>1, <3>2 DEF Heaps
    <3> QED
      BY <3>3 DEF H
  <2>3. Free(m, b) \in Memory
    BY <1>3, <2>1, <2>2 DEF Free, Memory
  <2> QED
    BY <1>1, <2>1, <2>2, <2>3 DEF Heaps
<1> QED
  BY <1>2, <1>3

\* A read may fault; it changes no block.
LEMMA ReadFacts ==
    ASSUME NEW m \in Memory, NEW v
    PROVE  Read(m, v) \in Memory /\ Read(m, v).h = m.h
  BY DEF Read, Memory

\* Scope cleanup leaves live only what no unflagged local of the scope holds.
LEMMA CleanupFacts ==
    ASSUME NEW m \in Memory, NEW S
    PROVE  /\ Cleanup(m, S) \in Memory /\ Len(Cleanup(m, S).h) = Len(m.h)
           /\ \A c \in 1 .. Len(m.h) : Cleanup(m, S).h[c] = "live" =>
                 m.h[c] = "live" /\ \A v \in S : ~flag[v] => slot[v] # c
<1> DEFINE freed == {slot[v] : v \in {u \in S : ~flag[u]}}
           H == [b \in DOMAIN m.h |-> IF b \in freed THEN "freed" ELSE m.h[b]]
<1>1. m.h \in Heaps /\ DOMAIN m.h = 1 .. Len(m.h) /\ Len(m.h) \in Nat
  BY DEF Memory, Heaps
<1>2. Cleanup(m, S).h = H /\ (Cleanup(m, S).f = m.f \/ Cleanup(m, S).f = m.f \cup {"double_free"})
      /\ Cleanup(m, S) = [h |-> Cleanup(m, S).h, f |-> Cleanup(m, S).f]
  BY DEF Cleanup
<1>3. H \in Heaps /\ Len(H) = Len(m.h)
  <2>1. \A b \in 1 .. Len(m.h) : H[b] \in {"live", "freed"}
    BY <1>1 DEF Heaps
  <2>2. H \in [1 .. Len(m.h) -> {"live", "freed"}]
    BY <1>1, <2>1
  <2> HIDE DEF H
  <2> QED
    BY <1>1, <2>2 DEF Heaps
<1>4. \A c \in 1 .. Len(m.h) : H[c] = "live" => m.h[c] = "live" /\ \A v \in S : ~flag[v] => slot[v] # c
  BY <1>1
<1>5. Cleanup(m, S) \in Memory
  <2> HIDE DEF H
  <2>1. m.f \cup {"double_free"} \in SUBSET {"double_free", "use_after_free", "use_after_move"}
    BY DEF Memory
  <2>2. m.f \in SUBSET {"double_free", "use_after_free", "use_after_move"}
    BY DEF Memory
  <2> QED
    BY <1>2, <1>3, <2>1, <2>2 DEF Memory
<1> HIDE DEF H
<1> QED
  BY <1>2, <1>3, <1>4, <1>5

-----------------------------------------------------------------------------
(* The run: every statement keeps the scopes and the owners. *)

Running ==
    /\ Shape /\ AllClosed /\ pos \in Positions(prog)
    /\ ScopeAt(prog, mate, depth, pos) /\ Owned

\* The next statement is again in the program or behind it.
Landed == pos' \in 1 .. Len(prog) + 1 /\ ScopeAt(prog, mate, depth', pos')

\* Block b is held by a local in scope.
HeldBy(D, F, S, b) == \E v \in Vars : D[v] # 0 /\ ~F[v] /\ S[v] = b

\* What a run lemma starts from.
LEMMA RunFacts ==
    ASSUME Running
    PROVE  /\ prog \in Seq(Statement) /\ Len(prog) \in Nat /\ Closing(prog, mate) /\ Elses(prog, mate)
           /\ Scoped(prog, mate) /\ AllClosed /\ pos \in Nat /\ pos \in Positions(prog)
           /\ pos + 1 \in 1 .. Len(prog) + 1
           /\ RStmt = prog[pos] /\ RStmt \in Statement /\ ScopeAt(prog, mate, depth, pos)
           /\ Now \in Memory /\ Now.h = heap /\ Len(heap) \in Nat
           /\ flag \in [Vars -> BOOLEAN] /\ depth \in [Vars -> Nat] /\ slot \in [Vars -> Nat]
           /\ \A b \in 1 .. Len(heap) : heap[b] = "live" => HeldBy(depth, flag, slot, b)
           /\ \A v \in Needs(RStmt) : v \in Vars => depth[v] # 0
           /\ RStmt.k \in Decls /\ RStmt.v \in Vars => depth[RStmt.v] = 0
<1>1. /\ prog \in Seq(Statement) /\ Closing(prog, mate) /\ Elses(prog, mate)
      /\ Scoped(prog, mate) /\ AllClosed /\ pos \in Positions(prog) /\ ScopeAt(prog, mate, depth, pos)
  BY DEF Running, Shape
<1>2. Len(prog) \in Nat /\ pos \in Nat /\ pos + 1 \in 1 .. Len(prog) + 1 /\ prog[pos] \in Statement
  BY <1>1 DEF Positions
<1>3. /\ Now \in Memory /\ Now.h = heap
      /\ flag \in [Vars -> BOOLEAN] /\ depth \in [Vars -> Nat] /\ slot \in [Vars -> Nat]
      /\ \A b \in 1 .. Len(heap) : heap[b] = "live" => HeldBy(depth, flag, slot, b)
  BY DEF Running, Owned, Now, HeldBy
<1>4. Len(heap) \in Nat
  BY <1>3 DEF Memory, Heaps
<1>5. /\ \A v \in Needs(prog[pos]) : v \in Vars => depth[v] # 0
      /\ prog[pos].k \in Decls /\ prog[pos].v \in Vars => depth[prog[pos].v] = 0
  BY <1>1, <1>2, NeededInScope
<1> QED
  BY <1>1, <1>2, <1>3, <1>4, <1>5 DEF RStmt

\* What shows that a statement keeps the owners.
LEMMA OwnedNext ==
    ASSUME NEW m \in Memory, Keep(m), flag' \in [Vars -> BOOLEAN], depth' \in [Vars -> Nat], slot' \in [Vars -> Nat],
           \A b \in 1 .. Len(m.h) : m.h[b] = "live" => HeldBy(depth', flag', slot', b)
    PROVE  Owned'
<1>1. heap' = m.h /\ Now' = [h |-> m.h, f |-> m.f]
  BY DEF Keep, Now
<1>2. [h |-> m.h, f |-> m.f] \in Memory
  BY DEF Memory
<1> QED
  BY <1>1, <1>2 DEF Owned, HeldBy

\* Names of the operands.
LEMMA Operands ==
    ASSUME NEW s \in Statement
    PROVE  /\ s.k \in Unary \cup Binary => s.v \in Vars
           /\ s.k \in Binary => s.w \in Vars
           /\ s.k \in (Unary \cup Binary) \ Decls => s.v \in Needs(s)
  BY DEF Statement, Needs

\* cg_stmt_var_decl: the new local holds the new, cloned or taken block.
LEMMA RunDeclOwned ==
    ASSUME Running, RunDecl
    PROVE  Landed /\ Owned'
<1> DEFINE v == RStmt.v
           w == RStmt.w
           moves == RStmt.k = "bind" /\ pos \in moved_out
           m == IF RStmt.k = "decl" THEN Alloc(Now)
                ELSE IF moves THEN Read(Now, w) ELSE Alloc(Read(Now, w))
           b == IF moves THEN slot[w] ELSE Newest(m)
<1>1. /\ RStmt.k \in Decls /\ Keep(m) /\ pos' = pos + 1 /\ flag' = Rebound(v, w, moves)
      /\ slot' = [slot EXCEPT ![v] = b]
      /\ depth' = [depth EXCEPT ![v] = Nest(pos) + 1]
  BY DEF RunDecl, Declare, Step, Goto
<1>2. /\ Len(prog) \in Nat /\ Closing(prog, mate) /\ Scoped(prog, mate) /\ AllClosed
      /\ pos \in Positions(prog) /\ pos + 1 \in 1 .. Len(prog) + 1
      /\ RStmt = prog[pos] /\ RStmt \in Statement /\ ScopeAt(prog, mate, depth, pos)
      /\ Now \in Memory /\ Now.h = heap /\ Len(heap) \in Nat
      /\ flag \in [Vars -> BOOLEAN] /\ depth \in [Vars -> Nat] /\ slot \in [Vars -> Nat]
      /\ \A c \in 1 .. Len(heap) : heap[c] = "live" => HeldBy(depth, flag, slot, c)
      /\ RStmt.k \in Decls /\ RStmt.v \in Vars => depth[RStmt.v] = 0
  BY RunFacts
<1>3. v \in Vars /\ (RStmt.k = "bind" => w \in Vars) /\ depth[v] = 0
  BY <1>1, <1>2, Operands DEF Decls, Unary, Binary
<1>4. Nest(pos) = Cardinality(Around(prog, mate, pos)) /\ Nest(pos) \in Nat /\ Nest(pos) + 1 # 0
  <2>1. Nest(pos) = Cardinality(Around(prog, mate, pos)) /\ Nest(pos) \in Nat
    BY <1>2, NestAround
  <2> QED
    BY <2>1
<1>5. Landed
  <2>1. depth' = [depth EXCEPT ![prog[pos].v] = Cardinality(Around(prog, mate, pos)) + 1]
    BY <1>1, <1>2, <1>4
  <2>2. prog[pos].k \in Decls
    BY <1>1, <1>2
  <2>3. ScopeAt(prog, mate, [depth EXCEPT ![prog[pos].v] = Cardinality(Around(prog, mate, pos)) + 1], pos + 1)
    BY <1>2, <2>2, ScopeDecl
  <2> QED
    BY <1>1, <1>2, <2>1, <2>3 DEF Landed
<1>6. /\ m \in Memory /\ b \in Nat /\ \A c \in 1 .. Len(heap) : m.h[c] = heap[c]
      /\ Len(m.h) = Len(heap) \/ (Len(m.h) = Len(heap) + 1 /\ b = Len(heap) + 1)
      /\ ~moves => b = Len(heap) + 1
  <2>1. Read(Now, w) \in Memory /\ Read(Now, w).h = heap
    BY <1>2, ReadFacts
  <2>2. CASE moves
    BY <1>2, <1>3, <2>1, <2>2
  <2>3. CASE ~moves
    <3>1. PICK n \in Memory : m = Alloc(n) /\ n.h = heap
      BY <1>1, <1>2, <2>1, <2>3 DEF Decls
    <3>2. b = Newest(m)
      BY <2>3
    <3> HIDE DEF m, b, moves
    <3> QED
      BY <1>2, <3>1, <3>2, AllocFacts
  <2> QED
    BY <2>2, <2>3
<1> HIDE DEF m, b
<1>7. flag' \in [Vars -> BOOLEAN] /\ flag'[v] = FALSE
      /\ \A u \in Vars : u # v => flag'[u] = flag[u] \/ (moves /\ u = w)
  <2> HIDE DEF moves
  <2> QED
    BY <1>1, <1>2, <1>3 DEF Rebound
<1>8. slot' \in [Vars -> Nat] /\ depth' \in [Vars -> Nat] /\ slot'[v] = b /\ depth'[v] # 0
      /\ \A u \in Vars : u # v => slot'[u] = slot[u] /\ depth'[u] = depth[u]
  BY <1>1, <1>2, <1>3, <1>4, <1>6
<1>9. ASSUME NEW c \in 1 .. Len(m.h), m.h[c] = "live" PROVE HeldBy(depth', flag', slot', c)
  <2>1. CASE c = b
    BY <1>3, <1>7, <1>8, <2>1 DEF HeldBy
  <2>2. CASE c # b
    <3>1. c \in 1 .. Len(heap)
      BY <1>2, <1>6, <2>2
    <3>2. heap[c] = "live"
      BY <1>6, <1>9, <3>1
    <3>3. PICK u \in Vars : depth[u] # 0 /\ ~flag[u] /\ slot[u] = c
      BY <1>2, <3>1, <3>2 DEF HeldBy
    <3>4. u # v
      BY <1>3, <3>3
    <3>5. ~(moves /\ u = w)
      BY <2>2, <3>3 DEF b
    <3> QED
      BY <1>7, <1>8, <3>3, <3>4, <3>5 DEF HeldBy
  <2> QED
    BY <2>1, <2>2
<1>10. Owned'
  BY <1>1, <1>6, <1>7, <1>8, <1>9, OwnedNext
<1> QED
  BY <1>5, <1>10

\* A statement that opens, closes and declares nothing.
LEMMA PlainLanded ==
    ASSUME Running, RStmt.k \notin Opens \cup Decls \cup {"end", "else"}, depth' = depth, pos' = pos + 1
    PROVE  Landed
<1>1. /\ Closing(prog, mate) /\ pos \in Positions(prog) /\ pos + 1 \in 1 .. Len(prog) + 1
      /\ RStmt = prog[pos] /\ ScopeAt(prog, mate, depth, pos)
  BY RunFacts
<1>2. ScopeAt(prog, mate, depth, pos + 1)
  BY <1>1, ScopeSame
<1> QED
  BY <1>1, <1>2 DEF Landed

\* The conditional drop.
LEMMA DropFacts ==
    ASSUME NEW m \in Memory, NEW v
    PROVE  /\ DropCond(m, v) \in Memory /\ Len(DropCond(m, v).h) = Len(m.h)
           /\ \A c \in 1 .. Len(m.h) : DropCond(m, v).h[c] = "live" =>
                 m.h[c] = "live" /\ (~flag[v] => c # slot[v])
  BY FreeFacts DEF DropCond

\* A local v in scope gets another block b, its old one is dropped, and only an
\* owner of b may have lost it.
LEMMA Reassigned ==
    ASSUME Running, NEW v \in Vars, depth[v] # 0, NEW m \in Memory, Keep(m), NEW b \in Nat,
           slot' = [slot EXCEPT ![v] = b], depth' = depth, flag' \in [Vars -> BOOLEAN], flag'[v] = FALSE,
           \A u \in Vars : u # v => flag'[u] = flag[u] \/ slot[u] = b,
           \A c \in 1 .. Len(m.h) : m.h[c] = "live" /\ c # b =>
               c \in 1 .. Len(heap) /\ heap[c] = "live" /\ (~flag[v] => c # slot[v])
    PROVE  Owned'
<1>1. /\ depth \in [Vars -> Nat] /\ slot \in [Vars -> Nat]
      /\ \A c \in 1 .. Len(heap) : heap[c] = "live" => HeldBy(depth, flag, slot, c)
  BY RunFacts
<1>2. slot' \in [Vars -> Nat] /\ slot'[v] = b /\ \A u \in Vars : u # v => slot'[u] = slot[u]
  BY <1>1
<1>3. ASSUME NEW c \in 1 .. Len(m.h), m.h[c] = "live" PROVE HeldBy(depth', flag', slot', c)
  <2>1. CASE c = b
    BY <1>2, <2>1 DEF HeldBy
  <2>2. CASE c # b
    <3>1. c \in 1 .. Len(heap) /\ heap[c] = "live" /\ (~flag[v] => c # slot[v])
      BY <1>3, <2>2
    <3>2. PICK u \in Vars : depth[u] # 0 /\ ~flag[u] /\ slot[u] = c
      BY <1>1, <3>1 DEF HeldBy
    <3>3. u # v /\ slot[u] # b
      BY <2>2, <3>1, <3>2
    <3> QED
      BY <1>2, <3>2, <3>3 DEF HeldBy
  <2> QED
    BY <2>1, <2>2
<1> QED
  BY <1>1, <1>2, <1>3, OwnedNext

\* cg_stmt_assign: the old value is dropped unless its drop is suppressed, and
\* the target is unflagged, so that it holds the new one.
LEMMA RunAssignOwned ==
    ASSUME Running, RunAssign
    PROVE  Landed /\ Owned'
<1> DEFINE v == RStmt.v
           w == RStmt.w
           moves == RStmt.k = "assign" /\ pos \in moved_out
           value == IF RStmt.k = "set" THEN Alloc(Now) ELSE Read(Now, w)
           dropped == DropCond(value, v)
           m == IF RStmt.k = "assign" /\ ~moves THEN Alloc(dropped) ELSE dropped
           b == IF moves THEN slot[w] ELSE Newest(m)
<1>1. /\ RStmt.k \in {"set", "assign"} /\ Keep(m) /\ pos' = pos + 1 /\ flag' = Rebound(v, w, moves)
      /\ slot' = [slot EXCEPT ![v] = b] /\ depth' = depth
  BY DEF RunAssign, Step, Goto
<1>2. /\ RStmt \in Statement /\ Now \in Memory /\ Now.h = heap /\ Len(heap) \in Nat
      /\ flag \in [Vars -> BOOLEAN] /\ slot \in [Vars -> Nat]
      /\ \A u \in Needs(RStmt) : u \in Vars => depth[u] # 0
  BY RunFacts
<1>3. v \in Vars /\ (RStmt.k = "assign" => w \in Vars) /\ depth[v] # 0
  <2>1. RStmt.k \in (Unary \cup Binary) \ Decls /\ (RStmt.k = "assign" => RStmt.k \in Binary)
    BY <1>1 DEF Decls, Unary, Binary
  <2> QED
    BY <1>2, <2>1, Operands
<1>4. Landed
  <2>1. RStmt.k \notin Opens \cup Decls \cup {"end", "else"}
    BY <1>1 DEF Opens, Loops, Decls
  <2> QED
    BY <1>1, <2>1, PlainLanded
<1>5. /\ value \in Memory /\ (\A c \in 1 .. Len(heap) : value.h[c] = heap[c])
      /\ Len(value.h) = IF RStmt.k = "set" THEN Len(heap) + 1 ELSE Len(heap)
  BY <1>2, AllocFacts, ReadFacts
<1> HIDE DEF value
<1>6. /\ dropped \in Memory /\ Len(dropped.h) = Len(value.h)
      /\ \A c \in 1 .. Len(value.h) : dropped.h[c] = "live" => value.h[c] = "live" /\ (~flag[v] => c # slot[v])
  BY <1>5, DropFacts
<1> HIDE DEF dropped
<1>7. /\ m \in Memory /\ b \in Nat
      /\ moves => Len(m.h) = Len(heap)
      /\ ~moves => Len(m.h) = Len(heap) + 1 /\ b = Len(heap) + 1
      /\ \A c \in 1 .. Len(heap) : m.h[c] = "live" => heap[c] = "live" /\ (~flag[v] => c # slot[v])
  <2>1. CASE RStmt.k = "assign" /\ ~moves
    <3>1. m = Alloc(dropped) /\ b = Newest(m)
      BY <2>1
    <3> HIDE DEF m, b
    <3>2. Len(dropped.h) = Len(heap)
      BY <1>5, <1>6, <2>1
    <3>3. /\ m \in Memory /\ b = Len(heap) + 1 /\ Len(m.h) = Len(heap) + 1
          /\ \A c \in 1 .. Len(heap) : m.h[c] = dropped.h[c]
      BY <1>6, <3>1, <3>2, AllocFacts
    <3> QED
      BY <1>2, <1>5, <1>6, <2>1, <3>2, <3>3
  <2>2. CASE moves
    <3>1. m = dropped /\ b = slot[w] /\ RStmt.k = "assign"
      BY <2>2
    <3> HIDE DEF m, b
    <3> QED
      BY <1>2, <1>3, <1>5, <1>6, <2>2, <3>1
  <2>3. CASE RStmt.k = "set"
    <3>1. m = dropped /\ b = Newest(m) /\ ~moves
      BY <2>3
    <3> HIDE DEF m, b, moves
    <3>2. Len(m.h) = Len(heap) + 1 /\ b = Len(heap) + 1
      BY <1>5, <1>6, <2>3, <3>1 DEF Newest
    <3> QED
      BY <1>2, <1>5, <1>6, <2>3, <3>1, <3>2
  <2> QED
    BY <1>1, <2>1, <2>2, <2>3
<1>8. moves \in BOOLEAN /\ (moves => b = slot[w])
  OBVIOUS
<1> HIDE DEF m, b
<1>9. /\ flag' \in [Vars -> BOOLEAN] /\ flag'[v] = FALSE
      /\ \A u \in Vars : u # v => flag'[u] = flag[u] \/ slot[u] = b
  <2> HIDE DEF moves
  <2> QED
    BY <1>1, <1>2, <1>3, <1>8 DEF Rebound
<1>10. \A c \in 1 .. Len(m.h) : m.h[c] = "live" /\ c # b =>
          c \in 1 .. Len(heap) /\ heap[c] = "live" /\ (~flag[v] => c # slot[v])
  <2> HIDE DEF moves
  <2>1. \A c \in 1 .. Len(m.h) : c # b => c \in 1 .. Len(heap)
    BY <1>2, <1>7
  <2> QED
    BY <1>7, <2>1
<1>11. Owned'
  <2> HIDE DEF moves
  <2> QED
    BY <1>1, <1>3, <1>7, <1>9, <1>10, Reassigned
<1> QED
  BY <1>4, <1>11

\* x = f(@move x): the callee drops the old value and the local holds the result.
LEMMA RunRefillOwned ==
    ASSUME Running, RunRefill
    PROVE  Landed /\ Owned'
<1> DEFINE v == RStmt.v
           n == Free(Read(Now, v), slot[v])
           m == Alloc(n)
           b == Newest(m)
<1>1. /\ RStmt.k = "refill" /\ Keep(m) /\ pos' = pos + 1 /\ flag' = [flag EXCEPT ![v] = FALSE]
      /\ slot' = [slot EXCEPT ![v] = b] /\ depth' = depth
  BY DEF RunRefill, Step, Goto
<1>2. /\ RStmt \in Statement /\ Now \in Memory /\ Now.h = heap /\ Len(heap) \in Nat
      /\ flag \in [Vars -> BOOLEAN] /\ slot \in [Vars -> Nat]
      /\ \A u \in Needs(RStmt) : u \in Vars => depth[u] # 0
  BY RunFacts
<1>3. v \in Vars /\ depth[v] # 0
  <2>1. RStmt.k \in (Unary \cup Binary) \ Decls
    BY <1>1 DEF Decls, Unary, Binary
  <2> QED
    BY <1>2, <2>1, Operands
<1>4. Landed
  <2>1. RStmt.k \notin Opens \cup Decls \cup {"end", "else"}
    BY <1>1 DEF Opens, Loops, Decls
  <2> QED
    BY <1>1, <2>1, PlainLanded
<1>5. Read(Now, v) \in Memory /\ Read(Now, v).h = heap
  BY <1>2, ReadFacts
<1>6. /\ n \in Memory /\ Len(n.h) = Len(heap)
      /\ \A c \in 1 .. Len(heap) : n.h[c] = "live" => c # slot[v] /\ heap[c] = "live"
  BY <1>5, FreeFacts
<1> HIDE DEF n
<1>7. /\ m \in Memory /\ b = Len(heap) + 1 /\ Len(m.h) = Len(heap) + 1
      /\ \A c \in 1 .. Len(heap) : m.h[c] = n.h[c]
  BY <1>6, AllocFacts
<1> HIDE DEF m, b
<1>8. b \in Nat /\ \A c \in 1 .. Len(m.h) : m.h[c] = "live" /\ c # b =>
          c \in 1 .. Len(heap) /\ heap[c] = "live" /\ (~flag[v] => c # slot[v])
  <2>1. b \in Nat /\ \A c \in 1 .. Len(m.h) : c # b => c \in 1 .. Len(heap)
    BY <1>2, <1>7
  <2> QED
    BY <1>6, <1>7, <2>1
<1>9. /\ flag' \in [Vars -> BOOLEAN] /\ flag'[v] = FALSE
      /\ \A u \in Vars : u # v => flag'[u] = flag[u] \/ slot[u] = b
  BY <1>1, <1>2, <1>3
<1>10. Owned'
  <2>1. m \in Memory /\ Keep(m) /\ slot' = [slot EXCEPT ![v] = b] /\ depth' = depth
    BY <1>1, <1>7
  <2> HIDE DEF v
  <2> QED
    BY <1>3, <1>8, <1>9, <2>1, Reassigned
<1> QED
  BY <1>4, <1>10

\* Blocks are only freed, and whoever loses a block lost it to the free.
LEMMA Thinned ==
    ASSUME Owned, NEW m \in Memory, Keep(m), slot' = slot, depth' \in [Vars -> Nat], flag' \in [Vars -> BOOLEAN],
           \A c \in 1 .. Len(m.h) : m.h[c] = "live" =>
               /\ c \in 1 .. Len(heap) /\ heap[c] = "live"
               /\ \A u \in Vars : depth[u] # 0 /\ ~flag[u] /\ slot[u] = c => depth'[u] # 0 /\ ~flag'[u]
    PROVE  Owned'
<1>1. /\ slot \in [Vars -> Nat]
      /\ \A c \in 1 .. Len(heap) : heap[c] = "live" => HeldBy(depth, flag, slot, c)
  BY DEF Owned, HeldBy
<1>2. ASSUME NEW c \in 1 .. Len(m.h), m.h[c] = "live" PROVE HeldBy(depth', flag', slot', c)
  <2>1. HeldBy(depth, flag, slot, c)
    BY <1>1, <1>2
  <2> QED
    BY <1>2, <2>1 DEF HeldBy
<1> QED
  BY <1>1, <1>2, OwnedNext

\* A by-value argument is dropped by the callee: the local's block when it is
\* given away, its clone otherwise.
LEMMA CallOwned ==
    ASSUME Running, NEW v \in Vars, NEW gives \in BOOLEAN, CallByValue(v, gives), slot' = slot, depth' = depth
    PROVE  Owned'
<1>1. /\ Now \in Memory /\ Now.h = heap /\ Len(heap) \in Nat /\ depth \in [Vars -> Nat]
      /\ flag \in [Vars -> BOOLEAN] /\ slot \in [Vars -> Nat]
  BY RunFacts
<1>2. Read(Now, v) \in Memory /\ Read(Now, v).h = heap
  BY <1>1, ReadFacts
<1>3. CASE gives
  <2> DEFINE m == Free(Read(Now, v), slot[v])
  <2>1. Keep(m) /\ flag' = [flag EXCEPT ![v] = TRUE]
    BY <1>3 DEF CallByValue
  <2>2. /\ m \in Memory /\ Len(m.h) = Len(heap)
        /\ \A c \in 1 .. Len(heap) : m.h[c] = "live" => c # slot[v] /\ heap[c] = "live"
    BY <1>2, FreeFacts
  <2> HIDE DEF m
  <2>3. flag' \in [Vars -> BOOLEAN] /\ \A u \in Vars : u # v => flag'[u] = flag[u]
    BY <1>1, <2>1
  <2>4. \A c \in 1 .. Len(m.h) : m.h[c] = "live" =>
               /\ c \in 1 .. Len(heap) /\ heap[c] = "live"
               /\ \A u \in Vars : depth[u] # 0 /\ ~flag[u] /\ slot[u] = c => depth'[u] # 0 /\ ~flag'[u]
    BY <2>2, <2>3
  <2> QED
    BY <1>1, <2>1, <2>2, <2>3, <2>4, Thinned DEF Running
<1>4. CASE ~gives
  <2> DEFINE n == Alloc(Read(Now, v))
             m == Free(n, Newest(n))
  <2>1. Keep(m) /\ flag' = flag
    BY <1>4 DEF CallByValue
  <2>2. /\ n \in Memory /\ Len(n.h) = Len(heap) + 1 /\ Newest(n) = Len(heap) + 1
        /\ \A c \in 1 .. Len(heap) : n.h[c] = heap[c]
    BY <1>2, AllocFacts
  <2> HIDE DEF n
  <2>3. /\ m \in Memory /\ Len(m.h) = Len(heap) + 1
        /\ \A c \in 1 .. Len(heap) + 1 : m.h[c] = "live" => c # Len(heap) + 1 /\ n.h[c] = "live"
    BY <2>2, FreeFacts
  <2> HIDE DEF m
  <2>4. \A c \in 1 .. Len(heap) + 1 : c # Len(heap) + 1 => c \in 1 .. Len(heap)
    BY <1>1
  <2>5. \A c \in 1 .. Len(m.h) : m.h[c] = "live" =>
               /\ c \in 1 .. Len(heap) /\ heap[c] = "live"
               /\ \A u \in Vars : depth[u] # 0 /\ ~flag[u] /\ slot[u] = c => depth'[u] # 0 /\ ~flag'[u]
    BY <2>1, <2>2, <2>3, <2>4
  <2> QED
    BY <1>1, <2>1, <2>3, <2>5, Thinned DEF Running
<1> QED
  BY <1>3, <1>4

\* A read of a local.
LEMMA RunUseOwned ==
    ASSUME Running, RunUse
    PROVE  Landed /\ Owned'
<1> DEFINE m == Read(Now, RStmt.v)
<1>1. RStmt.k \in {"use", "usebin"} /\ Keep(m) /\ pos' = pos + 1 /\ slot' = slot /\ flag' = flag /\ depth' = depth
  BY DEF RunUse, Step, Goto
<1>2. Landed
  <2>1. RStmt.k \notin Opens \cup Decls \cup {"end", "else"}
    BY <1>1 DEF Opens, Loops, Decls
  <2> QED
    BY <1>1, <2>1, PlainLanded
<1>3. /\ Now \in Memory /\ Now.h = heap /\ depth \in [Vars -> Nat] /\ flag \in [Vars -> BOOLEAN]
  BY RunFacts
<1>4. m \in Memory /\ m.h = heap
  BY <1>3, ReadFacts
<1> HIDE DEF m
<1>5. \A c \in 1 .. Len(m.h) : m.h[c] = "live" =>
          /\ c \in 1 .. Len(heap) /\ heap[c] = "live"
          /\ \A u \in Vars : depth[u] # 0 /\ ~flag[u] /\ slot[u] = c => depth'[u] # 0 /\ ~flag'[u]
  BY <1>1, <1>4
<1>6. Owned'
  BY <1>1, <1>3, <1>4, <1>5, Thinned DEF Running
<1> QED
  BY <1>2, <1>6

\* A call statement with a by-value argument.
LEMMA RunCallOwned ==
    ASSUME Running, RunCall
    PROVE  Landed /\ Owned'
<1> DEFINE gives == RStmt.k \in MoveForm \/ pos \in moved_out
<1>1. /\ RStmt.k \in {"arg", "move", "movebin"} /\ CallByValue(RStmt.v, gives)
      /\ pos' = pos + 1 /\ slot' = slot /\ depth' = depth
  BY DEF RunCall, Step, Goto
<1>2. Landed
  <2>1. RStmt.k \notin Opens \cup Decls \cup {"end", "else"}
    BY <1>1 DEF Opens, Loops, Decls
  <2> QED
    BY <1>1, <2>1, PlainLanded
<1>3. RStmt.v \in Vars
  <2>1. RStmt \in Statement
    BY RunFacts
  <2>2. RStmt.k \in Unary
    BY <1>1 DEF Unary
  <2> QED
    BY <2>1, <2>2, Operands
<1>4. gives \in BOOLEAN
  OBVIOUS
<1> HIDE DEF gives
<1>5. Owned'
  BY <1>1, <1>3, <1>4, CallOwned
<1> QED
  BY <1>2, <1>5

\* A discarded @move: the value is dropped and the local keeps a dead block.
LEMMA RunStmtMoveOwned ==
    ASSUME Running, RunStmtMove
    PROVE  Landed /\ Owned'
<1> DEFINE m == Free(Read(Now, RStmt.v), slot[RStmt.v])
<1>1. RStmt.k = "stmtmove" /\ Keep(m) /\ pos' = pos + 1 /\ slot' = slot /\ flag' = flag /\ depth' = depth
  BY DEF RunStmtMove, Step, Goto
<1>2. Landed
  <2>1. RStmt.k \notin Opens \cup Decls \cup {"end", "else"}
    BY <1>1 DEF Opens, Loops, Decls
  <2> QED
    BY <1>1, <2>1, PlainLanded
<1>3. /\ Now \in Memory /\ Now.h = heap /\ depth \in [Vars -> Nat] /\ flag \in [Vars -> BOOLEAN]
  BY RunFacts
<1>4. Read(Now, RStmt.v) \in Memory /\ Read(Now, RStmt.v).h = heap
  BY <1>3, ReadFacts
<1>5. m \in Memory /\ Len(m.h) = Len(heap) /\ \A c \in 1 .. Len(heap) : m.h[c] = "live" => heap[c] = "live"
  BY <1>4, FreeFacts
<1> HIDE DEF m
<1>6. \A c \in 1 .. Len(m.h) : m.h[c] = "live" =>
          /\ c \in 1 .. Len(heap) /\ heap[c] = "live"
          /\ \A u \in Vars : depth[u] # 0 /\ ~flag[u] /\ slot[u] = c => depth'[u] # 0 /\ ~flag'[u]
  BY <1>1, <1>5
<1>7. Owned'
  BY <1>1, <1>3, <1>5, <1>6, Thinned DEF Running
<1> QED
  BY <1>2, <1>7

\* The heap and the locals as they are.
LEMMA OwnedSame ==
    ASSUME Owned, UNCHANGED <<heap, fault, slot, flag, depth>>
    PROVE  Owned'
  BY DEF Owned, Now

\* An if enters a branch or leaves past it.
LEMMA RunIfOwned ==
    ASSUME Running, RunIf
    PROVE  Landed /\ Owned'
<1>1. /\ prog[pos].k = "if" /\ UNCHANGED <<slot, flag, depth, heap, fault>>
      /\ \/ pos' = pos + 1
         \/ ElseOf(pos) = {} /\ pos' = mate[pos] + 1
         \/ ElseOf(pos) # {} /\ pos' = (CHOOSE j \in ElseOf(pos) : TRUE) + 1
  BY DEF RunIf, RStmt, Goto, codeVars
<1>2. /\ Len(prog) \in Nat /\ Closing(prog, mate) /\ AllClosed /\ pos \in Nat /\ pos \in Positions(prog)
      /\ pos + 1 \in 1 .. Len(prog) + 1 /\ ScopeAt(prog, mate, depth, pos)
  BY RunFacts
<1>3. prog[pos].k \in Opens /\ pos \in DOMAIN mate /\ mate[pos] \in Positions(prog) /\ mate[pos] \in Nat
  BY <1>1, <1>2, Numbers DEF Opens, AllClosed
<1>4. Owned'
  BY <1>1, OwnedSame DEF Running
<1>5. CASE pos' = pos + 1
  BY <1>1, <1>2, <1>3, <1>4, <1>5, ScopeOpen DEF Landed
<1>6. CASE pos' = mate[pos] + 1
  <2>1. mate[pos] + 1 \in 1 .. Len(prog) + 1
    BY <1>2, <1>3 DEF Positions
  <2>2. ScopeAt(prog, mate, depth, mate[pos] + 1)
    BY <1>2, <1>3, ScopeSkip
  <2> QED
    BY <1>1, <1>4, <1>6, <2>1, <2>2 DEF Landed
<1>7. CASE ElseOf(pos) # {} /\ pos' = (CHOOSE j \in ElseOf(pos) : TRUE) + 1
  <2>1. PICK e \in ElseOf(pos) : pos' = e + 1
    BY <1>7
  <2>2. e \in pos .. mate[pos] /\ prog[e].k = "else" /\ Nest(e) = Nest(pos) + 1
    BY <2>1 DEF ElseOf
  <2>3. e \in Nat /\ pos < e /\ e <= mate[pos] /\ e \in Positions(prog) /\ e + 1 \in 1 .. Len(prog) + 1
    <3>1. e # pos
      BY <1>1, <2>2
    <3> QED
      BY <1>2, <1>3, <2>2, <3>1 DEF Positions
  <2>4. pos \in Around(prog, mate, e)
    BY <1>2, <1>3, <2>3 DEF Around
  <2>5. Around(prog, mate, pos) \cup {pos} \subseteq Around(prog, mate, e)
    BY <1>2, <2>3, <2>4, AroundNested
  <2>6. Around(prog, mate, e) = Around(prog, mate, pos) \cup {pos}
    BY <1>2, <2>2, <2>5, NestInner
  <2>7. ScopeAt(prog, mate, depth, e + 1)
    BY <1>2, <1>3, <2>2, <2>3, <2>6, ScopeElse
  <2> QED
    BY <1>1, <1>4, <2>1, <2>3, <2>7 DEF Landed
<1> QED
  BY <1>1, <1>5, <1>6, <1>7

\* A loop header enters the body or leaves the loop.
LEMMA RunLoopOwned ==
    ASSUME Running, RunLoop
    PROVE  Landed /\ Owned'
<1>1. /\ RStmt.k \in Loops /\ slot' = slot /\ depth' = depth
      /\ pos' = pos + 1 \/ pos' = mate[pos] + 1
      /\ RStmt.k = "while" => UNCHANGED <<heap, fault, flag>>
      /\ RStmt.k = "whileuse" => Keep(Read(Now, RStmt.v)) /\ flag' = flag
      /\ RStmt.k = "whilemove" => CallByValue(RStmt.v, TRUE)
  BY DEF RunLoop, Goto, Loops
<1>2. /\ Len(prog) \in Nat /\ Closing(prog, mate) /\ AllClosed /\ pos \in Nat /\ pos \in Positions(prog)
      /\ pos + 1 \in 1 .. Len(prog) + 1 /\ ScopeAt(prog, mate, depth, pos) /\ RStmt = prog[pos]
      /\ Now \in Memory /\ Now.h = heap /\ depth \in [Vars -> Nat] /\ flag \in [Vars -> BOOLEAN]
      /\ RStmt \in Statement
  BY RunFacts
<1>3. prog[pos].k \in Opens /\ pos \in DOMAIN mate /\ mate[pos] \in Positions(prog) /\ mate[pos] \in Nat
  BY <1>1, <1>2, Numbers DEF Opens, AllClosed
<1>4. Landed
  <2>1. mate[pos] + 1 \in 1 .. Len(prog) + 1
    BY <1>2, <1>3 DEF Positions
  <2>2. ScopeAt(prog, mate, depth, mate[pos] + 1)
    BY <1>2, <1>3, ScopeSkip
  <2>3. ScopeAt(prog, mate, depth, pos + 1)
    BY <1>2, <1>3, ScopeOpen
  <2> QED
    BY <1>1, <1>2, <2>1, <2>2, <2>3 DEF Landed
<1>5. CASE RStmt.k = "while"
  <2>1. Owned'
    BY <1>1, <1>5, OwnedSame DEF Running
  <2> QED
    BY <1>4, <2>1
<1>6. CASE RStmt.k = "whileuse"
  <2> DEFINE m == Read(Now, RStmt.v)
  <2>1. m \in Memory /\ m.h = heap /\ Keep(m) /\ flag' = flag
    BY <1>1, <1>2, <1>6, ReadFacts
  <2> HIDE DEF m
  <2>2. \A c \in 1 .. Len(m.h) : m.h[c] = "live" =>
            /\ c \in 1 .. Len(heap) /\ heap[c] = "live"
            /\ \A u \in Vars : depth[u] # 0 /\ ~flag[u] /\ slot[u] = c => depth'[u] # 0 /\ ~flag'[u]
    BY <1>1, <2>1
  <2>3. Owned'
    BY <1>1, <1>2, <2>1, <2>2, Thinned DEF Running
  <2> QED
    BY <1>4, <2>3
<1>7. CASE RStmt.k = "whilemove"
  <2>1. RStmt.v \in Vars
    BY <1>2, <1>7, Operands DEF Unary
  <2>2. Owned'
    BY <1>1, <1>7, <2>1, CallOwned
  <2> QED
    BY <1>4, <2>2
<1> QED
  BY <1>1, <1>5, <1>6, <1>7 DEF Loops

\* The drops at the end of a scope.
LEMMA CleanupOwned ==
    ASSUME Owned, NEW S \in SUBSET Vars, Keep(Cleanup(Now, S)), slot' = slot, flag' = flag,
           depth' = [v \in Vars |-> IF v \in S THEN 0 ELSE depth[v]]
    PROVE  Owned'
<1> DEFINE m == Cleanup(Now, S)
<1>1. /\ Now \in Memory /\ Now.h = heap
      /\ flag \in [Vars -> BOOLEAN] /\ depth \in [Vars -> Nat] /\ slot \in [Vars -> Nat]
  BY DEF Owned, Now
<1>2. /\ m \in Memory /\ Len(m.h) = Len(heap)
      /\ \A c \in 1 .. Len(heap) : m.h[c] = "live" => heap[c] = "live" /\ \A v \in S : ~flag[v] => slot[v] # c
  BY <1>1, CleanupFacts
<1>3. Keep(m)
  OBVIOUS
<1> HIDE DEF m
<1>4. depth' \in [Vars -> Nat] /\ \A u \in Vars : u \notin S => depth'[u] = depth[u]
  BY <1>1
<1>5. \A c \in 1 .. Len(m.h) : m.h[c] = "live" =>
          /\ c \in 1 .. Len(heap) /\ heap[c] = "live"
          /\ \A u \in Vars : depth[u] # 0 /\ ~flag[u] /\ slot[u] = c => depth'[u] # 0 /\ ~flag'[u]
  BY <1>2, <1>4
<1> QED
  BY <1>1, <1>2, <1>3, <1>4, <1>5, Thinned

\* Leaving the block or the loop at i, to its head or behind it.
LEMMA LeaveBlock ==
    ASSUME Running, NEW i \in Around(prog, mate, pos), Keep(Cleanup(Now, InScope(Nest(i) + 1))),
           Leave(InScope(Nest(i) + 1)), slot' = slot, flag' = flag, pos' = i \/ pos' = mate[i] + 1
    PROVE  Landed /\ Owned'
<1>1. /\ Len(prog) \in Nat /\ Closing(prog, mate) /\ AllClosed /\ pos \in Nat
      /\ ScopeAt(prog, mate, depth, pos) /\ depth \in [Vars -> Nat]
  BY RunFacts
<1>2. /\ i \in DOMAIN mate /\ i \in Nat /\ i \in Positions(prog) /\ mate[i] \in Positions(prog) /\ mate[i] \in Nat
  BY <1>1, Numbers DEF AllClosed, Around
<1>3. depth' = [v \in Vars |-> IF v \in InScope(Nest(i) + 1) THEN 0 ELSE depth[v]]
  BY DEF Leave
<1>4. ScopeAt(prog, mate, depth', i)
  BY <1>1, <1>3, ScopeLeave
<1>5. ScopeAt(prog, mate, depth', mate[i] + 1)
  BY <1>1, <1>2, <1>4, ScopeSkip
<1>6. i \in 1 .. Len(prog) + 1 /\ mate[i] + 1 \in 1 .. Len(prog) + 1
  BY <1>1, <1>2 DEF Positions
<1>7. Owned'
  <2>1. InScope(Nest(i) + 1) \in SUBSET Vars
    BY DEF InScope
  <2> QED
    BY <1>3, <2>1, CleanupOwned DEF Running
<1> QED
  BY <1>4, <1>5, <1>6, <1>7 DEF Landed

\* The end of a block drops what was declared in it.
LEMMA RunEndOwned ==
    ASSUME Running, RunEnd
    PROVE  Landed /\ Owned'
<1> DEFINE j == CHOOSE o \in DOMAIN mate : o < pos /\ pos <= mate[o] /\ Nest(o) = Nest(pos) - 1
<1>1. /\ RStmt.k \in {"end", "else"} /\ Keep(Cleanup(Now, InScope(Nest(pos)))) /\ Leave(InScope(Nest(pos)))
      /\ pos' = j \/ pos' = mate[j] + 1
      /\ slot' = slot /\ flag' = flag
  BY DEF RunEnd, Goto
<1>2. /\ Len(prog) \in Nat /\ Closing(prog, mate) /\ AllClosed /\ Elses(prog, mate) /\ pos \in Positions(prog)
      /\ RStmt = prog[pos]
  BY RunFacts
<1>3. PICK i \in DOMAIN mate : /\ Around(prog, mate, pos) = Around(prog, mate, i) \cup {i}
                               /\ Nest(pos) = Nest(i) + 1 /\ i = j
  BY <1>1, <1>2, ClosedBlock
<1> HIDE DEF j
<1>4. i \in Around(prog, mate, pos) /\ InScope(Nest(pos)) = InScope(Nest(i) + 1)
  BY <1>3
<1> QED
  BY <1>1, <1>3, <1>4, LeaveBlock

\* break and continue drop what was declared inside the loop.
LEMMA RunExitOwned ==
    ASSUME Running, RunExit
    PROVE  Landed /\ Owned'
<1> DEFINE i == LoopOf(pos)
<1>1. /\ RStmt.k \in Exits /\ Keep(Cleanup(Now, InScope(Nest(i) + 1))) /\ Leave(InScope(Nest(i) + 1))
      /\ pos' = i \/ pos' = mate[i] + 1
      /\ slot' = slot /\ flag' = flag
  BY DEF RunExit, Goto
<1>2. /\ Len(prog) \in Nat /\ Closing(prog, mate) /\ AllClosed /\ Scoped(prog, mate) /\ pos \in Positions(prog)
      /\ pos \in Nat /\ RStmt = prog[pos]
  BY RunFacts
<1>3. LoopsAround(pos) # {}
  <2>1. PICK o \in Around(prog, mate, pos) : prog[o].k \in Loops
    BY <1>1, <1>2 DEF Scoped
  <2>2. o \in DOMAIN mate /\ o < pos /\ pos <= mate[o] /\ mate[o] \in Nat
    BY <1>2, Numbers DEF Around, AllClosed
  <2>3. pos # mate[o]
    BY <1>1, <1>2, <2>2 DEF Closing, Exits
  <2>4. pos < mate[o]
    BY <1>2, <2>2, <2>3
  <2> QED
    BY <2>1, <2>2, <2>4 DEF LoopsAround
<1>4. LoopsAround(pos) \subseteq 1 .. Len(prog)
  BY <1>2 DEF LoopsAround, AllClosed, Positions
<1>5. \E o \in LoopsAround(pos) : \A h \in LoopsAround(pos) : h <= o
  BY <1>2, <1>3, <1>4, LastOf
<1>6. i \in LoopsAround(pos)
  BY <1>5 DEF LoopOf
<1> HIDE DEF i
<1>7. i \in Around(prog, mate, pos)
  <2>1. i \in DOMAIN mate /\ i < pos /\ pos < mate[i] /\ mate[i] \in Nat /\ i \in Positions(prog) /\ prog[i].k \in Opens
    BY <1>2, <1>6, Numbers DEF LoopsAround, AllClosed
  <2>2. pos <= mate[i]
    BY <1>2, <2>1
  <2> QED
    BY <2>1, <2>2 DEF Around
<1> QED
  BY <1>1, <1>7, LeaveBlock

\* The function is left: nothing is in scope and nothing is live.
LEMMA RunReturnOwned ==
    ASSUME Running, RunReturn
    PROVE  pos' = Len(prog) + 2 /\ (\A v \in Vars : depth'[v] = 0) /\ Owned'
<1> DEFINE v == RStmt.v
           all == InScope(0)
           S == IF RStmt.k = "retv" THEN all \ {v} ELSE all
           n == Cleanup(Read(Now, v), S)
           m == IF RStmt.k = "ret" THEN Cleanup(Now, all) ELSE Free(n, slot[v])
<1>1. Keep(m) /\ Leave(all) /\ pos' = Len(prog) + 2 /\ slot' = slot /\ flag' = flag
  BY DEF RunReturn, Goto
<1>2. /\ Now \in Memory /\ Now.h = heap /\ Len(heap) \in Nat
      /\ flag \in [Vars -> BOOLEAN] /\ depth \in [Vars -> Nat] /\ slot \in [Vars -> Nat]
  BY RunFacts
<1>3. \A u \in Vars : u \in all <=> depth[u] # 0
  BY <1>2 DEF InScope
<1>4. depth' \in [Vars -> Nat] /\ \A u \in Vars : depth'[u] = 0
  BY <1>1, <1>2, <1>3 DEF Leave
<1>5. /\ m \in Memory /\ Len(m.h) = Len(heap)
      /\ \A c \in 1 .. Len(heap) : m.h[c] = "live" => heap[c] = "live" /\ \A u \in all : ~flag[u] => slot[u] # c
  <2> HIDE DEF all
  <2>1. CASE RStmt.k = "ret"
    BY <1>2, <2>1, CleanupFacts
  <2>2. CASE RStmt.k # "ret"
    <3>1. Read(Now, v) \in Memory /\ Read(Now, v).h = heap
      BY <1>2, ReadFacts
    <3> HIDE DEF S
    <3>2. /\ n \in Memory /\ Len(n.h) = Len(heap)
          /\ \A c \in 1 .. Len(heap) : n.h[c] = "live" => heap[c] = "live" /\ \A u \in S : ~flag[u] => slot[u] # c
      BY <3>1, CleanupFacts
    <3> HIDE DEF n
    <3>3. /\ m \in Memory /\ Len(m.h) = Len(heap)
          /\ \A c \in 1 .. Len(heap) : m.h[c] = "live" => c # slot[v] /\ n.h[c] = "live"
      BY <2>2, <3>2, FreeFacts
    <3>4. \A u \in all : u \in S \/ u = v
      BY DEF S
    <3> QED
      BY <3>2, <3>3, <3>4
  <2> QED
    BY <2>1, <2>2
<1> HIDE DEF m
<1>6. \A c \in 1 .. Len(m.h) : m.h[c] = "live" =>
          /\ c \in 1 .. Len(heap) /\ heap[c] = "live"
          /\ \A u \in Vars : depth[u] # 0 /\ ~flag[u] /\ slot[u] = c => depth'[u] # 0 /\ ~flag'[u]
  BY <1>3, <1>5
<1>7. Owned'
  BY <1>1, <1>2, <1>4, <1>5, <1>6, Thinned DEF Running
<1> QED
  BY <1>1, <1>4, <1>7

\* The end of the function drops every local.
LEMMA FallOffOwned ==
    ASSUME Owned, RunFallOff
    PROVE  pos' = Len(prog) + 2 /\ (\A v \in Vars : depth'[v] = 0) /\ Owned'
<1>1. /\ Keep(Cleanup(Now, InScope(0))) /\ Leave(InScope(0)) /\ pos' = Len(prog) + 2
      /\ slot' = slot /\ flag' = flag
  BY DEF RunFallOff, Goto
<1>2. InScope(0) \in SUBSET Vars /\ depth \in [Vars -> Nat]
  BY DEF InScope, Owned
<1>3. depth' = [v \in Vars |-> IF v \in InScope(0) THEN 0 ELSE depth[v]]
  BY <1>1 DEF Leave
<1>4. \A v \in Vars : depth'[v] = 0
  BY <1>2, <1>3 DEF InScope
<1>5. Owned'
  BY <1>1, <1>2, <1>3, CleanupOwned
<1> QED
  BY <1>1, <1>4, <1>5

-----------------------------------------------------------------------------
(* The invariant of the pipeline. *)

\* Nothing was written, nothing was allocated.
LEMMA InitScope == Init => IInv
<1> SUFFICES ASSUME Init PROVE IInv
  OBVIOUS
<1>1. /\ phase = "check" /\ prog = <<>> /\ mate = <<>> /\ pos = 1 /\ st = [v \in Vars |-> "undef"] /\ frames = <<>>
      /\ slot = [v \in Vars |-> 0] /\ flag = [v \in Vars |-> FALSE] /\ depth = [v \in Vars |-> 0]
      /\ heap = <<>> /\ fault = {}
  BY DEF Init, CheckInit, CodeInit
<1>2. Positions(prog) = {} /\ DOMAIN mate = {} /\ Depths = {} /\ Around(prog, mate, pos) = {}
  BY <1>1 DEF Positions, Depths, Around
<1>3. Shape
  <2>1. prog \in Seq(Statement) /\ mate \in [DOMAIN mate -> Nat]
    BY <1>1
  <2>2. Closing(prog, mate) /\ Elses(prog, mate) /\ Scoped(prog, mate)
    BY <1>2 DEF Closing, Elses, Scoped
  <2> QED
    BY <2>1, <2>2 DEF Shape
<1>4. Walk
  <2>1. pos \in 1 .. Len(prog) + 1 /\ st \in States
    BY <1>1 DEF States, Status
  <2>2. Stack
    BY <1>1, <1>2 DEF Stack
  <2>3. Defined
    BY <1>1, <1>2 DEF Defined, InSight
  <2> QED
    BY <2>1, <2>2, <2>3 DEF Walk, Walking
<1>5. Closed /\ InBlock
  BY <1>1 DEF Closed, InBlock
<1>6. Owned
  <2>1. Now \in Memory
    BY <1>1 DEF Now, Memory, Heaps
  <2> QED
    BY <1>1, <2>1 DEF Owned
<1> QED
  BY <1>3, <1>4, <1>5, <1>6 DEF IInv

\* Clone elision only goes back and tags.
LEMMA ElideStatic ==
    ASSUME ElideStmt
    PROVE  pos' = pos - 1 /\ UNCHANGED <<gram, prog, mate, st, frames>>
<1>1. CASE ElideConsume
  BY <1>1 DEF ElideConsume, Back
<1>2. CASE ElideRead
  BY <1>2 DEF ElideRead, Back
<1>3. CASE ElideReturn
  BY <1>3 DEF ElideReturn, Back
<1>4. CASE ElideEnd
  BY <1>4 DEF ElideEnd, Back
<1>5. CASE ElideElse
  BY <1>5 DEF ElideElse, Back
<1>6. CASE ElideIf
  BY <1>6 DEF ElideIf, Back
<1>7. CASE ElideLoop
  BY <1>7 DEF ElideLoop, Back
<1> QED
  BY <1>1, <1>2, <1>3, <1>4, <1>5, <1>6, <1>7 DEF ElideStmt

\* The run does not touch the program.
LEMMA RunStatic ==
    ASSUME RunStmt
    PROVE  UNCHANGED <<checkVars, elideVars>>
  BY DEF RunStmt, RunDecl, RunAssign, RunRefill, RunUse, RunCall, RunStmtMove, RunIf, RunLoop, RunEnd,
         RunExit, RunReturn, Static

\* Each run step lands in scope and keeps every live block owned.
LEMMA RunOwned ==
    ASSUME Running, RunStmt
    PROVE  /\ Owned'
           /\ Landed \/ (pos' = Len(prog) + 2 /\ \A v \in Vars : depth'[v] = 0)
  BY RunDeclOwned, RunAssignOwned, RunRefillOwned, RunUseOwned, RunCallOwned, RunStmtMoveOwned,
     RunIfOwned, RunLoopOwned, RunEndOwned, RunExitOwned, RunReturnOwned DEF RunStmt

\* The program is not changed.
LEMMA ShapeSame ==
    ASSUME Shape, UNCHANGED <<prog, mate>>
    PROVE  Shape'
  BY DEF Shape

\* The induction step: the checker writes the program, the elision pass only reads
\* it, the run walks it.
LEMMA NextScope == IInv /\ [Next]_vars => IInv'
<1> SUFFICES ASSUME IInv, [Next]_vars PROVE IInv'
  OBVIOUS
<1>0. Shape /\ Walk /\ Closed /\ InBlock /\ Owned
  BY DEF IInv
<1>l. prog \in Seq(Statement) /\ Len(prog) \in Nat
  BY <1>0 DEF Shape
<1>1. CASE Check
  <2>1. PICK s \in Stmt : Checks(s)
    BY <1>1 DEF Check, CheckStmt, Checks
  <2>2. phase = "check" /\ phase' = phase /\ UNCHANGED <<heap, fault, slot, flag, depth>>
    BY <1>1 DEF Check, codeVars
  <2>3. Shape' /\ Walking'
    BY <1>0, <2>1, <2>2, CheckWalk
  <2>4. Owned'
    BY <1>0, <2>2, OwnedSame
  <2>5. InBlock'
    BY <1>0, <2>2 DEF InBlock
  <2>6. Walk' /\ Closed'
    BY <2>2, <2>3 DEF Walk, Closed
  <2> QED
    BY <2>3, <2>4, <2>5, <2>6 DEF IInv
<1>2. CASE Accept
  <2>1. /\ phase = "check" /\ frames = <<>> /\ pos = Len(prog) + 1 /\ phase' = "elide" /\ pos' = Len(prog)
        /\ UNCHANGED <<prog, mate, heap, fault, slot, flag, depth>>
    BY <1>2 DEF Accept, checkVars, codeVars
  <2>2. Around(prog, mate, Len(prog) + 1) = {}
    <3>1. Stack
      BY <1>0, <2>1 DEF Walk, Walking
    <3>2. Depths = {}
      BY <2>1 DEF Depths
    <3>3. {frames[x].at : x \in Depths} = Around(prog, mate, pos)
      BY <3>1 DEF Stack
    <3> QED
      BY <2>1, <3>2, <3>3
  <2>3. AllClosed
    <3>1. ASSUME NEW i \in Positions(prog), prog[i].k \in Opens PROVE i \in DOMAIN mate
      <4>1. i < Len(prog) + 1
        BY <1>l DEF Positions
      <4> QED
        BY <2>2, <3>1, <4>1 DEF Around
    <3>2. DOMAIN mate \subseteq {i \in Positions(prog) : prog[i].k \in Opens}
      BY <1>0 DEF Shape, Closing
    <3> QED
      BY <3>1, <3>2 DEF AllClosed
  <2>4. Closed'
    BY <2>1, <2>3 DEF Closed, AllClosed
  <2>5. InBlock'
    BY <1>0, <1>l, <2>1 DEF InBlock
  <2>6. Shape' /\ Owned' /\ Walk'
    BY <1>0, <2>1, ShapeSame, OwnedSame DEF Walk
  <2> QED
    BY <2>4, <2>5, <2>6 DEF IInv
<1>3. CASE Elide
  <2>1. /\ phase = "elide" /\ phase' = "elide" /\ pos > 0 /\ pos' = pos - 1
        /\ UNCHANGED <<prog, mate, heap, fault, slot, flag, depth>>
    BY <1>3, ElideStatic DEF Elide, codeVars
  <2>2. InBlock'
    <3>1. pos' \in 0 .. Len(prog)
      BY <1>0, <1>l, <2>1 DEF InBlock
    <3> QED
      BY <1>0, <2>1, <3>1 DEF InBlock
  <2>3. Closed'
    BY <1>0, <2>1 DEF Closed, AllClosed
  <2>4. Shape' /\ Owned' /\ Walk'
    BY <1>0, <2>1, ShapeSame, OwnedSame DEF Walk
  <2> QED
    BY <2>2, <2>3, <2>4 DEF IInv
<1>4. CASE Emit
  <2>1. /\ phase = "elide" /\ phase' = "run" /\ pos' = 1
        /\ UNCHANGED <<prog, mate, heap, fault, slot, flag, depth>>
    BY <1>4 DEF Emit, checkVars, codeVars
  <2>2. ScopeAt(prog, mate, depth, 1)
    <3>1. \A v \in Vars : depth[v] = 0
      BY <1>0, <2>1 DEF InBlock
    <3>2. \A d \in Positions(prog) : ~Visible(prog, mate, d, 1)
      BY <1>l DEF Visible, Positions
    <3> QED
      BY <3>1, <3>2 DEF ScopeAt
  <2>3. InBlock'
    BY <1>l, <2>1, <2>2 DEF InBlock
  <2>4. Closed'
    BY <1>0, <2>1 DEF Closed, AllClosed
  <2>5. Shape' /\ Owned' /\ Walk'
    BY <1>0, <2>1, ShapeSame, OwnedSame DEF Walk
  <2> QED
    BY <2>3, <2>4, <2>5 DEF IInv
<1>5. CASE Run
  <2>1. /\ phase = "run" /\ phase' = "run" /\ pos <= Len(prog) /\ RunStmt /\ UNCHANGED <<prog, mate>>
    BY <1>5, RunStatic DEF Run, checkVars
  <2>2. Running
    <3>1. pos \in Positions(prog)
      BY <1>0, <1>l, <2>1 DEF InBlock, Positions
    <3>2. pos <= Len(prog) + 1
      BY <1>0, <1>l, <2>1 DEF InBlock
    <3>3. ScopeAt(prog, mate, depth, pos) /\ AllClosed
      BY <1>0, <2>1, <3>2 DEF InBlock, Closed
    <3> QED
      BY <1>0, <3>1, <3>3 DEF Running
  <2>3. /\ Owned'
        /\ Landed \/ (pos' = Len(prog) + 2 /\ \A v \in Vars : depth'[v] = 0)
    BY <2>1, <2>2, RunOwned
  <2>4. InBlock'
    <3>1. CASE Landed
      <4>1. pos' \in 1 .. Len(prog) + 1 /\ ScopeAt(prog, mate, depth', pos')
        BY <3>1 DEF Landed
      <4>2. pos' \in 1 .. Len(prog) + 2 /\ pos' # Len(prog) + 2
        BY <1>l, <4>1
      <4> QED
        BY <2>1, <4>1, <4>2 DEF InBlock
    <3>2. CASE pos' = Len(prog) + 2 /\ \A v \in Vars : depth'[v] = 0
      <4>1. pos' \in 1 .. Len(prog) + 2 /\ ~(pos' <= Len(prog) + 1)
        BY <1>l, <3>2
      <4> QED
        BY <2>1, <3>2, <4>1 DEF InBlock
    <3> QED
      BY <2>3, <3>1, <3>2
  <2>5. Closed'
    BY <1>0, <2>1 DEF Closed, AllClosed
  <2>6. Shape' /\ Walk'
    BY <1>0, <2>1, ShapeSame DEF Walk
  <2> QED
    BY <2>3, <2>4, <2>5, <2>6 DEF IInv
<1>6. CASE FallOff
  <2>1. /\ phase = "run" /\ phase' = "run" /\ RunFallOff /\ UNCHANGED <<prog, mate>>
    BY <1>6 DEF FallOff, RunFallOff, Static, checkVars
  <2>2. pos' = Len(prog) + 2 /\ (\A v \in Vars : depth'[v] = 0) /\ Owned'
    BY <1>0, <2>1, FallOffOwned
  <2>3. pos' \in 1 .. Len(prog) + 2 /\ ~(pos' <= Len(prog) + 1)
    BY <1>l, <2>2
  <2>4. InBlock'
    BY <2>1, <2>2, <2>3 DEF InBlock
  <2>5. Closed'
    BY <1>0, <2>1 DEF Closed, AllClosed
  <2>6. Shape' /\ Walk'
    BY <1>0, <2>1, ShapeSame DEF Walk
  <2> QED
    BY <2>2, <2>4, <2>5, <2>6 DEF IInv
<1>7. CASE Exit
  <2>1. /\ phase = "run" /\ phase' = "done" /\ pos = Len(prog) + 2
        /\ UNCHANGED <<pos, prog, mate, heap, fault, slot, flag, depth>>
    BY <1>7 DEF Exit, checkVars, codeVars
  <2>2. InBlock'
    BY <1>0, <2>1 DEF InBlock
  <2>3. Closed'
    BY <1>0, <2>1 DEF Closed, AllClosed
  <2>4. Shape' /\ Owned' /\ Walk'
    BY <1>0, <2>1, ShapeSame, OwnedSame DEF Walk
  <2> QED
    BY <2>2, <2>3, <2>4 DEF IInv
<1>8. CASE UNCHANGED vars
  <2>1. UNCHANGED <<phase, pos, prog, mate, st, frames, heap, fault, slot, flag, depth>>
    BY <1>8 DEF vars, checkVars, codeVars
  <2>2. Shape' /\ Owned'
    BY <1>0, <2>1, ShapeSame, OwnedSame
  <2>3. Walk' /\ Closed' /\ InBlock'
    BY <1>0, <2>1 DEF Walk, Walking, Stack, Defined, Depths, Closed, AllClosed, InBlock
  <2> QED
    BY <2>2, <2>3 DEF IInv
<1> QED
  BY <1>1, <1>2, <1>3, <1>4, <1>5, <1>6, <1>7, <1>8 DEF Next

\* The blocks the checker closes are the blocks the emitted code leaves, a local
\* is in scope exactly where its declaration is visible, and every live heap
\* block belongs to a local in scope whose drop is not suppressed.
THEOREM ScopeInvariant == Spec => []IInv
<1>1. Init => IInv
  BY InitScope
<1>2. IInv /\ [Next]_vars => IInv'
  BY NextScope
<1> QED
  BY <1>1, <1>2, PTL DEF Spec

\* When the function has returned, every value it allocated was dropped, on
\* every path of every program the checker accepts, the unsound forms included:
\* suppressing a drop through moved_flag never loses the value.
THEOREM OwnershipNoLeak == Spec => []NoLeak
<1>1. IInv => NoLeak
  <2> SUFFICES ASSUME IInv, phase = "done", NEW b \in 1 .. Len(heap) PROVE heap[b] = "freed"
    BY DEF NoLeak
  <2>1. \A v \in Vars : depth[v] = 0
    BY DEF IInv, InBlock
  <2>2. heap[b] \in {"live", "freed"}
    BY DEF IInv, Owned, Now, Memory, Heaps
  <2>3. heap[b] # "live"
    BY <2>1 DEF IInv, Owned
  <2> QED
    BY <2>2, <2>3
<1> QED
  BY <1>1, ScopeInvariant, PTL
=============================================================================
