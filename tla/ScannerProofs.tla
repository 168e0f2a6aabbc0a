---------------------------- MODULE ScannerProofs ----------------------------
(***************************************************************************)
(* Machine-checked proofs about scanner.c for every source text: each call *)
(* of scanner_next moves the cursor or reports the end, the cursor stays   *)
(* inside the source, and the stack of #if frames means what the code      *)
(* takes it to mean.  All loops of the scanner are instances of Iterate,   *)
(* so one rule for while loops (module Loops) carries the proofs.          *)
(***************************************************************************)
EXTENDS ScanText, FiniteSetTheorems, SequenceTheorems, WellFoundedInduction, TLAPS

-----------------------------------------------------------------------------
(* Symbols and positions. *)

Text == Seq(Symbols)

\* Behind the last symbol there is only the NUL.
LEMMA AtInside ==
    ASSUME NEW txt \in Text, NEW i \in Int, At(txt, i) # NUL
    PROVE  i \in 1 .. Len(txt) /\ i \in Positions(txt) /\ i + 1 \in Positions(txt)
<1>1. Len(txt) \in Nat
  BY DEF Text
<1>2. i \in 1 .. Len(txt)
  BY DEF At
<1> QED
  BY <1>1, <1>2 DEF Positions

\* Positions are an interval of the naturals.
LEMMA PositionRange ==
    ASSUME NEW txt \in Text
    PROVE  /\ Len(txt) \in Nat /\ Positions(txt) = 1 .. Len(txt) + 1
           /\ Positions(txt) \subseteq Nat
BY DEF Text, Positions

\* Line breaks are counted by a number.
LEMMA NewLinesNat ==
    ASSUME NEW txt, NEW i \in Int, NEW j \in Int
    PROVE  NewLines(txt, i, j) \in Nat
<1>1. IsFiniteSet(i .. (j - 1))
  BY FS_Interval
<1>2. IsFiniteSet({n \in i .. (j - 1) : At(txt, n) = NL})
  BY <1>1, FS_Subset
<1> QED
  BY <1>2, FS_CardinalityType DEF NewLines

\* A loop that moves a cursor to the right, as long as it is inside the
\* source, ends inside the source, not before where it began, and done.
LEMMA CursorLoop ==
    ASSUME NEW txt \in Text, NEW i \in Positions(txt), NEW done, NEW step,
           \A n \in Positions(txt) : ~done[n] => step[n] \in Positions(txt) /\ step[n] > n
    PROVE  LET e == Iterate(Positions(txt), done, step, i)
           IN  e \in Positions(txt) /\ e >= i /\ done[e]
<1> DEFINE S == Positions(txt)
           I == {n \in S : n >= i}
           m == [n \in S |-> Len(txt) + 1 - n]
<1>1. /\ S \subseteq Nat /\ Len(txt) \in Nat /\ S = 1 .. Len(txt) + 1
  BY PositionRange
<1>2. m \in [S -> Nat] /\ I \in SUBSET S /\ i \in I
  BY <1>1
<1>3. \A n \in I : ~done[n] => step[n] \in I /\ m[step[n]] < m[n]
  BY <1>1
<1>4. \A n \in S : ~done[n] => step[n] \in S
  OBVIOUS
<1> HIDE DEF I, m, S
<1>5. \A x \in I : LET e == Iterate(S, done, step, x) IN e \in I /\ done[e]
  BY <1>2, <1>3, <1>4, WhileRule
<1> QED
  BY <1>2, <1>5 DEF I, S

\* advance() before the end stays inside.
LEMMA Advances ==
    ASSUME NEW txt \in Text, NEW n \in Positions(txt), At(txt, n) # NUL
    PROVE  Advance(txt)[n] \in Positions(txt) /\ Advance(txt)[n] > n
<1>1. Advance(txt)[n] = n + 1
  BY DEF Advance
<1>2. n \in Int /\ n + 1 > n
  BY PositionRange
<1> QED
  BY <1>1, <1>2, AtInside

\* while (peek is in C) advance.
LEMMA SkipInStops ==
    ASSUME NEW txt \in Text, NEW i \in Positions(txt), NEW C, NUL \notin C
    PROVE  /\ SkipIn(txt, i, C) \in Positions(txt) /\ SkipIn(txt, i, C) >= i
           /\ At(txt, SkipIn(txt, i, C)) \notin C
<1> DEFINE done == [n \in Positions(txt) |-> At(txt, n) \notin C]
           step == Advance(txt)
<1>1. \A n \in Positions(txt) : done[n] <=> At(txt, n) \notin C
  OBVIOUS
<1>2. \A n \in Positions(txt) : ~done[n] => step[n] \in Positions(txt) /\ step[n] > n
  BY Advances
<1>3. SkipIn(txt, i, C) = Iterate(Positions(txt), done, step, i)
  BY DEF SkipIn
<1> HIDE DEF done, step
<1> QED
  BY <1>1, <1>2, <1>3, CursorLoop

\* while (!is_at_end && peek is not in C) advance.
LEMMA SkipToStops ==
    ASSUME NEW txt \in Text, NEW i \in Positions(txt), NEW C
    PROVE  /\ SkipTo(txt, i, C) \in Positions(txt) /\ SkipTo(txt, i, C) >= i
           /\ At(txt, SkipTo(txt, i, C)) \in C \cup {NUL}
<1> DEFINE done == [n \in Positions(txt) |-> At(txt, n) \in C \cup {NUL}]
           step == Advance(txt)
<1>1. \A n \in Positions(txt) : done[n] <=> At(txt, n) \in C \cup {NUL}
  OBVIOUS
<1>2. \A n \in Positions(txt) : ~done[n] => step[n] \in Positions(txt) /\ step[n] > n
  BY Advances
<1>3. SkipTo(txt, i, C) = Iterate(Positions(txt), done, step, i)
  BY DEF SkipTo
<1> HIDE DEF done, step
<1> QED
  BY <1>1, <1>2, <1>3, CursorLoop

-----------------------------------------------------------------------------
(* Comments and whitespace. *)

\* Fields of the states of the loops.
LEMMA CommentFields ==
    ASSUME NEW txt
    PROVE  \A y \in Comments(txt) : y.pos \in Positions(txt) /\ y.depth \in Nat
BY DEF Comments

\* A step through a block comment stays inside the source.
LEMMA CommentAdvances ==
    ASSUME NEW txt \in Text, NEW y \in Comments(txt), y.depth # 0, At(txt, y.pos) # NUL
    PROVE  CommentStep(txt, y) \in Comments(txt) /\ CommentStep(txt, y).pos > y.pos
<1>1. y.pos \in Positions(txt) /\ y.depth \in Nat /\ y.pos \in Nat
  BY CommentFields, PositionRange
<1>2. y.pos + 1 \in Positions(txt)
  BY <1>1, AtInside
<1>3. ASSUME At(txt, y.pos + 1) # NUL PROVE y.pos + 2 \in Positions(txt)
  <2>1. (y.pos + 1) + 1 \in Positions(txt)
    BY <1>1, <1>3, AtInside
  <2> QED
    BY <1>1, <2>1
<1>4. y.depth - 1 \in Nat /\ y.depth + 1 \in Nat
  BY <1>1
<1> QED
  BY <1>1, <1>2, <1>3, <1>4 DEF CommentStep, Comments, NUL

\* The scan of a block comment ends, at the end or with every comment closed.
LEMMA CommentEnds ==
    ASSUME NEW txt \in Text, NEW i \in Positions(txt)
    PROVE  CommentScan(txt, i) \in Comments(txt) /\ CommentScan(txt, i).pos >= i
<1> DEFINE S == Comments(txt)
           done == [y \in S |-> y.depth = 0 \/ is_at_end(txt, y.pos)]
           step == [y \in S |-> CommentStep(txt, y)]
           I == {y \in S : y.pos >= i}
           m == [y \in S |-> Len(txt) + 1 - y.pos]
           x == [pos |-> i, depth |-> 1]
<1>1. \A y \in S : y.pos \in Nat /\ y.pos <= Len(txt) + 1 /\ Len(txt) \in Nat
  BY CommentFields, PositionRange
<1>2. \A y \in S : ~done[y] => step[y] \in S /\ step[y].pos > y.pos
  BY CommentAdvances DEF is_at_end
<1>3. x \in S /\ x.pos = i /\ i \in Nat
  BY PositionRange DEF Comments
<1>4. m \in [S -> Nat] /\ I \in SUBSET S /\ x \in I
  BY <1>1, <1>3
<1>5. \A y \in I : ~done[y] => step[y] \in I /\ m[step[y]] < m[y]
  <2> TAKE y \in I
  <2> HAVE ~done[y]
  <2>1. step[y] \in S /\ step[y].pos > y.pos
    BY <1>2
  <2> QED
    BY <1>1, <1>3, <2>1
<1>6. CommentScan(txt, i) = Iterate(S, done, step, x)
  BY DEF CommentScan
<1> HIDE DEF S, done, step, I, m, x
<1>7. \A z \in I : LET e == Iterate(S, done, step, z) IN e \in I /\ done[e]
  BY <1>2, <1>4, <1>5, WhileRule
<1> QED
  BY <1>4, <1>6, <1>7 DEF I, S

\* A block comment ends behind its start or not at all.
LEMMA CommentBehind ==
    ASSUME NEW txt \in Text, NEW i \in Positions(txt)
    PROVE  \/ block_comment(txt, i) = 0
           \/ block_comment(txt, i) \in Positions(txt) /\ block_comment(txt, i) >= i
BY CommentEnds, CommentFields DEF block_comment

\* A step over a blank or a comment moves.
LEMMA SpaceAdvances ==
    ASSUME NEW txt \in Text, NEW i \in Positions(txt),
           At(txt, i) \in {SP, NL} \/ LineComment(txt, i) \/ BlockComment(txt, i)
    PROVE  SpaceStep(txt, i) \in Spaces(txt) /\ SpaceStep(txt, i).to > i
<1> USE DEF LineComment, BlockComment
<1>1. i \in Nat /\ i \in Int /\ Len(txt) \in Nat /\ At(txt, i) # NUL
  BY PositionRange DEF NUL, NL, SP
<1>2. i + 1 \in Positions(txt) /\ i + 1 > i /\ i <= Len(txt)
  BY <1>1, AtInside
<1>3. Len(txt) + 1 \in Positions(txt) /\ Len(txt) + 1 > i
  BY <1>1, <1>2, PositionRange
<1>4. CASE At(txt, i) \in {SP, NL}
  BY <1>2, <1>4 DEF SpaceStep, Spaces
<1>5. CASE LineComment(txt, i) /\ At(txt, i) \notin {SP, NL}
  <2>1. /\ SkipTo(txt, i, {NL}) \in Positions(txt) /\ SkipTo(txt, i, {NL}) >= i
        /\ At(txt, SkipTo(txt, i, {NL})) \in {NL} \cup {NUL}
    BY SkipToStops
  <2>2. SkipTo(txt, i, {NL}) # i
    BY <1>1, <1>5, <2>1
  <2>3. SkipTo(txt, i, {NL}) > i
    BY <1>1, <2>1, <2>2, PositionRange
  <2> QED
    BY <1>5, <2>1, <2>3 DEF SpaceStep, Spaces
<1>6. CASE BlockComment(txt, i) /\ At(txt, i) \notin {SP, NL} /\ ~LineComment(txt, i)
  <2>1. i + 2 \in Positions(txt)
    <3>1. At(txt, i + 1) # NUL /\ i + 1 \in Int
      BY <1>1, <1>6 DEF NUL
    <3>2. (i + 1) + 1 \in Positions(txt)
      BY <3>1, AtInside
    <3> QED
      BY <1>1, <3>2
  <2>2. PICK end : end = block_comment(txt, i + 2)
    OBVIOUS
  <2>3. end = 0 \/ (end \in Positions(txt) /\ end >= i + 2)
    BY <2>1, <2>2, CommentBehind
  <2>4. end = 0 \/ (end \in Positions(txt) /\ end > i)
    BY <1>1, <2>3, PositionRange
  <2>5. SpaceStep(txt, i) = IF end = 0 THEN [to |-> Len(txt) + 1, ok |-> FALSE]
                            ELSE [to |-> end, ok |-> TRUE]
    BY <1>6, <2>2 DEF SpaceStep
  <2> QED
    BY <1>3, <2>4, <2>5 DEF Spaces
<1> QED
  BY <1>4, <1>5, <1>6

\* skip_whitespace comes to an end, and moves when it meets an open comment.
LEMMA SpaceEnds ==
    ASSUME NEW txt \in Text, NEW i \in Positions(txt)
    PROVE  LET w == skip_whitespace(txt, i)
           IN  w \in Spaces(txt) /\ w.to >= i /\ (~w.ok => w.to > i)
<1> DEFINE S == Spaces(txt)
           done == [y \in S |-> \/ ~y.ok
                                \/ /\ At(txt, y.to) \notin {SP, NL}
                                   /\ ~LineComment(txt, y.to) /\ ~BlockComment(txt, y.to)]
           step == [y \in S |-> SpaceStep(txt, y.to)]
           I == {y \in S : y.to >= i /\ (~y.ok => y.to > i)}
           m == [y \in S |-> Len(txt) + 1 - y.to]
           x == [to |-> i, ok |-> TRUE]
<1>1. \A y \in S : y.to \in Positions(txt) /\ y.to \in Nat /\ y.to <= Len(txt) + 1 /\ Len(txt) \in Nat
  BY PositionRange DEF Spaces
<1>2. \A y \in S : ~done[y] => step[y] \in S /\ step[y].to > y.to
  BY <1>1, SpaceAdvances
<1>3. x \in S /\ x.to = i /\ x.ok /\ i \in Nat
  BY PositionRange DEF Spaces
<1>4. m \in [S -> Nat] /\ I \in SUBSET S /\ x \in I
  BY <1>1, <1>3
<1>5. \A y \in I : ~done[y] => step[y] \in I /\ m[step[y]] < m[y]
  <2> TAKE y \in I
  <2> HAVE ~done[y]
  <2>1. step[y] \in S /\ step[y].to > y.to /\ y.to >= i /\ y \in S
    BY <1>2
  <2> HIDE DEF S, done, step
  <2> QED
    BY <1>1, <1>3, <2>1
<1>6. skip_whitespace(txt, i) = Iterate(S, done, step, x)
  BY DEF skip_whitespace
<1> HIDE DEF S, done, step, I, m, x
<1>7. \A z \in I : LET e == Iterate(S, done, step, z) IN e \in I /\ done[e]
  BY <1>2, <1>4, <1>5, WhileRule
<1> QED
  BY <1>4, <1>6, <1>7 DEF I, S

-----------------------------------------------------------------------------
(* Literals.                                                               *)

\* The token t ends inside the source and behind st.
Ahead(txt, st, t) == t.to \in Positions(txt) /\ t.to > st /\ t.lines \in Nat

\* No symbol of a name or a number is the NUL.
LEMMA NoNul ==
    /\ NUL \notin Digits /\ NUL \notin HexDigits /\ NUL \notin {"0", "1"}
    /\ NUL \notin NameSymbols /\ NUL \notin {SP}
BY DEF NUL, Digits, HexDigits, NameSymbols, Letters, Words, SP

\* Fields of a token.
LEMMA TokFields ==
    ASSUME NEW k, NEW to, NEW lines
    PROVE  Tok(k, to, lines).k = k /\ Tok(k, to, lines).to = to /\ Tok(k, to, lines).lines = lines
BY DEF Tok

\* An exponent, or what stands where it could, ends at i or behind.
LEMMA ExponentAhead ==
    ASSUME NEW txt \in Text, NEW st \in Nat, NEW i \in Positions(txt), i > st,
           NEW isFloat \in BOOLEAN
    PROVE  Ahead(txt, st, Exponent(txt, i, isFloat))
<1>1. i \in Nat /\ Positions(txt) \subseteq Nat
  BY PositionRange
<1>2. CASE At(txt, i) # "e"
  BY <1>2, TokFields DEF Exponent, Ahead
<1>3. CASE At(txt, i) = "e"
  <2>1. PICK d : d = IF At(txt, i + 1) \in {"+", "-"} THEN i + 2 ELSE i + 1
    OBVIOUS
  <2>2. i + 1 \in Positions(txt)
    BY <1>1, <1>3, AtInside DEF NUL
  <2>3. ASSUME At(txt, i + 1) \in {"+", "-"} PROVE i + 2 \in Positions(txt)
    <3>1. (i + 1) + 1 \in Positions(txt)
      BY <1>1, <2>3, AtInside DEF NUL
    <3> QED
      BY <1>1, <3>1
  <2>4. d \in Positions(txt) /\ d > st /\ d \in Nat
    BY <1>1, <2>1, <2>2, <2>3
  <2>5. SkipIn(txt, d, Digits) \in Positions(txt) /\ SkipIn(txt, d, Digits) > st
    BY <1>1, <2>4, SkipInStops, NoNul
  <2>6. Exponent(txt, i, isFloat) = IF ~isdigit(At(txt, d)) THEN Tok("ERROR", d, 0)
                                    ELSE Tok("FLOAT_LIT", SkipIn(txt, d, Digits), 0)
    BY <1>3, <2>1 DEF Exponent
  <2> QED
    BY <2>4, <2>5, <2>6, TokFields DEF Ahead
<1> QED
  BY <1>2, <1>3

\* A number ends behind its first digit.
LEMMA NumberAhead ==
    ASSUME NEW txt \in Text, NEW st \in Nat, At(txt, st) # NUL
    PROVE  Ahead(txt, st, scan_number(txt, st))
<1> DEFINE i == st + 1
           d == SkipIn(txt, i, Digits)
           radix(digits) == IF At(txt, i + 1) \notin digits THEN Tok("ERROR", i + 1, 0)
                            ELSE Tok("INT_LIT", SkipIn(txt, i + 1, digits), 0)
<1>1. i \in Nat /\ i > st /\ i \in Positions(txt) /\ Positions(txt) \subseteq Nat
  BY AtInside, PositionRange
<1>2. ASSUME NEW digits, NUL \notin digits, At(txt, i) # NUL
      PROVE  Ahead(txt, st, radix(digits))
  <2>1. i + 1 \in Positions(txt) /\ i + 1 > st
    BY <1>1, <1>2, AtInside
  <2>2. SkipIn(txt, i + 1, digits) \in Positions(txt) /\ SkipIn(txt, i + 1, digits) > st
    BY <1>1, <1>2, <2>1, SkipInStops
  <2> QED
    BY <2>1, <2>2, TokFields DEF Ahead
<1>3. d \in Positions(txt) /\ d > st /\ d \in Nat
  BY <1>1, SkipInStops, NoNul
<1>4. Ahead(txt, st, Exponent(txt, d, FALSE))
  BY <1>3, ExponentAhead
<1>5. ASSUME At(txt, d) = "." PROVE Ahead(txt, st, Exponent(txt, SkipIn(txt, d + 1, Digits), TRUE))
  <2>1. d + 1 \in Positions(txt) /\ d + 1 > st
    BY <1>3, <1>5, AtInside DEF NUL
  <2>2. SkipIn(txt, d + 1, Digits) \in Positions(txt) /\ SkipIn(txt, d + 1, Digits) > st
    BY <1>1, <2>1, SkipInStops, NoNul
  <2> QED
    BY <2>2, ExponentAhead
<1>6. scan_number(txt, st) =
        CASE txt[st] = "0" /\ At(txt, i) = "x" -> radix(HexDigits)
          [] txt[st] = "0" /\ At(txt, i) = "b" -> radix({"0", "1"})
          [] OTHER -> IF At(txt, d) = "." /\ isdigit(At(txt, d + 1))
                      THEN Exponent(txt, SkipIn(txt, d + 1, Digits), TRUE)
                      ELSE Exponent(txt, d, FALSE)
  BY DEF scan_number
<1> HIDE DEF i, d, radix
<1>7. ASSUME At(txt, i) = "x" PROVE Ahead(txt, st, radix(HexDigits))
  BY <1>2, <1>7, NoNul DEF NUL
<1>8. ASSUME At(txt, i) = "b" PROVE Ahead(txt, st, radix({"0", "1"}))
  BY <1>2, <1>8, NoNul DEF NUL
<1> QED
  BY <1>4, <1>5, <1>6, <1>7, <1>8

\* Raw strings: the cursor loops end and the quotes are inside the source.
LEMMA RawAhead ==
    ASSUME NEW txt \in Text, NEW st \in Nat, NEW i \in Positions(txt), i > st, NEW q, q # NUL
    PROVE  /\ Ahead(txt, st, scan_raw_string(txt, i, q))
           /\ Ahead(txt, st, scan_raw_string3(txt, i, q))
<1>1. i \in Nat /\ Positions(txt) \subseteq Nat
  BY PositionRange
<1>2. Ahead(txt, st, scan_raw_string(txt, i, q))
  <2>1. PICK end : end = SkipTo(txt, i, {q})
    OBVIOUS
  <2>2. end \in Positions(txt) /\ end > st /\ end \in Nat
    BY <1>1, <2>1, SkipToStops
  <2>3. ASSUME ~is_at_end(txt, end) PROVE end + 1 \in Positions(txt) /\ end + 1 > st
    BY <2>2, <2>3, AtInside DEF is_at_end
  <2>4. NewLines(txt, i, end) \in Nat
    BY <1>1, <2>2, NewLinesNat
  <2>5. scan_raw_string(txt, i, q) =
          IF is_at_end(txt, end) THEN Tok("ERROR", end, NewLines(txt, i, end))
          ELSE Tok("RAWSTRING_LIT", end + 1, NewLines(txt, i, end))
    BY <2>1 DEF scan_raw_string
  <2> QED
    BY <2>2, <2>3, <2>4, <2>5, TokFields DEF Ahead
<1>3. Ahead(txt, st, scan_raw_string3(txt, i, q))
  <2> DEFINE done == [n \in Positions(txt) |-> is_at_end(txt, n) \/ ThreeQuotes(txt, n, q)]
             step == Advance(txt)
  <2>1. \A n \in Positions(txt) : ~done[n] => step[n] \in Positions(txt) /\ step[n] > n
    BY Advances DEF is_at_end
  <2>2. \A n \in Positions(txt) : done[n] => is_at_end(txt, n) \/ ThreeQuotes(txt, n, q)
    OBVIOUS
  <2>3. PICK end : end = Iterate(Positions(txt), done, step, i)
    OBVIOUS
  <2>4. scan_raw_string3(txt, i, q) =
          IF is_at_end(txt, end) THEN Tok("ERROR", end, NewLines(txt, i, end))
          ELSE Tok("RAWSTRING3_LIT", end + 3, NewLines(txt, i, end))
    BY <2>3 DEF scan_raw_string3
  <2> HIDE DEF done, step
  <2>5. end \in Positions(txt) /\ end >= i /\ done[end]
    BY <2>1, <2>3, CursorLoop
  <2>6. end \in Nat /\ end > st
    BY <1>1, <2>5
  <2>7. ASSUME ~is_at_end(txt, end) PROVE end + 3 \in Positions(txt) /\ end + 3 > st
    <3>1. At(txt, end + 2) = q
      BY <2>2, <2>5, <2>7 DEF ThreeQuotes
    <3>2. (end + 2) + 1 \in Positions(txt)
      BY <2>6, <3>1, AtInside
    <3> QED
      BY <2>6, <3>2
  <2>8. NewLines(txt, i, end) \in Nat
    BY <1>1, <2>6, NewLinesNat
  <2> QED
    BY <2>4, <2>5, <2>6, <2>7, <2>8, TokFields DEF Ahead
<1> QED
  BY <1>2, <1>3

\* A well-formed escape is inside the source.
LEMMA EscapeInside ==
    ASSUME NEW txt \in Text, NEW n \in Nat, EscapeWidth(txt, n) # 0
    PROVE  /\ n + EscapeWidth(txt, n) \in Positions(txt)
           /\ n + EscapeWidth(txt, n) > n
<1>1. CASE At(txt, n + 1) \in {"n", "b", "r", BS, DQ, "0"}
  <2>1. (n + 1) + 1 \in Positions(txt)
    BY <1>1, AtInside DEF NUL, BS, DQ
  <2>2. EscapeWidth(txt, n) = 2
    BY <1>1 DEF EscapeWidth, BS, DQ
  <2> QED
    BY <2>1, <2>2
<1>2. CASE At(txt, n + 1) \notin {"n", "b", "r", BS, DQ, "0"}
  <2>1. /\ EscapeWidth(txt, n) = 4
        /\ At(txt, n + 3) \in HexDigits
    BY <1>2 DEF EscapeWidth, isxdigit
  <2>2. (n + 3) + 1 \in Positions(txt)
    BY <2>1, AtInside, NoNul
  <2> QED
    BY <2>1, <2>2
<1> QED
  BY <1>1, <1>2

\* A string ends behind its opening quote.
LEMMA StringAhead ==
    ASSUME NEW txt \in Text, NEW st \in Nat, NEW i \in Positions(txt), i > st
    PROVE  Ahead(txt, st, scan_string(txt, i))
<1> DEFINE done == [n \in Positions(txt) |-> \/ At(txt, n) \in {NUL, DQ}
                                             \/ At(txt, n) = BS /\ EscapeWidth(txt, n) = 0]
           step == [n \in Positions(txt) |->
                        n + (IF At(txt, n) = BS THEN EscapeWidth(txt, n) ELSE 1)]
<1>1. i \in Nat /\ Positions(txt) \subseteq Nat
  BY PositionRange
<1>2. ASSUME NEW n \in Positions(txt), ~done[n]
      PROVE  step[n] \in Positions(txt) /\ step[n] > n
  <2>1. /\ At(txt, n) # NUL /\ (At(txt, n) = BS => EscapeWidth(txt, n) # 0)
        /\ step[n] = n + (IF At(txt, n) = BS THEN EscapeWidth(txt, n) ELSE 1)
    BY <1>2
  <2>2. n \in Nat /\ n + 1 \in Positions(txt) /\ n + 1 > n
    BY <1>1, <2>1, AtInside
  <2> QED
    BY <2>1, <2>2, EscapeInside
<1>3. \A n \in Positions(txt) : done[n] => At(txt, n) \in {NUL, DQ, BS}
  OBVIOUS
<1>4. PICK e : e = StringEnd(txt, i)
  OBVIOUS
<1>5. e = Iterate(Positions(txt), done, step, i)
  BY <1>4 DEF StringEnd
<1> HIDE DEF done, step
<1>6. e \in Positions(txt) /\ e >= i /\ done[e]
  BY <1>2, <1>5, CursorLoop
<1>7. e \in Nat /\ e > st /\ At(txt, e) \in {NUL, DQ, BS}
  BY <1>1, <1>3, <1>6
<1>8. PICK stop : stop = CASE At(txt, e) = NUL -> e
                  [] At(txt, e) = BS -> IF At(txt, e + 1) = "x" THEN e + 2 ELSE e + 1
                  [] OTHER -> e + 1
  OBVIOUS
<1>9. stop \in Positions(txt) /\ stop > st
  <2>1. CASE At(txt, e) = NUL
    BY <1>6, <1>7, <1>8, <2>1 DEF NUL, BS
  <2>2. CASE At(txt, e) # NUL
    <3>1. e + 1 \in Positions(txt) /\ e + 1 > st
      BY <1>7, <2>2, AtInside
    <3>2. ASSUME At(txt, e + 1) = "x" PROVE e + 2 \in Positions(txt) /\ e + 2 > st
      <4>1. (e + 1) + 1 \in Positions(txt)
        BY <1>7, <3>2, AtInside DEF NUL
      <4> QED
        BY <1>7, <4>1
    <3> QED
      BY <1>8, <2>2, <3>1, <3>2
  <2> QED
    BY <2>1, <2>2
<1>10. NewLines(txt, i, e) \in Nat
  BY <1>1, <1>7, NewLinesNat
<1>11. scan_string(txt, i) =
         Tok(IF At(txt, e) = DQ THEN "STRING_LIT" ELSE "ERROR", stop, NewLines(txt, i, e))
  BY <1>4, <1>8 DEF scan_string
<1> QED
  BY <1>9, <1>10, <1>11, TokFields DEF Ahead

\* A character literal ends behind its opening quote.
LEMMA CharAhead ==
    ASSUME NEW txt \in Text, NEW st \in Nat, NEW i \in Positions(txt), i > st
    PROVE  Ahead(txt, st, scan_char(txt, i))
<1>1. i \in Nat /\ Positions(txt) \subseteq Nat
  BY PositionRange
<1>2. CASE is_at_end(txt, i)
  BY <1>2, TokFields DEF scan_char, Ahead
<1>3. CASE ~is_at_end(txt, i)
  <2> DEFINE esc == At(txt, i) = BS
             c == IF esc THEN i + 2 ELSE i + 1
  <2>1. i + 1 \in Positions(txt) /\ i + 1 > st
    BY <1>1, <1>3, AtInside DEF is_at_end
  <2>2. scan_char(txt, i) = IF esc /\ is_at_end(txt, i + 1) THEN Tok("ERROR", i + 1, 0)
                            ELSE IF At(txt, c) # "'" THEN Tok("ERROR", c, 0)
                            ELSE Tok("CHAR_LIT", c + 1, 0)
    BY <1>3 DEF scan_char
  <2>3. CASE esc /\ is_at_end(txt, i + 1)
    BY <2>1, <2>2, <2>3, TokFields DEF Ahead
  <2>4. CASE ~(esc /\ is_at_end(txt, i + 1))
    <3>1. ASSUME esc PROVE i + 2 \in Positions(txt)
      <4>1. (i + 1) + 1 \in Positions(txt)
        BY <1>1, <2>4, <3>1, AtInside DEF is_at_end
      <4> QED
        BY <1>1, <4>1
    <3>2. c \in Positions(txt) /\ c > st /\ c \in Nat
      BY <1>1, <2>1, <3>1
    <3> HIDE DEF c, esc
    <3>3. ASSUME At(txt, c) = "'" PROVE c + 1 \in Positions(txt) /\ c + 1 > st
      BY <3>2, <3>3, AtInside DEF NUL
    <3> QED
      BY <2>2, <2>4, <3>2, <3>3, TokFields DEF Ahead
  <2> QED
    BY <2>3, <2>4
<1> QED
  BY <1>2, <1>3

-----------------------------------------------------------------------------
(* Names, annotations, operators. *)

\* A name, or the literal it introduces, ends behind its first symbol.
LEMMA IdentifierAhead ==
    ASSUME NEW txt \in Text, NEW st \in Nat, At(txt, st) # NUL
    PROVE  Ahead(txt, st, scan_identifier(txt, st))
<1> DEFINE i == SkipIn(txt, st + 1, NameSymbols)
           name == SubSeq(txt, st, i - 1)
           q == At(txt, i)
           type == check_keyword(name)
           suffix == q = "?" \/ (q = "!" /\ At(txt, i + 1) # "=")
           plain == Tok(type, IF type = "IDENTIFIER" /\ suffix THEN i + 1 ELSE i, 0)
<1>1. st + 1 \in Positions(txt) /\ Positions(txt) \subseteq Nat
  BY AtInside, PositionRange
<1>2. i \in Positions(txt) /\ i \in Nat /\ i > st
  BY <1>1, SkipInStops, NoNul
<1> HIDE DEF i
<1>3. ASSUME q # NUL PROVE i + 1 \in Positions(txt) /\ i + 1 > st
  BY <1>2, <1>3, AtInside
<1>4. Ahead(txt, st, Tok("UNDERSCORE", i, 0))
  BY <1>2, TokFields DEF Ahead
<1>5. ASSUME q = DQ PROVE Ahead(txt, st, Tok("FSTRING_START", i + 1, 0))
  <2>1. q # NUL
    BY <1>5 DEF NUL, DQ
  <2> HIDE DEF q
  <2> QED
    BY <1>3, <2>1, TokFields DEF Ahead
<1>6. ASSUME q \in {DQ, "'"}
      PROVE  Ahead(txt, st, IF At(txt, i + 1) = q /\ At(txt, i + 2) = q
                            THEN scan_raw_string3(txt, i + 3, q)
                            ELSE scan_raw_string(txt, i + 1, q))
  <2>1. q # NUL
    BY <1>6 DEF NUL, DQ
  <2> HIDE DEF q
  <2>2. Ahead(txt, st, scan_raw_string(txt, i + 1, q))
    BY <1>3, <2>1, RawAhead
  <2>3. ASSUME At(txt, i + 2) = q PROVE Ahead(txt, st, scan_raw_string3(txt, i + 3, q))
    <3>1. (i + 2) + 1 \in Positions(txt)
      BY <1>2, <2>1, <2>3, AtInside
    <3>2. i + 3 \in Positions(txt) /\ i + 3 > st
      BY <1>2, <3>1
    <3> QED
      BY <2>1, <3>2, RawAhead
  <2> QED
    BY <2>2, <2>3
<1>7. Ahead(txt, st, plain)
  <2>1. ASSUME suffix PROVE i + 1 \in Positions(txt) /\ i + 1 > st
    BY <1>3, <2>1 DEF NUL
  <2> HIDE DEF type, suffix
  <2> QED
    BY <1>2, <2>1, TokFields DEF Ahead
<1>8. scan_identifier(txt, st) =
        CASE name = <<"_">> -> Tok("UNDERSCORE", i, 0)
          [] name = <<"r">> /\ q \in {DQ, "'"} ->
               IF At(txt, i + 1) = q /\ At(txt, i + 2) = q
               THEN scan_raw_string3(txt, i + 3, q)
               ELSE scan_raw_string(txt, i + 1, q)
          [] name = <<"f">> /\ q = DQ -> Tok("FSTRING_START", i + 1, 0)
          [] OTHER -> plain
  BY DEF scan_identifier, i
<1> HIDE DEF name, q, plain
<1> QED
  BY <1>4, <1>5, <1>6, <1>7, <1>8

\* An annotation ends behind its "@".
LEMMA AnnotationAhead ==
    ASSUME NEW txt \in Text, NEW st \in Nat, NEW i \in Positions(txt), i > st
    PROVE  Ahead(txt, st, scan_annotation(txt, i))
<1>1. i \in Nat /\ Positions(txt) \subseteq Nat
  BY PositionRange
<1>2. ASSUME At(txt, i) \in DOMAIN Annotation PROVE i + 1 \in Positions(txt) /\ i + 1 > st
  <2>1. At(txt, i) # NUL
    BY <1>2 DEF Annotation, NUL
  <2> QED
    BY <1>1, <2>1, AtInside
<1>3. CASE At(txt, i) \in DOMAIN Annotation /\ At(txt, i + 1) \notin NameSymbols
  <2>1. scan_annotation(txt, i) = Tok(Annotation[At(txt, i)], i + 1, 0)
    BY <1>3 DEF scan_annotation
  <2> QED
    BY <1>2, <1>3, <2>1, TokFields DEF Ahead
<1>4. CASE ~(At(txt, i) \in DOMAIN Annotation /\ At(txt, i + 1) \notin NameSymbols)
  <2>1. scan_annotation(txt, i) \in {Tok("AT", i, 0), Tok("ERROR", i, 0)}
    BY <1>4 DEF scan_annotation
  <2> QED
    BY <2>1, TokFields DEF Ahead
<1> QED
  BY <1>3, <1>4

\* Every operator has one to three symbols, none of them the NUL.
LEMMA OperatorShape ==
    ASSUME NEW op \in Operators
    PROVE  Len(op[1]) \in 1 .. 3 /\ Len(op[1]) \in DOMAIN op[1] /\ op[1][Len(op[1])] # NUL
<1>1. \/ \E a, k : op = <<<<a>>, k>> /\ a # NUL
      \/ \E a, b, k : op = <<<<a, b>>, k>> /\ b # NUL
      \/ \E a, b, c, k : op = <<<<a, b, c>>, k>> /\ c # NUL
  <2>1. \A o \in OneSymbol : o[1] # NUL
    BY DEF OneSymbol, NUL, SEMI, COMMA, LC, RC
  <2>2. \A o \in TwoSymbols : o[2] # NUL
    BY DEF TwoSymbols, NUL
  <2>3. "." # NUL
    BY DEF NUL
  <2> QED
    BY <2>1, <2>2, <2>3, Zenon DEF Operators
<1>2. ASSUME NEW a, NEW k, op = <<<<a>>, k>>, a # NUL
      PROVE  Len(op[1]) \in 1 .. 3 /\ Len(op[1]) \in DOMAIN op[1] /\ op[1][Len(op[1])] # NUL
  BY <1>2
<1>3. ASSUME NEW a, NEW b, NEW k, op = <<<<a, b>>, k>>, b # NUL
      PROVE  Len(op[1]) \in 1 .. 3 /\ Len(op[1]) \in DOMAIN op[1] /\ op[1][Len(op[1])] # NUL
  BY <1>3
<1>4. ASSUME NEW a, NEW b, NEW c, NEW k, op = <<<<a, b, c>>, k>>, c # NUL
      PROVE  Len(op[1]) \in 1 .. 3 /\ Len(op[1]) \in DOMAIN op[1] /\ op[1][Len(op[1])] # NUL
  BY <1>4
<1> QED
  BY <1>1, <1>2, <1>3, <1>4

\* The longest spelling that fits is inside the source.
LEMMA OperatorAhead ==
    ASSUME NEW txt \in Text, NEW st \in Nat, At(txt, st) # NUL
    PROVE  Ahead(txt, st, scan_operator(txt, st))
<1>1. st + 1 \in Positions(txt) /\ st + 1 > st
  BY AtInside
<1>2. PICK ops : ops = Spelled(txt, st, 3)
  OBVIOUS
<1> DEFINE L(o) == Len(o[1])
<1>3. PICK op : op = CHOOSE o \in ops : \A p \in ops : L(p) <= L(o)
  OBVIOUS
<1>4. scan_operator(txt, st) =
        IF ops = {} THEN Tok("ERROR", st + 1, 0) ELSE Tok(op[2], st + L(op), 0)
  BY <1>2, <1>3 DEF scan_operator
<1>5. \A o \in ops : /\ o \in Operators
                     /\ \A k \in DOMAIN o[1] : At(txt, st + k - 1) = o[1][k]
  BY <1>2 DEF Spelled
<1>6. \A o \in ops : /\ L(o) \in 1 .. 3 /\ L(o) \in DOMAIN o[1] /\ o[1][L(o)] # NUL
  BY <1>5, OperatorShape
<1> HIDE DEF L
<1>7. ASSUME ops # {} PROVE op \in ops
  <2>1. \E o \in ops : \A p \in ops : L(p) <= L(o)
    <3>1. CASE \E o \in ops : L(o) = 3
      BY <1>6, <3>1
    <3>2. CASE ~(\E o \in ops : L(o) = 3) /\ \E o \in ops : L(o) = 2
      BY <1>6, <3>2
    <3>3. CASE ~(\E o \in ops : L(o) = 3) /\ ~(\E o \in ops : L(o) = 2)
      BY <1>6, <1>7, <3>3
    <3> QED
      BY <3>1, <3>2, <3>3
  <2> QED
    BY <1>3, <2>1
<1>8. ASSUME op \in ops PROVE st + L(op) \in Positions(txt) /\ st + L(op) > st
  <2>1. L(op) \in 1 .. 3 /\ At(txt, st + L(op) - 1) # NUL
    BY <1>5, <1>6, <1>8
  <2>2. (st + L(op) - 1) + 1 \in Positions(txt)
    BY <2>1, AtInside
  <2> QED
    BY <2>1, <2>2
<1> QED
  BY <1>1, <1>4, <1>7, <1>8, TokFields DEF Ahead

\* Every token of plain text ends inside the source and behind its start.
LEMMA TokenAhead ==
    ASSUME NEW txt \in Text, NEW st \in Nat, At(txt, st) # NUL
    PROVE  Ahead(txt, st, scan_token(txt, st))
<1>1. st + 1 \in Positions(txt) /\ st + 1 > st
  BY AtInside
<1>2. Ahead(txt, st, scan_identifier(txt, st)) /\ Ahead(txt, st, scan_number(txt, st))
  BY IdentifierAhead, NumberAhead
<1>3. Ahead(txt, st, scan_operator(txt, st))
  BY OperatorAhead
<1>4. /\ Ahead(txt, st, scan_string(txt, st + 1)) /\ Ahead(txt, st, scan_char(txt, st + 1))
      /\ Ahead(txt, st, scan_annotation(txt, st + 1))
  BY <1>1, StringAhead, CharAhead, AnnotationAhead
<1>5. scan_token(txt, st) \in
        {scan_identifier(txt, st), scan_number(txt, st), scan_operator(txt, st),
         scan_string(txt, st + 1), scan_char(txt, st + 1), scan_annotation(txt, st + 1)}
  BY DEF scan_token
<1> QED
  BY <1>2, <1>3, <1>4, <1>5

-----------------------------------------------------------------------------
(* The scanner's state. *)

States == [pos : Nat \ {0}, line : Nat, in_fstring : BOOLEAN, depth : Nat, cond : Seq(Frames)]

\* A brace depth is counted inside an f-string only.
Balanced(t) == t.in_fstring \/ t.depth = 0

\* The one way out of the source: the text of an f-string met the NUL, which
\* scan_fstring_text takes for the opening brace of an expression.
Overrun(txt, t) == t.pos = Len(txt) + 2 /\ t.in_fstring /\ t.depth = 1

\* The scanner t gave r: it moved or reports the end, and stays inside the
\* source but for an overrun.
Given(txt, t, r) ==
    /\ r.s \in States /\ (Balanced(t) => Balanced(r.s))
    /\ (r.s.pos > t.pos \/ (r.tok.k = "EOF" /\ r.s.pos >= t.pos))
    /\ (r.s.pos <= Len(txt) + 1 \/ (Overrun(txt, r.s) /\ r.tok.k # "EOF"))
    /\ r.s.cond = t.cond

\* A scanner inside the source, and its fields.
LEMMA ScannerFields ==
    ASSUME NEW txt \in Text, NEW t
    PROVE  /\ t \in Scanners(txt) => /\ t \in States /\ t.pos \in Nat \ {0} /\ t.pos \in Positions(txt)
                                     /\ t.pos <= Len(txt) + 1 /\ t.line \in Nat
                                     /\ t.in_fstring \in BOOLEAN /\ t.depth \in Nat
                                     /\ t.cond \in Seq(Frames)
           /\ t \in States /\ t.pos <= Len(txt) + 1 => t \in Scanners(txt)
<1>1. Len(txt) \in Nat
  BY PositionRange
<1> QED
  BY <1>1 DEF Scanners, States, Positions

\* What Emit and EmitTok give.
LEMMA EmitFields ==
    ASSUME NEW t, NEW k
    PROVE  Emit(t, k).s = t /\ Emit(t, k).tok.k = k
BY DEF Emit

\* EmitTok sets the cursor and the line.
LEMMA EmitTokFields ==
    ASSUME NEW t \in States, NEW x, x.lines \in Nat, x.to \in Nat \ {0}, NEW r, r = EmitTok(t, x)
    PROVE  /\ r.s \in States /\ r.s.pos = x.to /\ r.s.in_fstring = t.in_fstring
           /\ r.s.depth = t.depth /\ r.s.cond = t.cond
<1>1. PICK p \in Nat \ {0}, n \in Nat : p = x.to /\ n = t.line + x.lines
  BY DEF States
<1>2. PICK u : u = [t EXCEPT !.pos = p, !.line = n]
  OBVIOUS
<1>3. u \in States
  BY <1>2 DEF States
<1>4. /\ u.pos = p /\ u.in_fstring = t.in_fstring
      /\ u.depth = t.depth /\ u.cond = t.cond
  BY <1>2 DEF States
<1>5. r.s = u
  BY <1>1, <1>2, EmitFields DEF EmitTok
<1> QED
  BY <1>1, <1>3, <1>4, <1>5

\* The text of an f-string ends at a quote, a brace or the NUL.
LEMMA FTextEnds ==
    ASSUME NEW txt \in Text, NEW i \in Positions(txt)
    PROVE  FText(txt, i) \in Texts(txt) /\ FText(txt, i).to >= i
<1> DEFINE S == Texts(txt)
           done == [y \in S |-> At(txt, y.to) \in {NUL, LC, DQ}]
           step == [y \in S |-> FTextStep(txt, y)]
           I == {y \in S : y.to >= i}
           m == [y \in S |-> Len(txt) + 1 - y.to]
           x == [to |-> i, lines |-> 0]
<1>1. \A y \in S : /\ y.to \in Positions(txt) /\ y.to \in Nat /\ y.to <= Len(txt) + 1
                   /\ Len(txt) \in Nat /\ y.lines \in Nat
  BY PositionRange DEF Texts
<1>2. ASSUME NEW y \in S, ~done[y] PROVE step[y] \in S /\ step[y].to > y.to
  <2>1. At(txt, y.to) # NUL /\ step[y] = FTextStep(txt, y)
    BY <1>2
  <2>2. y.to \in Nat /\ y.lines \in Nat /\ y.to + 1 \in Positions(txt) /\ y.to + 1 > y.to
    BY <1>1, <2>1, AtInside
  <2>3. ASSUME ~is_at_end(txt, y.to + 1) PROVE y.to + 2 \in Positions(txt) /\ y.to + 2 > y.to
    <3>1. (y.to + 1) + 1 \in Positions(txt)
      BY <2>2, <2>3, AtInside DEF is_at_end
    <3> QED
      BY <2>2, <3>1
  <2>4. CASE At(txt, y.to) = BS
    <3>1. FTextStep(txt, y) = [y EXCEPT !.to = IF is_at_end(txt, @ + 1) THEN @ + 1 ELSE @ + 2]
      BY <2>4 DEF FTextStep
    <3> QED
      BY <2>1, <2>2, <2>3, <3>1 DEF Texts
  <2>5. CASE At(txt, y.to) # BS
    BY <2>1, <2>2, <2>5 DEF Texts, FTextStep
  <2> QED
    BY <2>4, <2>5
<1>3. x \in S /\ x.to = i /\ i \in Nat
  BY PositionRange DEF Texts
<1>4. m \in [S -> Nat] /\ I \in SUBSET S /\ x \in I
  BY <1>1, <1>3
<1>5. \A y \in I : ~done[y] => step[y] \in I /\ m[step[y]] < m[y]
  <2> TAKE y \in I
  <2> HAVE ~done[y]
  <2>1. step[y] \in S /\ step[y].to > y.to /\ y.to >= i /\ y \in S
    BY <1>2
  <2> HIDE DEF S, done, step
  <2> QED
    BY <1>1, <1>3, <2>1
<1>6. FText(txt, i) = Iterate(S, done, step, x)
  BY DEF FText
<1> HIDE DEF S, done, step, I, m, x
<1>7. \A z \in I : LET e == Iterate(S, done, step, z) IN e \in I /\ done[e]
  BY <1>2, <1>4, <1>5, WhileRule
<1> QED
  BY <1>4, <1>6, <1>7 DEF I, S

\* A token made by Emit at the scanner u.
LEMMA EmitGiven ==
    ASSUME NEW txt \in Text, NEW t, NEW u \in States, NEW k, Balanced(t) => Balanced(u),
           u.pos > t.pos \/ (k = "EOF" /\ u.pos >= t.pos),
           u.pos <= Len(txt) + 1 \/ (Overrun(txt, u) /\ k # "EOF"), u.cond = t.cond
    PROVE  Given(txt, t, Emit(u, k))
BY EmitFields DEF Given

\* Text mode: text, the closing quote, or an opening brace.
LEMMA TextGiven ==
    ASSUME NEW txt \in Text, NEW t \in Scanners(txt), TextMode(t)
    PROVE  Given(txt, t, scan_fstring_text(txt, t))
<1>1. /\ t \in States /\ t.pos \in Nat \ {0} /\ t.pos \in Positions(txt) /\ t.pos <= Len(txt) + 1
      /\ Len(txt) \in Nat /\ t.in_fstring /\ t.depth = 0
  BY ScannerFields, PositionRange DEF TextMode
<1>2. PICK x : x = FText(txt, t.pos)
  OBVIOUS
<1>3. x.to \in Positions(txt) /\ x.to \in Nat \ {0} /\ x.lines \in Nat /\ x.to >= t.pos /\ x.to <= Len(txt) + 1
  BY <1>1, <1>2, FTextEnds, PositionRange DEF Texts
<1>4. CASE x.to > t.pos
  <2>1. PICK y : y = Tok("FSTRING_TEXT", x.to, x.lines)
    OBVIOUS
  <2>2. y.to = x.to /\ y.lines = x.lines
    BY <2>1, TokFields
  <2>3. PICK r : r = EmitTok(t, y)
    OBVIOUS
  <2>4. /\ r.s \in States /\ r.s.pos = x.to /\ r.s.in_fstring = t.in_fstring
        /\ r.s.depth = t.depth /\ r.s.cond = t.cond
    BY <1>1, <1>3, <2>2, <2>3, EmitTokFields
  <2>5. scan_fstring_text(txt, t) = r
    BY <1>1, <1>2, <1>4, <2>1, <2>3 DEF scan_fstring_text
  <2> QED
    BY <1>1, <1>3, <1>4, <2>4, <2>5 DEF Given, Balanced
<1>5. CASE x.to = t.pos /\ At(txt, t.pos) = DQ
  <2>1. PICK u : u = [t EXCEPT !.pos = @ + 1, !.in_fstring = FALSE]
    OBVIOUS
  <2>2. scan_fstring_text(txt, t) = Emit(u, "FSTRING_END")
    BY <1>1, <1>2, <1>5, <2>1 DEF scan_fstring_text
  <2>3. t.pos + 1 \in Positions(txt) /\ t.pos + 1 \in Nat \ {0}
    BY <1>1, <1>5, AtInside DEF NUL, DQ
  <2>4. PICK p \in Nat \ {0} : p = t.pos + 1 /\ p <= Len(txt) + 1 /\ p > t.pos
    BY <1>1, <2>3, PositionRange
  <2>5. u = [t EXCEPT !.pos = p, !.in_fstring = FALSE]
    BY <2>1, <2>4
  <2>6. u \in States
    BY <1>1, <2>5 DEF States
  <2>7. u.pos = p /\ u.depth = 0 /\ u.cond = t.cond
    BY <1>1, <2>5 DEF States
  <2> QED
    BY <2>2, <2>4, <2>6, <2>7, EmitGiven DEF Balanced
<1>6. CASE x.to = t.pos /\ At(txt, t.pos) # DQ
  <2>1. PICK u : u = [t EXCEPT !.pos = @ + 1, !.depth = 1]
    OBVIOUS
  <2>2. scan_fstring_text(txt, t) = Emit(u, "LBRACE")
    BY <1>1, <1>2, <1>6, <2>1 DEF scan_fstring_text
  <2>3. PICK p \in Nat \ {0} : p = t.pos + 1 /\ (p <= Len(txt) + 1 \/ p = Len(txt) + 2) /\ p > t.pos
    BY <1>1
  <2>4. u = [t EXCEPT !.pos = p, !.depth = 1]
    BY <2>1, <2>3
  <2>5. u \in States
    BY <1>1, <2>4 DEF States
  <2>6. u.pos = p /\ u.depth = 1 /\ u.in_fstring /\ u.cond = t.cond
    BY <1>1, <2>4 DEF States
  <2> QED
    BY <2>2, <2>3, <2>5, <2>6, EmitGiven DEF Balanced, Overrun
<1> QED
  BY <1>1, <1>3, <1>4, <1>5, <1>6

\* A specification inside an expression.
LEMMA SpecGiven ==
    ASSUME NEW txt \in Text, NEW t \in Scanners(txt), t.in_fstring, At(txt, t.pos) # NUL
    PROVE  Given(txt, t, scan_fstring_spec(txt, t))
<1>1. /\ t \in States /\ t.pos \in Nat \ {0} /\ Positions(txt) \subseteq Nat
      /\ Len(txt) \in Nat /\ t.in_fstring
  BY ScannerFields, PositionRange
<1>2. t.pos + 1 \in Positions(txt)
  BY <1>1, AtInside
<1>3. PICK to : to = SkipTo(txt, t.pos + 1, {RC, DQ})
  OBVIOUS
<1>4. to \in Positions(txt) /\ to \in Nat \ {0} /\ to > t.pos /\ to <= Len(txt) + 1
  BY <1>1, <1>2, <1>3, SkipToStops, PositionRange
<1>5. CASE At(txt, to) = RC
  <2>1. PICK u : u = [t EXCEPT !.pos = to + 1, !.depth = 0]
    OBVIOUS
  <2>2. scan_fstring_spec(txt, t) = Emit(u, "FSTRING_SPEC")
    BY <1>3, <1>5, <2>1 DEF scan_fstring_spec
  <2>3. to + 1 \in Positions(txt)
    BY <1>4, <1>5, AtInside DEF NUL, RC
  <2>4. PICK p \in Nat \ {0} : p = to + 1 /\ p <= Len(txt) + 1 /\ p > t.pos
    BY <1>1, <1>4, <2>3, PositionRange
  <2>5. u = [t EXCEPT !.pos = p, !.depth = 0]
    BY <2>1, <2>4
  <2>6. u \in States
    BY <1>1, <2>5 DEF States
  <2>7. u.pos = p /\ u.depth = 0 /\ u.cond = t.cond
    BY <1>1, <2>5 DEF States
  <2> QED
    BY <2>2, <2>4, <2>6, <2>7, EmitGiven DEF Balanced
<1>6. CASE At(txt, to) # RC
  <2>1. PICK u : u = [t EXCEPT !.pos = to]
    OBVIOUS
  <2>2. scan_fstring_spec(txt, t) = Emit(u, "FSTRING_SPEC")
    BY <1>3, <1>6, <2>1 DEF scan_fstring_spec
  <2>3. u \in States
    BY <1>1, <1>4, <2>1 DEF States
  <2>4. u.pos = to /\ u.in_fstring /\ u.cond = t.cond
    BY <1>1, <2>1 DEF States
  <2> QED
    BY <1>4, <2>2, <2>3, <2>4, EmitGiven DEF Balanced
<1> QED
  BY <1>5, <1>6

\* The scanner past a blank: the cursor is set, the lines are counted.
LEMMA MoveToFields ==
    ASSUME NEW txt \in Text, NEW t \in Scanners(txt), NEW to \in Positions(txt)
    PROVE  LET u == MoveTo(txt, t, to)
           IN  /\ u \in Scanners(txt) /\ u.pos = to /\ u.in_fstring = t.in_fstring
               /\ u.depth = t.depth /\ u.cond = t.cond
<1>1. t.pos \in Nat /\ t.line \in Nat /\ to \in Nat
  BY ScannerFields, PositionRange
<1>2. PICK n \in Nat : n = t.line + NewLines(txt, t.pos, to)
  <2>1. NewLines(txt, t.pos, to) \in Nat
    BY <1>1, NewLinesNat
  <2> QED
    BY <1>1, <2>1
<1>3. PICK u : u = [t EXCEPT !.pos = to, !.line = n]
  OBVIOUS
<1>4. MoveTo(txt, t, to) = u
  BY <1>2, <1>3 DEF MoveTo
<1>5. u \in Scanners(txt)
  BY <1>3 DEF Scanners
<1>6. /\ u.pos = to /\ u.in_fstring = t.in_fstring
      /\ u.depth = t.depth /\ u.cond = t.cond
  BY <1>3 DEF Scanners
<1> QED
  BY <1>4, <1>5, <1>6

\* A token found from further on is found from here.
LEMMA GivenFrom ==
    ASSUME NEW txt \in Text, NEW t \in Scanners(txt), NEW u \in Scanners(txt), NEW r,
           u.pos >= t.pos, u.cond = t.cond, Balanced(t) => Balanced(u), Given(txt, u, r)
    PROVE  Given(txt, t, r)
<1>1. t.pos \in Nat /\ u.pos \in Nat
  BY ScannerFields
<1>2. r.s.pos \in Nat
  BY DEF Given, States
<1> QED
  BY <1>1, <1>2 DEF Given

\* A token of plain text: braces are counted inside an f-string only, and the
\* f-string that the token opens starts with none.
LEMMA LexemeGiven ==
    ASSUME NEW txt \in Text, NEW t \in Scanners(txt), NEW c,
           NEW x, Ahead(txt, t.pos, x)
    PROVE  Given(txt, t, EmitLexeme(t, c, x))
<1>1. /\ t \in States /\ t.pos \in Nat \ {0} /\ Len(txt) \in Nat
      /\ t.in_fstring \in BOOLEAN /\ t.depth \in Nat
  BY ScannerFields, PositionRange
<1>2. x.to \in Nat \ {0} /\ x.to <= Len(txt) + 1 /\ x.to > t.pos /\ x.lines \in Nat
  BY PositionRange DEF Ahead
<1>3. PICK d \in Nat : d = IF x.k = "FSTRING_START" THEN 0 ELSE FStringDepth(t, c)
  BY <1>1 DEF FStringDepth
<1>4. PICK f \in BOOLEAN : f = (t.in_fstring \/ x.k = "FSTRING_START")
  BY <1>1
<1>5. Balanced(t) => f \/ d = 0
  BY <1>1, <1>3, <1>4 DEF Balanced, FStringDepth
<1>6. PICK u : u = [t EXCEPT !.depth = d, !.in_fstring = f]
  OBVIOUS
<1>7. u \in States
  BY <1>1, <1>6 DEF States
<1>8. u.depth = d /\ u.in_fstring = f /\ u.cond = t.cond
  BY <1>1, <1>6 DEF States
<1>9. PICK r : r = EmitTok(u, x)
  OBVIOUS
<1>10. /\ r.s \in States /\ r.s.pos = x.to /\ r.s.in_fstring = f
       /\ r.s.depth = d /\ r.s.cond = t.cond
  BY <1>2, <1>7, <1>8, <1>9, EmitTokFields
<1>11. EmitLexeme(t, c, x) = r
  BY <1>3, <1>4, <1>6, <1>9 DEF EmitLexeme
<1> QED
  BY <1>2, <1>5, <1>10, <1>11 DEF Given, Balanced

\* One call of scanner_next_inner.
LEMMA InnerGiven ==
    ASSUME NEW txt \in Text, NEW t \in Scanners(txt)
    PROVE  Given(txt, t, scanner_next_inner(txt, t))
<1>1. CASE TextMode(t)
  BY <1>1, TextGiven DEF scanner_next_inner
<1>2. CASE ~TextMode(t)
  <2>1. PICK ws : ws = skip_whitespace(txt, t.pos)
    OBVIOUS
  <2>2. t.pos \in Positions(txt) /\ t.pos \in Nat
    BY ScannerFields
  <2>3. ws.to \in Positions(txt) /\ ws.to \in Nat /\ ws.to >= t.pos /\ (~ws.ok => ws.to > t.pos)
    BY <2>1, <2>2, SpaceEnds, PositionRange DEF Spaces
  <2>4. PICK u : u = MoveTo(txt, t, ws.to)
    OBVIOUS
  <2>5. /\ u \in Scanners(txt) /\ u.pos = ws.to /\ u.in_fstring = t.in_fstring
        /\ u.depth = t.depth /\ u.cond = t.cond
    BY <2>3, <2>4, MoveToFields
  <2>6. scanner_next_inner(txt, t) = ScanLexeme(txt, u, ws.ok)
    BY <1>2, <2>1, <2>4 DEF scanner_next_inner, AfterSpace
  <2>7. u \in States /\ u.pos <= Len(txt) + 1 /\ (Balanced(t) => Balanced(u)) /\ u.pos \in Nat
    BY <2>5, ScannerFields DEF Balanced
  <2>8. CASE ~ws.ok
    <3>1. ScanLexeme(txt, u, ws.ok) = Emit(u, "ERROR")
      BY <2>8 DEF ScanLexeme
    <3> QED
      BY <2>3, <2>5, <2>6, <2>7, <2>8, <3>1, EmitGiven
  <2>9. CASE ws.ok /\ At(txt, u.pos) = NUL
    <3>1. ScanLexeme(txt, u, ws.ok) = Emit(u, "EOF")
      BY <2>9 DEF ScanLexeme
    <3> QED
      BY <2>3, <2>5, <2>6, <2>7, <3>1, EmitGiven
  <2>10. CASE ws.ok /\ At(txt, u.pos) # NUL /\ u.in_fstring /\ u.depth > 0 /\ fstring_colon(txt, u)
    <3>1. ScanLexeme(txt, u, ws.ok) = scan_fstring_spec(txt, u)
      BY <2>10 DEF ScanLexeme
    <3>2. Given(txt, u, scan_fstring_spec(txt, u))
      BY <2>5, <2>10, SpecGiven
    <3> QED
      BY <2>3, <2>5, <2>6, <2>7, <3>1, <3>2, GivenFrom
  <2>11. CASE ws.ok /\ At(txt, u.pos) # NUL /\ ~(u.in_fstring /\ u.depth > 0 /\ fstring_colon(txt, u))
    <3>1. PICK x : x = scan_token(txt, u.pos)
      OBVIOUS
    <3>2. ScanLexeme(txt, u, ws.ok) = EmitLexeme(u, At(txt, u.pos), x)
      BY <2>11, <3>1 DEF ScanLexeme
    <3>3. Ahead(txt, u.pos, x)
      BY <2>7, <2>11, <3>1, TokenAhead
    <3>4. Given(txt, u, EmitLexeme(u, At(txt, u.pos), x))
      BY <2>5, <2>7, <3>3, LexemeGiven
    <3> QED
      BY <2>3, <2>5, <2>6, <2>7, <3>2, <3>4, GivenFrom
  <2> QED
    BY <2>8, <2>9, <2>10, <2>11
<1> QED
  BY <1>1, <1>2

-----------------------------------------------------------------------------
(* The #if frames. *)

\* No more frames than the array holds; a frame knows whether everything
\* around it is compiled, and is active only in that case.
Nested(c) ==
    /\ c \in Seq(Frames) /\ Len(c) <= MaxCond
    /\ \A n \in 1 .. Len(c) :
         /\ c[n].parent_active <=> \A k \in 1 .. (n - 1) : c[k].active
         /\ c[n].active => c[n].parent_active /\ c[n].branch_taken

\* The top frame speaks for all of them.
LEMMA EmittingMeans ==
    ASSUME NEW t, Nested(t.cond)
    PROVE  cond_is_emitting(t) <=> \A n \in 1 .. Len(t.cond) : t.cond[n].active
<1>1. Len(t.cond) \in Nat /\ t.cond \in Seq(Frames)
  BY DEF Nested
<1>2. CASE t.cond = <<>>
  BY <1>2 DEF cond_is_emitting
<1>3. CASE t.cond # <<>>
  <2>1. PICK l \in 1 .. Len(t.cond) : l = Len(t.cond)
    BY <1>1, <1>3, EmptySeq
  <2>2. cond_is_emitting(t) <=> t.cond[l].active
    BY <1>3, <2>1 DEF cond_is_emitting, Top
  <2>3. t.cond[l].active => \A k \in 1 .. (l - 1) : t.cond[k].active
    BY <2>1 DEF Nested
  <2> QED
    BY <1>1, <2>1, <2>2, <2>3
<1> QED
  BY <1>2, <1>3

\* #if opens a frame.
LEMMA PushNested ==
    ASSUME MaxCond \in Nat, NEW c, Nested(c), Len(c) < MaxCond, NEW f \in Frames,
           f.parent_active <=> \A k \in 1 .. Len(c) : c[k].active,
           f.active => f.parent_active /\ f.branch_taken
    PROVE  Nested(Append(c, f))
<1>1. c \in Seq(Frames) /\ Len(c) \in Nat
  BY DEF Nested
<1>2. PICK d : d = Append(c, f)
  OBVIOUS
<1>3. /\ d \in Seq(Frames) /\ Len(d) = Len(c) + 1 /\ d[Len(c) + 1] = f
      /\ \A n \in 1 .. Len(c) : d[n] = c[n]
  BY <1>1, <1>2
<1>4. ASSUME NEW n \in 1 .. Len(d)
      PROVE  /\ d[n].parent_active <=> \A k \in 1 .. (n - 1) : d[k].active
             /\ d[n].active => d[n].parent_active /\ d[n].branch_taken
  <2>1. CASE n = Len(c) + 1
    BY <1>1, <1>3, <2>1
  <2>2. CASE n \in 1 .. Len(c)
    <3>1. /\ c[n].parent_active <=> \A k \in 1 .. (n - 1) : c[k].active
          /\ c[n].active => c[n].parent_active /\ c[n].branch_taken
      BY <2>2 DEF Nested
    <3>2. \A k \in 1 .. (n - 1) : d[k] = c[k]
      BY <1>1, <1>3, <2>2
    <3> QED
      BY <1>3, <2>2, <3>1, <3>2
  <2> QED
    BY <1>1, <1>3, <2>1, <2>2
<1> QED
  BY <1>1, <1>2, <1>3, <1>4 DEF Nested

\* #else sets the top frame.
LEMMA FlipNested ==
    ASSUME MaxCond \in Nat, NEW c, Nested(c), c # <<>>, NEW f \in Frames,
           f.parent_active <=> c[Len(c)].parent_active,
           f.active => f.parent_active /\ f.branch_taken
    PROVE  Nested([c EXCEPT ![Len(c)] = f])
<1>1. c \in Seq(Frames) /\ Len(c) \in Nat
  BY DEF Nested
<1>2. PICK l \in 1 .. Len(c) : l = Len(c)
  BY <1>1, EmptySeq
<1>3. PICK d : d = [c EXCEPT ![Len(c)] = f]
  OBVIOUS
<1>4. /\ d \in Seq(Frames) /\ Len(d) = Len(c) /\ d[l] = f
      /\ \A n \in 1 .. (l - 1) : d[n] = c[n]
  BY <1>1, <1>2, <1>3
<1>5. ASSUME NEW n \in 1 .. Len(d)
      PROVE  /\ d[n].parent_active <=> \A k \in 1 .. (n - 1) : d[k].active
             /\ d[n].active => d[n].parent_active /\ d[n].branch_taken
  <2>1. /\ c[n].parent_active <=> \A k \in 1 .. (n - 1) : c[k].active
        /\ c[n].active => c[n].parent_active /\ c[n].branch_taken
    BY <1>4 DEF Nested
  <2>2. \A k \in 1 .. (n - 1) : d[k] = c[k]
    BY <1>1, <1>2, <1>4
  <2>3. n = l \/ n \in 1 .. (l - 1)
    BY <1>1, <1>2, <1>4
  <2> QED
    BY <1>2, <1>4, <2>1, <2>2, <2>3
<1> QED
  BY <1>1, <1>3, <1>4, <1>5 DEF Nested

\* #end drops the top frame.
LEMMA PopNested ==
    ASSUME MaxCond \in Nat, NEW c, Nested(c), c # <<>>
    PROVE  Nested(SubSeq(c, 1, Len(c) - 1))
<1>1. c \in Seq(Frames) /\ Len(c) \in Nat /\ Len(c) <= MaxCond
  BY DEF Nested
<1>2. PICK l \in Nat : l = Len(c) - 1
  BY <1>1, EmptySeq
<1>3. PICK d : d = SubSeq(c, 1, l)
  OBVIOUS
<1>4. d \in Seq(Frames) /\ Len(d) = l /\ \A n \in 1 .. l : d[n] = c[n]
  BY <1>1, <1>2, <1>3
<1>5. ASSUME NEW n \in 1 .. l
      PROVE  /\ d[n].parent_active <=> \A k \in 1 .. (n - 1) : d[k].active
             /\ d[n].active => d[n].parent_active /\ d[n].branch_taken
  <2>1. /\ c[n].parent_active <=> \A k \in 1 .. (n - 1) : c[k].active
        /\ c[n].active => c[n].parent_active /\ c[n].branch_taken
    BY <1>1, <1>2 DEF Nested
  <2>2. \A k \in 1 .. (n - 1) : d[k] = c[k]
    BY <1>2, <1>4
  <2> QED
    BY <1>4, <2>1, <2>2
<1>6. Len(d) <= MaxCond
  BY <1>1, <1>2, <1>4
<1> QED
  BY <1>2, <1>3, <1>4, <1>5, <1>6 DEF Nested

\* The scanner u stands where t stood but for its frames, which nest.
Reframed(txt, t, u) ==
    /\ u \in Scanners(txt) /\ u.pos = t.pos /\ u.in_fstring = t.in_fstring
    /\ u.depth = t.depth /\ (Nested(t.cond) => Nested(u.cond))

\* Other frames and nothing else.
LEMMA NewFrames ==
    ASSUME NEW txt \in Text, NEW t \in Scanners(txt), NEW c \in Seq(Frames),
           Nested(t.cond) => Nested(c)
    PROVE  Reframed(txt, t, [t EXCEPT !.cond = c])
<1>2. PICK u : u = [t EXCEPT !.cond = c]
  OBVIOUS
<1>3. u \in Scanners(txt)
  BY <1>2 DEF Scanners
<1>4. u.pos = t.pos /\ u.in_fstring = t.in_fstring /\ u.depth = t.depth /\ u.cond = c
  BY <1>2 DEF Scanners
<1> QED
  BY <1>2, <1>3, <1>4 DEF Reframed

\* #if, within the bound, keeps the frames nested.
LEMMA IfReframes ==
    ASSUME MaxCond \in Nat, NEW txt \in Text, NEW t \in Scanners(txt),
           Len(t.cond) < MaxCond, NEW arg
    PROVE  Reframed(txt, t, cond_if(t, arg))
<1>0. t.cond \in Seq(Frames)
  BY ScannerFields
<1>1. PICK emit \in BOOLEAN : emit <=> cond_is_emitting(t)
  BY Zenon DEF cond_is_emitting
<1>2. PICK active \in BOOLEAN : active <=> (emit /\ arg = <<cond_platform_name>>)
  OBVIOUS
<1>3. PICK f : f = [active |-> active, parent_active |-> emit, branch_taken |-> active]
  OBVIOUS
<1>4. f \in Frames /\ f.parent_active = emit /\ f.active = active /\ f.branch_taken = active
  BY <1>3 DEF Frames
<1>5. Nested(t.cond) => (emit <=> \A k \in 1 .. Len(t.cond) : t.cond[k].active)
  BY <1>1, EmittingMeans
<1>6. Append(t.cond, f) \in Seq(Frames) /\ (Nested(t.cond) => Nested(Append(t.cond, f)))
  BY <1>0, <1>2, <1>4, <1>5, PushNested
<1>7. cond_is_emitting(t) \in BOOLEAN
  BY Zenon DEF cond_is_emitting
<1>8. emit = cond_is_emitting(t)
  BY <1>1, <1>7
<1>9. active = (cond_is_emitting(t) /\ arg = <<cond_platform_name>>)
  BY <1>2, <1>8
<1>10. cond_if(t, arg) = [t EXCEPT !.cond = Append(t.cond, f)]
  BY <1>3, <1>8, <1>9 DEF cond_if
<1> QED
  BY <1>6, <1>10, NewFrames

\* #else inside a block keeps the frames nested.
LEMMA ElseReframes ==
    ASSUME MaxCond \in Nat, NEW txt \in Text, NEW t \in Scanners(txt),
           t.cond # <<>>
    PROVE  Reframed(txt, t, cond_else(t))
<1>1. t.cond \in Seq(Frames) /\ Len(t.cond) \in 1 .. Len(t.cond)
  BY ScannerFields, EmptySeq
<1>2. PICK g \in Frames : g = t.cond[Len(t.cond)]
  BY <1>1
<1>3. PICK active \in BOOLEAN : active = (g.parent_active /\ ~g.branch_taken)
  OBVIOUS
<1>4. PICK taken \in BOOLEAN : taken = (g.branch_taken \/ active)
  OBVIOUS
<1>5. PICK f : f = [g EXCEPT !.active = active, !.branch_taken = taken]
  OBVIOUS
<1>6. f \in Frames /\ f.active = active /\ f.parent_active = g.parent_active /\ f.branch_taken = taken
  BY <1>5 DEF Frames
<1>7. /\ [t.cond EXCEPT ![Len(t.cond)] = f] \in Seq(Frames)
      /\ Nested(t.cond) => Nested([t.cond EXCEPT ![Len(t.cond)] = f])
  <2>1. [t.cond EXCEPT ![Len(t.cond)] = f] \in Seq(Frames)
    BY <1>1, <1>6
  <2>2. Nested(t.cond) => Nested([t.cond EXCEPT ![Len(t.cond)] = f])
    BY <1>2, <1>3, <1>4, <1>6, FlipNested
  <2> QED
    BY <2>1, <2>2
<1>8. cond_else(t) = [t EXCEPT !.cond = [t.cond EXCEPT ![Len(t.cond)] = f]]
  BY <1>2, <1>3, <1>4, <1>5 DEF cond_else, Top
<1> QED
  BY <1>7, <1>8, NewFrames

\* What a directive leaves at the cursor p.
Consumed(txt, t, p, d) ==
    /\ d.s \in Scanners(txt) /\ d.s.pos = p /\ d.s.in_fstring = t.in_fstring
    /\ d.s.depth = t.depth /\ (Nested(t.cond) => Nested(d.s.cond))

\* Another cursor and nothing else.
LEMMA CursorSet ==
    ASSUME NEW txt \in Text, NEW t \in Scanners(txt), NEW p \in Positions(txt),
           NEW u, u = [t EXCEPT !.pos = p]
    PROVE  /\ u \in Scanners(txt) /\ u.pos = p /\ u.in_fstring = t.in_fstring
           /\ u.depth = t.depth /\ u.cond = t.cond
<1>1. u \in Scanners(txt)
  BY DEF Scanners
<1>2. /\ u.pos = p /\ u.in_fstring = t.in_fstring
      /\ u.depth = t.depth /\ u.cond = t.cond
  BY DEF Scanners
<1> QED
  BY <1>1, <1>2

\* A malformed directive leaves the frames alone.
LEMMA MalformedConsumed ==
    ASSUME NEW txt \in Text, NEW t \in Scanners(txt), NEW p \in Positions(txt)
    PROVE  Consumed(txt, t, p, Malformed(t, p))
<1>1. PICK u : u = [t EXCEPT !.pos = p]
  OBVIOUS
<1>2. Malformed(t, p).s = u
  BY <1>1 DEF Malformed
<1> QED
  BY <1>1, <1>2, CursorSet DEF Consumed

\* A well-formed directive leaves the frames it made.
LEMMA ObeyedConsumed ==
    ASSUME NEW txt \in Text, NEW t \in Scanners(txt), NEW p \in Positions(txt),
           NEW u, u = [t EXCEPT !.pos = p], NEW v, Reframed(txt, u, v)
    PROVE  Consumed(txt, t, p, Obeyed(v))
<1>1. Obeyed(v).s = v
  BY DEF Obeyed
<1>2. /\ u \in Scanners(txt) /\ u.pos = p /\ u.in_fstring = t.in_fstring
      /\ u.depth = t.depth /\ u.cond = t.cond
  BY CursorSet
<1> QED
  BY <1>1, <1>2 DEF Consumed, Reframed

\* #if: its argument may be missing, and the array full.
LEMMA IfConsumed ==
    ASSUME MaxCond \in Nat, NEW txt \in Text, NEW t \in Scanners(txt), NEW p \in Positions(txt),
           NEW arg
    PROVE  Consumed(txt, t, p, directive_if(t, p, arg))
<1>1. PICK u : u = [t EXCEPT !.pos = p]
  OBVIOUS
<1>2. u \in Scanners(txt) /\ u.cond = t.cond /\ Len(t.cond) \in Nat
  BY <1>1, CursorSet, ScannerFields
<1>3. CASE arg = <<>> \/ Len(t.cond) >= MaxCond
  BY <1>3, MalformedConsumed DEF directive_if
<1>4. CASE arg # <<>> /\ Len(t.cond) < MaxCond
  <2>1. directive_if(t, p, arg) = Obeyed(cond_if(u, arg))
    BY <1>1, <1>2, <1>4 DEF directive_if
  <2>2. Reframed(txt, u, cond_if(u, arg))
    BY <1>2, <1>4, IfReframes
  <2> QED
    BY <1>1, <2>1, <2>2, ObeyedConsumed
<1> QED
  BY <1>2, <1>3, <1>4

\* #else: there may be no block.
LEMMA ElseConsumed ==
    ASSUME MaxCond \in Nat, NEW txt \in Text, NEW t \in Scanners(txt), NEW p \in Positions(txt)
    PROVE  Consumed(txt, t, p, directive_else(t, p))
<1>1. PICK u : u = [t EXCEPT !.pos = p]
  OBVIOUS
<1>2. u \in Scanners(txt) /\ u.cond = t.cond
  BY <1>1, CursorSet
<1>3. CASE t.cond = <<>>
  BY <1>3, MalformedConsumed DEF directive_else
<1>4. CASE t.cond # <<>>
  <2>1. directive_else(t, p) = Obeyed(cond_else(u))
    BY <1>1, <1>4 DEF directive_else
  <2>2. Reframed(txt, u, cond_else(u))
    BY <1>2, <1>4, ElseReframes
  <2> QED
    BY <1>1, <2>1, <2>2, ObeyedConsumed
<1> QED
  BY <1>3, <1>4

\* #end: there may be no block.
LEMMA EndConsumed ==
    ASSUME MaxCond \in Nat, NEW txt \in Text, NEW t \in Scanners(txt), NEW p \in Positions(txt)
    PROVE  Consumed(txt, t, p, directive_end(t, p))
<1>1. PICK u : u = [t EXCEPT !.pos = p]
  OBVIOUS
<1>2. u \in Scanners(txt) /\ u.cond = t.cond
  BY <1>1, CursorSet
<1>3. CASE t.cond = <<>>
  BY <1>3, MalformedConsumed DEF directive_end
<1>4. CASE t.cond # <<>>
  <2>1. PICK c : c = SubSeq(t.cond, 1, Len(t.cond) - 1)
    OBVIOUS
  <2>2. directive_end(t, p) = Obeyed([u EXCEPT !.cond = c])
    BY <1>1, <1>4, <2>1 DEF directive_end
  <2>3. c \in Seq(Frames) /\ (Nested(t.cond) => Nested(c))
    <3>1. t.cond \in Seq(Frames) /\ Len(t.cond) - 1 \in Nat /\ Len(t.cond) - 1 <= Len(t.cond)
      BY <1>4, ScannerFields, EmptySeq
    <3> QED
      BY <1>4, <2>1, <3>1, PopNested
  <2>4. Reframed(txt, u, [u EXCEPT !.cond = c])
    BY <1>2, <2>3, NewFrames
  <2> QED
    BY <1>1, <2>2, <2>4, ObeyedConsumed
<1> QED
  BY <1>3, <1>4

\* A directive is consumed: the cursor passes at least its "#".
LEMMA DirectiveMoves ==
    ASSUME MaxCond \in Nat, NEW txt \in Text, NEW t \in Scanners(txt), At(txt, t.pos) # NUL
    PROVE  \E p \in Positions(txt) : p > t.pos /\ Consumed(txt, t, p, process_directive(txt, t))
<1> DEFINE i == directive_start(txt, t)
           w == SkipIn(txt, i, NameSymbols)
           word == SubSeq(txt, i, w - 1)
           a0 == SkipIn(txt, w, {SP})
           a == SkipIn(txt, a0, NameSymbols)
           arg == SubSeq(txt, a0, a - 1)
           l == SkipTo(txt, w, {NL})
<1>1. t.pos \in Nat /\ i = t.pos + 1 /\ i \in Positions(txt)
  BY ScannerFields, AtInside DEF directive_start
<1>2. w \in Positions(txt) /\ w >= i
  BY <1>1, NoNul, SkipInStops
<1>3. a0 \in Positions(txt) /\ a0 >= w
  BY <1>2, NoNul, SkipInStops
<1>4. a \in Positions(txt) /\ a >= a0
  BY <1>3, NoNul, SkipInStops
<1>5. l \in Positions(txt) /\ l >= w
  BY <1>2, SkipToStops
<1>6. process_directive(txt, t) \in {directive_if(t, a, arg), directive_else(t, w),
                                      directive_end(t, w), Malformed(t, i), Malformed(t, l)}
  BY DEF process_directive
<1> HIDE DEF i, w, a0, a, arg, l
<1>7. i \in Nat /\ w \in Nat /\ a0 \in Nat /\ a \in Nat /\ l \in Nat
  BY <1>1, <1>2, <1>3, <1>4, <1>5, PositionRange
<1>8. i > t.pos /\ w > t.pos /\ a > t.pos /\ l > t.pos
  BY <1>1, <1>2, <1>3, <1>4, <1>5, <1>7
<1>9. /\ Consumed(txt, t, a, directive_if(t, a, arg)) /\ Consumed(txt, t, w, directive_else(t, w))
      /\ Consumed(txt, t, w, directive_end(t, w))
      /\ Consumed(txt, t, i, Malformed(t, i)) /\ Consumed(txt, t, l, Malformed(t, l))
  BY <1>1, <1>2, <1>4, <1>5, IfConsumed, ElseConsumed, EndConsumed, MalformedConsumed
<1> QED
  BY <1>1, <1>2, <1>4, <1>5, <1>6, <1>8, <1>9

-----------------------------------------------------------------------------
(* scanner_next. *)

\* What one round of scanner_next leaves of the scanner t: a cursor that has
\* moved, unless the end is reported, and that is inside the source, unless
\* the round is the last; a depth and frames that keep their meaning.
Turned(txt, t, r) ==
    /\ r.s \in States
    /\ (Balanced(t) => Balanced(r.s)) /\ (Nested(t.cond) => Nested(r.s.cond))
    /\ (r.s.pos > t.pos \/ (r.tok.k = "EOF" /\ ~r.more /\ r.s.pos >= t.pos))
    /\ (r.s.pos <= Len(txt) + 1 \/ (Overrun(txt, r.s) /\ ~r.more /\ r.tok.k # "EOF"))

\* What a round is made of.
LEMMA RoundFields ==
    ASSUME NEW r, NEW more
    PROVE  Round(r, more).s = r.s /\ Round(r, more).tok = r.tok /\ Round(r, more).more = more
BY DEF Round

\* A round that starts behind the blank.
LEMMA LexemeTurns ==
    ASSUME MaxCond \in Nat, NEW txt \in Text, NEW t \in Scanners(txt)
    PROVE  Turned(txt, t, FromLexeme(txt, t, TRUE))
<1>1. CASE ~t.in_fstring /\ At(txt, t.pos) = "#"
  <2>1. PICK d : d = process_directive(txt, t)
    OBVIOUS
  <2>2. FromLexeme(txt, t, TRUE) = Round(Emit(d.s, "ERROR"), ~d.err)
    BY <1>1, <2>1 DEF FromLexeme, AfterDirective
  <2>3. At(txt, t.pos) # NUL
    BY <1>1 DEF NUL
  <2>4. PICK p \in Positions(txt) : p > t.pos /\ Consumed(txt, t, p, d)
    BY <2>1, <2>3, DirectiveMoves
  <2>5. /\ d.s \in Scanners(txt) /\ d.s.pos > t.pos /\ (Balanced(t) => Balanced(d.s))
        /\ Nested(t.cond) => Nested(d.s.cond)
    BY <2>4 DEF Consumed, Balanced
  <2>6. d.s \in States /\ d.s.pos <= Len(txt) + 1
    BY <2>5, ScannerFields
  <2>7. Round(Emit(d.s, "ERROR"), ~d.err).s = d.s
    BY RoundFields, EmitFields
  <2> QED
    BY <2>2, <2>5, <2>6, <2>7 DEF Turned
<1>2. CASE ~(~t.in_fstring /\ At(txt, t.pos) = "#")
  <2>1. PICK r : r = scanner_next_inner(txt, t)
    OBVIOUS
  <2>2. PICK more : more = ~(cond_is_emitting(t) \/ r.tok.k \in {"EOF", "ERROR"} \/ r.s.pos > Len(txt) + 1)
    OBVIOUS
  <2>3. PICK q : q = Round(r, more)
    OBVIOUS
  <2>4. FromLexeme(txt, t, TRUE) = q
    BY <1>2, <2>1, <2>2, <2>3 DEF FromLexeme, Kept
  <2>5. Given(txt, t, r)
    BY <2>1, InnerGiven
  <2>6. q.s = r.s /\ q.tok = r.tok /\ q.more = more
    BY <2>3, RoundFields
  <2>7. (r.tok.k = "EOF" => ~more) /\ (r.s.pos > Len(txt) + 1 => ~more)
    BY <2>2
  <2>8. Len(txt) \in Nat /\ r.s.pos \in Nat
    BY <2>5, PositionRange DEF Given, States
  <2>9. Overrun(txt, r.s) => r.s.pos > Len(txt) + 1
    BY <2>8 DEF Overrun
  <2> QED
    BY <2>4, <2>5, <2>6, <2>7, <2>9 DEF Given, Turned
<1> QED
  BY <1>1, <1>2

\* A round that starts further on is a round from here.
LEMMA TurnedFrom ==
    ASSUME NEW txt \in Text, NEW t \in Scanners(txt), NEW u \in Scanners(txt), NEW r,
           u.pos >= t.pos, u.cond = t.cond, Balanced(t) => Balanced(u), Turned(txt, u, r)
    PROVE  Turned(txt, t, r)
<1>1. t.pos \in Nat /\ u.pos \in Nat
  BY ScannerFields
<1>2. r.s.pos \in Nat
  BY DEF Turned, States
<1> QED
  BY <1>1, <1>2 DEF Turned

\* A round of scanner_next.
LEMMA RoundTurns ==
    ASSUME MaxCond \in Nat, NEW txt \in Text, NEW t \in Scanners(txt)
    PROVE  Turned(txt, t, ScanRound(txt, t))
<1>1. CASE TextMode(t)
  BY <1>1, LexemeTurns DEF ScanRound
<1>2. CASE ~TextMode(t)
  <2>1. PICK ws : ws = skip_whitespace(txt, t.pos)
    OBVIOUS
  <2>2. t.pos \in Positions(txt) /\ t.pos \in Nat
    BY ScannerFields
  <2>3. ws.to \in Positions(txt) /\ ws.to \in Nat /\ ws.to >= t.pos /\ (~ws.ok => ws.to > t.pos)
        /\ ws.ok \in BOOLEAN
    BY <2>1, <2>2, SpaceEnds, PositionRange DEF Spaces
  <2>4. PICK u : u = MoveTo(txt, t, ws.to)
    OBVIOUS
  <2>5. /\ u \in Scanners(txt) /\ u.pos = ws.to /\ u.in_fstring = t.in_fstring
        /\ u.depth = t.depth /\ u.cond = t.cond
    BY <2>3, <2>4, MoveToFields
  <2>6. ScanRound(txt, t) = FromLexeme(txt, u, ws.ok)
    BY <1>2, <2>1, <2>4 DEF ScanRound, PastSpace
  <2>7. u \in States /\ u.pos <= Len(txt) + 1 /\ (Balanced(t) => Balanced(u))
    BY <2>5, ScannerFields DEF Balanced
  <2>8. CASE ~ws.ok
    <3>1. FromLexeme(txt, u, ws.ok) = Round(Emit(u, "ERROR"), FALSE)
      BY <2>8 DEF FromLexeme
    <3>2. Round(Emit(u, "ERROR"), FALSE).s = u
      BY DEF Round, Emit
    <3> QED
      BY <2>3, <2>5, <2>6, <2>7, <2>8, <3>1, <3>2 DEF Turned
  <2>9. CASE ws.ok
    <3>1. ws.ok = TRUE
      BY <2>3, <2>9
    <3>2. Turned(txt, u, ScanRound(txt, t))
      BY <2>5, <2>6, <3>1, LexemeTurns
    <3> QED
      BY <2>3, <2>5, <2>7, <3>2, TurnedFrom
  <2> QED
    BY <2>8, <2>9
<1> QED
  BY <1>1, <1>2

\* One call of scanner_next: it ends, with a cursor that has moved unless the
\* end is reported.
LEMMA NextTurns ==
    ASSUME MaxCond \in Nat, NEW txt \in Text, NEW t \in Scanners(txt), Balanced(t), Nested(t.cond)
    PROVE  LET r == scanner_next(txt, t)
           IN  /\ r.s \in States /\ Balanced(r.s) /\ Nested(r.s.cond)
               /\ (r.s.pos > t.pos \/ (r.tok.k = "EOF" /\ r.s.pos >= t.pos))
               /\ (r.s.pos <= Len(txt) + 1 \/ (Overrun(txt, r.s) /\ r.tok.k # "EOF"))
<1> DEFINE S == Scanners(txt)
           done == [u \in S |-> ~ScanRound(txt, u).more]
           step == [u \in S |-> ScanRound(txt, u).s]
           I == {u \in S : u.pos >= t.pos /\ Balanced(u) /\ Nested(u.cond)}
           m == [u \in S |-> Len(txt) + 1 - u.pos]
<1>1. \A u \in S : u.pos \in Nat /\ u.pos <= Len(txt) + 1 /\ Len(txt) \in Nat
  BY ScannerFields, PositionRange
<1>2. ASSUME NEW u \in S, ~done[u]
      PROVE  /\ step[u] \in S /\ step[u].pos > u.pos
             /\ (Balanced(u) => Balanced(step[u])) /\ (Nested(u.cond) => Nested(step[u].cond))
  <2>1. PICK r : r = ScanRound(txt, u)
    OBVIOUS
  <2>2. Turned(txt, u, r) /\ r.more /\ step[u] = r.s
    BY <1>2, <2>1, RoundTurns
  <2>3. r.s \in S
    BY <2>2, ScannerFields DEF Turned
  <2> HIDE DEF S, step
  <2> QED
    BY <2>2, <2>3 DEF Turned
<1>3. m \in [S -> Nat] /\ I \in SUBSET S /\ t \in I
  BY <1>1
<1>4. \A u \in I : ~done[u] => step[u] \in I /\ m[step[u]] < m[u]
  <2> TAKE u \in I
  <2> HAVE ~done[u]
  <2>1. u \in S /\ u.pos >= t.pos /\ t \in S
    OBVIOUS
  <2>2. /\ step[u] \in S /\ step[u].pos > u.pos
        /\ Balanced(step[u]) /\ Nested(step[u].cond)
    BY <1>2
  <2> HIDE DEF S, done, step
  <2> QED
    BY <1>1, <2>1, <2>2
<1>5. PICK e : e = Iterate(S, done, step, t)
  OBVIOUS
<1>6. scanner_next(txt, t) = ScanRound(txt, e)
  BY <1>5 DEF scanner_next
<1> HIDE DEF done, step, I, m, S
<1>7. \A z \in I : LET v == Iterate(S, done, step, z) IN v \in I /\ done[v]
  BY <1>2, <1>3, <1>4, WhileRule
<1>8. e \in I
  BY <1>3, <1>5, <1>7
<1>9. e \in Scanners(txt) /\ e.pos >= t.pos /\ Balanced(e) /\ Nested(e.cond) /\ e.pos \in Nat /\ t.pos \in Nat
  BY <1>1, <1>8 DEF I, S
<1>10. PICK r : r = ScanRound(txt, e)
  OBVIOUS
<1>11. Turned(txt, e, r) /\ r.s.pos \in Nat
  BY <1>9, <1>10, RoundTurns DEF Turned, States
<1> QED
  BY <1>6, <1>9, <1>10, <1>11 DEF Turned

-----------------------------------------------------------------------------
(* The scan of a text. *)

\* A list of any elements.
Listed(q) == Len(q) \in Nat /\ q = [n \in 1 .. Len(q) |-> q[n]]

\* The inductive invariant: the cursor is inside the source or has overrun it,
\* and every token but the last one, the end, has moved it.
ScanInv ==
    /\ src \in Text /\ Listed(toks)
    /\ s \in States /\ Balanced(s) /\ Nested(s.cond)
    /\ mode = "write" => s.pos = 1
    /\ s.pos <= Len(src) + 1 \/ (Overrun(src, s) /\ mode # "done")
    /\ Len(toks) <= IF mode = "done" THEN s.pos ELSE s.pos - 1

\* The cursor leaves the source in one way only: an f-string without its
\* closing quote, whose text takes the terminating NUL for an opening brace.
LeavesByOverrun == s.pos <= Len(src) + 1 \/ Overrun(src, s)

\* cond_is_emitting looks at the top frame alone, and that says whether every
\* open block is in its selected branch; there are no more frames than fit.
FramesAgree ==
    /\ Len(s.cond) <= MaxCond
    /\ cond_is_emitting(s) <=> \A n \in 1 .. Len(s.cond) : s.cond[n].active

\* A text has at most one token for each symbol, and the end: a parser that
\* keeps calling scanner_next gets to the end in that many calls.
TokensBounded == Len(toks) <= Len(src) + 1

\* scanner_init.
LEMMA ScanInit == ASSUME MaxCond \in Nat PROVE Init => ScanInv
<1> SUFFICES ASSUME Init PROVE ScanInv
  OBVIOUS
<1>1. src = <<>> /\ s = scanner_init /\ mode = "write" /\ toks = <<>>
  BY DEF Init
<1>2. src \in Text /\ Len(src) = 0 /\ Len(toks) = 0
  BY <1>1 DEF Text
<1>3. s.pos = 1 /\ s.cond = <<>> /\ s.depth = 0
  BY <1>1 DEF scanner_init
<1>4. s \in States
  BY <1>1 DEF scanner_init, States
<1>5. Nested(s.cond)
  BY <1>3 DEF Nested
<1>6. Listed(toks)
  BY <1>1, <1>2 DEF Listed
<1> QED
  BY <1>1, <1>2, <1>3, <1>4, <1>5, <1>6 DEF ScanInv, Balanced

\* One more element.
LEMMA ListedAppend ==
    ASSUME NEW q, Listed(q), NEW x
    PROVE  Listed(Append(q, x)) /\ Len(Append(q, x)) = Len(q) + 1
<1> DEFINE E == {q[n] : n \in 1 .. Len(q)} \cup {x}
<1>1. q \in Seq(E) /\ x \in E
  <2>1. Len(q) \in Nat /\ [n \in 1 .. Len(q) |-> q[n]] \in [1 .. Len(q) -> E]
    BY DEF Listed
  <2>2. q \in [1 .. Len(q) -> E]
    BY <2>1 DEF Listed
  <2> HIDE DEF E
  <2>3. q \in Seq(E)
    BY <2>1, <2>2
  <2> QED
    BY <2>3 DEF E
<1> HIDE DEF E
<1>2. Append(q, x) \in Seq(E) /\ Len(Append(q, x)) = Len(q) + 1
  BY <1>1
<1>3. Append(q, x) = [n \in 1 .. Len(Append(q, x)) |-> Append(q, x)[n]]
  <2>1. \A z \in Seq(E) : z = [n \in 1 .. Len(z) |-> z[n]]
    OBVIOUS
  <2> QED
    BY <1>2, <2>1, Zenon
<1>4. Len(Append(q, x)) \in Nat
  BY <1>2
<1> QED
  BY <1>2, <1>3, <1>4 DEF Listed

\* Writing leaves the scanner alone.
LEMMA PutKeeps ==
    ASSUME ScanInv, NEW text \in Text, NEW wt, Put(text, wt)
    PROVE  ScanInv'
<1>1. src \in Text /\ src' = src \o text /\ mode = "write" /\ mode' = mode /\ s' = s /\ toks' = toks
  BY DEF Put, ScanInv
<1>2. src' \in Text /\ Len(src') \in Nat
  BY <1>1 DEF Text
<1>3. s.pos = 1
  BY <1>1 DEF ScanInv
<1> QED
  BY <1>1, <1>2, <1>3 DEF ScanInv, Listed

\* What a step of Scan does.
LEMMA ScanTurns ==
    ASSUME MaxCond \in Nat, ScanInv, Scan
    PROVE  /\ ScanInv' /\ s'.pos >= s.pos
           /\ mode' = "done" \/ s'.pos > s.pos
<1>1. PICK r : r = scanner_next(src, s)
  OBVIOUS
<1>2. /\ s' = r.s /\ src' = src /\ mode = "scan" /\ s.pos <= Len(src) + 1
      /\ toks' = Append(toks, r.tok)
      /\ mode' = IF r.tok.k = "EOF" THEN "done" ELSE "scan"
  BY <1>1 DEF Scan
<1>3. src \in Text /\ s \in Scanners(src) /\ Balanced(s) /\ Nested(s.cond) /\ s.pos \in Nat
  BY <1>2, ScannerFields DEF ScanInv
<1>4. /\ r.s \in States /\ Balanced(r.s) /\ Nested(r.s.cond)
      /\ (r.s.pos > s.pos \/ (r.tok.k = "EOF" /\ r.s.pos >= s.pos))
      /\ (r.s.pos <= Len(src) + 1 \/ (Overrun(src, r.s) /\ r.tok.k # "EOF"))
  BY <1>1, <1>3, NextTurns
<1>5. r.s.pos \in Nat
  BY <1>4 DEF States
<1>6. /\ Listed(toks') /\ Len(toks') = Len(toks) + 1 /\ Len(toks) \in Nat
      /\ Len(toks) <= s.pos - 1
  BY <1>2, ListedAppend DEF ScanInv, Listed
<1>7. Len(toks') <= IF mode' = "done" THEN s'.pos ELSE s'.pos - 1
  BY <1>2, <1>3, <1>4, <1>5, <1>6
<1>8. mode' # "write" /\ (mode' = "done" => r.tok.k = "EOF")
  BY <1>2
<1>9. ScanInv'
  BY <1>2, <1>3, <1>4, <1>6, <1>7, <1>8 DEF ScanInv
<1> QED
  BY <1>2, <1>3, <1>4, <1>5, <1>9

\* The symbols that ScanText itself writes are in the alphabet.
LEMMA DirectiveSymbols ==
    /\ SP \in Symbols /\ NL \in Symbols /\ "#" \in Symbols
    /\ \A w \in {"if", "else", "end", "LINUX", "WINDOWS"} : w \in Symbols
<1>1. SP \in Symbols /\ NL \in Symbols /\ "#" \in Symbols
  BY DEF Symbols
<1>2. \A w \in {"if", "else", "end", "LINUX", "WINDOWS"} : w \in Words
  BY DEF Words
<1>3. Words \subseteq Symbols
  BY DEF Symbols, NameSymbols
<1> QED
  BY <1>1, <1>2, <1>3

\* Every step keeps the invariant.
LEMMA ScanNext == ASSUME MaxCond \in Nat, ScanInv, [Next]_vars PROVE ScanInv'
<1>1. CASE UNCHANGED vars
  BY <1>1 DEF vars, ScanInv, Listed
<1>2. ASSUME NEW l \in Lexemes, PutLexeme(l) PROVE ScanInv'
  <2>1. l.text \in Seq(Symbols)
    BY TextAssumption
  <2>2. Append(l.text, SP) \in Text
    BY <2>1, DirectiveSymbols DEF Text
  <2> QED
    BY <1>2, <2>2, PutKeeps DEF PutLexeme
<1>3. ASSUME NEW f \in Fragments, PutFragment(f) PROVE ScanInv'
  <2>1. f \in Text
    BY TextAssumption DEF Text
  <2> QED
    BY <1>3, <2>1, PutKeeps DEF PutFragment
<1>4. ASSUME NEW p \in {"LINUX", "WINDOWS"}, PutIf(p) PROVE ScanInv'
  <2>1. <<"#", "if", SP, p, NL>> \in Text
    BY DirectiveSymbols DEF Text
  <2> QED
    BY <1>4, <2>1, PutKeeps DEF PutIf
<1>5. CASE PutElse
  <2>1. <<"#", "else", NL>> \in Text
    BY DirectiveSymbols DEF Text
  <2> QED
    BY <1>5, <2>1, PutKeeps DEF PutElse
<1>6. CASE PutEnd
  <2>1. <<"#", "end", NL>> \in Text
    BY DirectiveSymbols DEF Text
  <2> QED
    BY <1>6, <2>1, PutKeeps DEF PutEnd
<1>7. CASE StartScan
  BY <1>7 DEF StartScan, ScanInv, Listed
<1>8. CASE Scan
  BY <1>8, ScanTurns
<1> QED
  BY <1>1, <1>2, <1>3, <1>4, <1>5, <1>6, <1>7, <1>8 DEF Next

\* Whatever the text, the scanner's state keeps its meaning (scanner.h:8-32).
THEOREM ScannerInvariant == Spec => []ScanInv
<1>1. Init => ScanInv
  BY TextAssumption, ScanInit
<1>2. ScanInv /\ [Next]_vars => ScanInv'
  BY TextAssumption, ScanNext
<1> QED
  BY <1>1, <1>2, PTL DEF Spec

\* Every call of scanner_next ends, and moves the cursor unless it reports the
\* end (scanner.c:585-617).
THEOREM ScannerMoves == Spec => ScanMoves
<1>1. ScanInv /\ [Next]_vars => [(mode = "scan" /\ mode' # "done") => s'.pos > s.pos]_vars
  <2> SUFFICES ASSUME ScanInv, Next, mode = "scan", mode' # "done" PROVE s'.pos > s.pos
    OBVIOUS
  <2>1. Scan
    BY DEF Next, PutLexeme, PutFragment, PutIf, PutElse, PutEnd, Put, StartScan
  <2> QED
    BY <2>1, TextAssumption, ScanTurns
<1> QED
  BY <1>1, ScannerInvariant, PTL DEF Spec, ScanMoves

\* The cursor stays inside the source, but for the NUL that scan_fstring_text
\* takes for a brace (scanner.c:470-473).
THEOREM ScannerStaysInside == Spec => []LeavesByOverrun
<1>1. ScanInv => LeavesByOverrun
  BY DEF ScanInv, LeavesByOverrun
<1> QED
  BY <1>1, ScannerInvariant, PTL

\* cond_is_emitting means what its comment says, "all enclosing conditional
\* frames have active=true" (scanner.c:503-504), and cond_stack never overflows.
THEOREM ScannerFrames == Spec => []FramesAgree
<1>1. ScanInv => FramesAgree
  <2> SUFFICES ASSUME ScanInv PROVE FramesAgree
    OBVIOUS
  <2>1. Nested(s.cond)
    BY DEF ScanInv
  <2> QED
    BY <2>1, EmittingMeans DEF FramesAgree, Nested
<1> QED
  BY <1>1, ScannerInvariant, PTL

\* Every text has at most one token per symbol, and the end, so that many calls
\* of scanner_next are enough for any parser.
THEOREM ScannerTokens == Spec => []TokensBounded
<1>1. ScanInv => TokensBounded
  <2> SUFFICES ASSUME ScanInv PROVE TokensBounded
    OBVIOUS
  <2>1. s.pos \in Nat /\ Len(src) \in Nat /\ Len(toks) \in Nat
    BY PositionRange DEF ScanInv, States, Listed
  <2>2. s.pos <= Len(src) + 2
    BY <2>1 DEF ScanInv, Overrun
  <2>3. CASE mode = "done"
    BY <2>1, <2>3 DEF ScanInv, TokensBounded
  <2>4. CASE mode # "done"
    BY <2>1, <2>2, <2>4 DEF ScanInv, TokensBounded
  <2> QED
    BY <2>3, <2>4
<1> QED
  BY <1>1, ScannerInvariant, PTL
=============================================================================
