--------------------------- MODULE AstHeapProofs ----------------------------
(***************************************************************************)
(* Machine-checked proof that trees of ast.c are freed once and cloned     *)
(* whole: for every program the parser builds and every sequence of clones,*)
(* annotations, lowerings, desugarings and frees, no tree still held       *)
(* reaches freed memory, nothing is freed twice, nothing is lost, and a    *)
(* clone carries every text of its source.  The proof rests on two facts   *)
(* about the tables: ast_free releases every field a node has, and         *)
(* ast_clone_deep copies or clears each one.                               *)
(***************************************************************************)
EXTENDS AstHeap, FiniteSetTheorems

-----------------------------------------------------------------------------
(* What a set of allocations reaches. *)

\* Below is the least set that contains X and is closed under the edges E.
LEMMA BelowLeast ==
    ASSUME NEW E, IsFiniteSet(DOMAIN E), \A a \in DOMAIN E : E[a] \subseteq DOMAIN E,
           NEW X \in SUBSET DOMAIN E
    PROVE  LET B == Below(E, X)
           IN  /\ B \in SUBSET DOMAIN E /\ X \subseteq B
               /\ \A a \in B : E[a] \subseteq B
               /\ \A Z \in SUBSET DOMAIN E :
                    X \subseteq Z /\ (\A a \in Z : E[a] \subseteq Z) => B \subseteq Z
<1> DEFINE D == DOMAIN E
           S == SUBSET D
           done == [Y \in S |-> Ends(E, Y) \subseteq Y]
           step == [Y \in S |-> Y \cup Ends(E, Y)]
           Outer == {Z \in S : X \subseteq Z /\ \A a \in Z : E[a] \subseteq Z}
           I == {Y \in S : X \subseteq Y /\ \A Z \in Outer : Y \subseteq Z}
           m == [Y \in S |-> Cardinality(D \ Y)]
<1>1. \A Y \in S : Ends(E, Y) \subseteq D
  BY DEF Ends
<1>2. \A Y \in S : ~done[Y] => step[Y] \in S
  BY <1>1
<1>3. m \in [S -> Nat]
  <2>1. \A Y \in S : Cardinality(D \ Y) \in Nat
    BY FS_Subset, FS_CardinalityType
  <2> QED
    BY <2>1
<1>4. \A Y \in I : ~done[Y] => step[Y] \in I /\ m[step[Y]] < m[Y]
  <2> SUFFICES ASSUME NEW Y \in I, ~done[Y] PROVE step[Y] \in I /\ m[step[Y]] < m[Y]
    OBVIOUS
  <2>1. Y \in S /\ step[Y] = Y \cup Ends(E, Y) /\ step[Y] \in S /\ ~(Ends(E, Y) \subseteq Y)
    BY <1>2
  <2>2. \A Z \in Outer : Ends(E, Y) \subseteq Z
    BY DEF Ends
  <2>3. step[Y] \in I
    BY <2>1, <2>2
  <2> DEFINE P == D \ Y
             Q == D \ step[Y]
  <2>4. Q \subseteq P /\ Q # P /\ IsFiniteSet(P) /\ P \subseteq D
    <3>1. PICK x \in Ends(E, Y) : x \notin Y
      BY <2>1
    <3>2. x \in D /\ x \in step[Y]
      BY <1>1, <2>1, <3>1
    <3> QED
      BY <2>1, <3>1, <3>2, FS_Subset
  <2>5. Cardinality(Q) < Cardinality(P)
    <3>1. Cardinality(Q) <= Cardinality(P) /\ (Cardinality(P) = Cardinality(Q) => P = Q) /\ IsFiniteSet(Q)
      BY <2>4, FS_Subset
    <3>2. Cardinality(P) \in Nat /\ Cardinality(Q) \in Nat
      BY <2>4, <3>1, FS_CardinalityType
    <3> HIDE DEF P, Q
    <3> QED
      BY <2>4, <3>1, <3>2
  <2> QED
    BY <2>1, <2>3, <2>5
<1>5. X \in I /\ I \in SUBSET S
  OBVIOUS
<1>6. Below(E, X) = Iterate(S, done, step, X)
  BY DEF Below
<1> HIDE DEF I, m
<1>7. \A x \in I : LET e == Iterate(S, done, step, x) IN e \in I /\ done[e]
  <2> HIDE DEF S, done, step
  <2> QED
    BY <1>2, <1>3, <1>4, <1>5, WhileRule
<1>8. Below(E, X) \in I /\ done[Below(E, X)]
  BY <1>5, <1>6, <1>7
<1>9. /\ Below(E, X) \in S /\ X \subseteq Below(E, X) /\ Ends(E, Below(E, X)) \subseteq Below(E, X)
      /\ \A Z \in Outer : Below(E, X) \subseteq Z
  BY <1>8 DEF I
<1> QED
  BY <1>9 DEF Ends

-----------------------------------------------------------------------------
(* The tables.  Facts about a table are stated kind by kind. *)

\* Finitely many fields, each with a name.
Few(fs) == IsFiniteSet(fs) /\ "" \notin fs

\* No field is listed in more than nine of a node.
LEMMA FewFinite ==
    /\ \A a : IsFiniteSet({a})
    /\ \A a, b : IsFiniteSet({a, b})
    /\ \A a, b, c : IsFiniteSet({a, b, c})
    /\ \A a, b, c, d : IsFiniteSet({a, b, c, d})
    /\ \A a, b, c, d, e : IsFiniteSet({a, b, c, d, e})
    /\ \A a, b, c, d, e, f : IsFiniteSet({a, b, c, d, e, f})
    /\ \A a, b, c, d, e, f, g, h : IsFiniteSet({a, b, c, d, e, f, g, h})
    /\ \A a, b, c, d, e, f, g, h, i : IsFiniteSet({a, b, c, d, e, f, g, h, i})
<1>1. \A a : IsFiniteSet({a})
  BY FS_Singleton
<1>2. ASSUME NEW A, IsFiniteSet(A), NEW B, IsFiniteSet(B), NEW C, C = A \cup B PROVE IsFiniteSet(C)
  BY <1>2, FS_Union
<1>3. \A a, b : IsFiniteSet({a, b})
  <2> TAKE a, b
  <2>1. {a, b} = {a} \cup {b}
    OBVIOUS
  <2>2. IsFiniteSet({a}) /\ IsFiniteSet({b})
    BY <1>1
  <2> QED
    BY <1>2, <2>1, <2>2
<1>4. \A a, b, c : IsFiniteSet({a, b, c})
  <2> TAKE a, b, c
  <2>1. {a, b, c} = {a, b} \cup {c}
    OBVIOUS
  <2>2. IsFiniteSet({a, b}) /\ IsFiniteSet({c})
    BY <1>3, <1>1
  <2> QED
    BY <1>2, <2>1, <2>2
<1>5. \A a, b, c, d : IsFiniteSet({a, b, c, d})
  <2> TAKE a, b, c, d
  <2>1. {a, b, c, d} = {a, b} \cup {c, d}
    OBVIOUS
  <2>2. IsFiniteSet({a, b}) /\ IsFiniteSet({c, d})
    BY <1>3
  <2> QED
    BY <1>2, <2>1, <2>2
<1>6. \A a, b, c, d, e : IsFiniteSet({a, b, c, d, e})
  <2> TAKE a, b, c, d, e
  <2>1. {a, b, c, d, e} = {a, b, c} \cup {d, e}
    OBVIOUS
  <2>2. IsFiniteSet({a, b, c}) /\ IsFiniteSet({d, e})
    BY <1>4, <1>3
  <2> QED
    BY <1>2, <2>1, <2>2
<1>7. \A a, b, c, d, e, f : IsFiniteSet({a, b, c, d, e, f})
  <2> TAKE a, b, c, d, e, f
  <2>1. {a, b, c, d, e, f} = {a, b, c} \cup {d, e, f}
    OBVIOUS
  <2>2. IsFiniteSet({a, b, c}) /\ IsFiniteSet({d, e, f})
    BY <1>4
  <2> QED
    BY <1>2, <2>1, <2>2
<1>8. \A a, b, c, d, e, f, g, h : IsFiniteSet({a, b, c, d, e, f, g, h})
  <2> TAKE a, b, c, d, e, f, g, h
  <2>1. {a, b, c, d, e, f, g, h} = {a, b, c, d} \cup {e, f, g, h}
    OBVIOUS
  <2>2. IsFiniteSet({a, b, c, d}) /\ IsFiniteSet({e, f, g, h})
    BY <1>5
  <2> QED
    BY <1>2, <2>1, <2>2
<1>9. \A a, b, c, d, e, f, g, h, i : IsFiniteSet({a, b, c, d, e, f, g, h, i})
  <2> TAKE a, b, c, d, e, f, g, h, i
  <2>1. {a, b, c, d, e, f, g, h, i} = {a, b, c, d, e} \cup {f, g, h, i}
    OBVIOUS
  <2>2. IsFiniteSet({a, b, c, d, e}) /\ IsFiniteSet({f, g, h, i})
    BY <1>6, <1>5
  <2> QED
    BY <1>2, <2>1, <2>2
<1> QED
  BY <1>1, <1>3, <1>4, <1>5, <1>6, <1>7, <1>8, <1>9

\* The kinds both switches treat alike, by the tables they are in.
SimpleExpr == {
    "AST_STRING_LIT", "AST_IDENT", "AST_UNARY", "AST_MUT_BORROW", "AST_CALL", "AST_INDEX",
    "AST_FIELD"}
SimpleStmt == {
    "AST_RETURN", "AST_EXPR_STMT", "AST_BLOCK", "AST_VAR_DECL", "AST_ASSIGN", "AST_IF", "AST_WHILE"}
NestedExpr == {
    "AST_CAST", "AST_SIZEOF", "AST_TYPENAME", "AST_TRY", "AST_FORCE_UNWRAP", "AST_RANGE",
    "AST_FORMAT_STRING", "AST_ARRAY_LIT", "AST_MAP_LIT", "AST_MATCH"}
NestedStmt == {
    "AST_FOR_C", "AST_COMPTIME_FOR", "AST_COMPTIME_IF", "AST_COMPTIME_FIELD", "AST_COMPTIME_MATCH",
    "AST_COMPTIME_CONST", "AST_COMPTIME_BLOCK"}
PatternExpr == {
    "AST_MATCH_OR_PATTERN", "AST_MATCH_BIT_PATTERN", "AST_MATCH_BIT_PATTERN_SEQ"}
LateExpr == {
    "AST_AT_TIME", "AST_AT_BENCH", "AST_LOAD_LIB", "AST_FFI_CALL"}

\* ast_clone_deep copies what ast_free releases: CopiedSimple and FreedExpr.
LEMMA SimpleExprAgree == \A k \in SimpleExpr : CopiedSimple[k] = FreedExpr[k]
<1>1. CopiedSimple["AST_STRING_LIT"] = FreedExpr["AST_STRING_LIT"]
  BY DEF CopiedSimple, FreedExpr
<1>2. CopiedSimple["AST_IDENT"] = FreedExpr["AST_IDENT"]
  BY DEF CopiedSimple, FreedExpr
<1>3. CopiedSimple["AST_UNARY"] = FreedExpr["AST_UNARY"]
  BY DEF CopiedSimple, FreedExpr
<1>4. CopiedSimple["AST_MUT_BORROW"] = FreedExpr["AST_MUT_BORROW"]
  BY DEF CopiedSimple, FreedExpr
<1>5. CopiedSimple["AST_CALL"] = FreedExpr["AST_CALL"]
  BY DEF CopiedSimple, FreedExpr
<1>6. CopiedSimple["AST_INDEX"] = FreedExpr["AST_INDEX"]
  BY DEF CopiedSimple, FreedExpr
<1>7. CopiedSimple["AST_FIELD"] = FreedExpr["AST_FIELD"]
  BY DEF CopiedSimple, FreedExpr
<1> QED
  BY <1>1, <1>2, <1>3, <1>4, <1>5, <1>6, <1>7 DEF SimpleExpr

\* ast_clone_deep copies what ast_free releases: CopiedSimple and FreedStmt.
LEMMA SimpleStmtAgree == \A k \in SimpleStmt : CopiedSimple[k] = FreedStmt[k]
<1>1. CopiedSimple["AST_RETURN"] = FreedStmt["AST_RETURN"]
  BY DEF CopiedSimple, FreedStmt
<1>2. CopiedSimple["AST_EXPR_STMT"] = FreedStmt["AST_EXPR_STMT"]
  BY DEF CopiedSimple, FreedStmt
<1>3. CopiedSimple["AST_BLOCK"] = FreedStmt["AST_BLOCK"]
  BY DEF CopiedSimple, FreedStmt
<1>4. CopiedSimple["AST_VAR_DECL"] = FreedStmt["AST_VAR_DECL"]
  BY DEF CopiedSimple, FreedStmt
<1>5. CopiedSimple["AST_ASSIGN"] = FreedStmt["AST_ASSIGN"]
  BY DEF CopiedSimple, FreedStmt
<1>6. CopiedSimple["AST_IF"] = FreedStmt["AST_IF"]
  BY DEF CopiedSimple, FreedStmt
<1>7. CopiedSimple["AST_WHILE"] = FreedStmt["AST_WHILE"]
  BY DEF CopiedSimple, FreedStmt
<1> QED
  BY <1>1, <1>2, <1>3, <1>4, <1>5, <1>6, <1>7 DEF SimpleStmt

\* ast_clone_deep copies what ast_free releases: CopiedNested and FreedExpr.
LEMMA NestedExprAgree == \A k \in NestedExpr : CopiedNested[k] = FreedExpr[k]
<1>1. CopiedNested["AST_CAST"] = FreedExpr["AST_CAST"]
  BY DEF CopiedNested, FreedExpr
<1>2. CopiedNested["AST_SIZEOF"] = FreedExpr["AST_SIZEOF"]
  BY DEF CopiedNested, FreedExpr
<1>3. CopiedNested["AST_TYPENAME"] = FreedExpr["AST_TYPENAME"]
  BY DEF CopiedNested, FreedExpr
<1>4. CopiedNested["AST_TRY"] = FreedExpr["AST_TRY"]
  BY DEF CopiedNested, FreedExpr
<1>5. CopiedNested["AST_FORCE_UNWRAP"] = FreedExpr["AST_FORCE_UNWRAP"]
  BY DEF CopiedNested, FreedExpr
<1>6. CopiedNested["AST_RANGE"] = FreedExpr["AST_RANGE"]
  BY DEF CopiedNested, FreedExpr
<1>7. CopiedNested["AST_FORMAT_STRING"] = FreedExpr["AST_FORMAT_STRING"]
  BY DEF CopiedNested, FreedExpr
<1>8. CopiedNested["AST_ARRAY_LIT"] = FreedExpr["AST_ARRAY_LIT"]
  BY DEF CopiedNested, FreedExpr
<1>9. CopiedNested["AST_MAP_LIT"] = FreedExpr["AST_MAP_LIT"]
  BY DEF CopiedNested, FreedExpr
<1>10. CopiedNested["AST_MATCH"] = FreedExpr["AST_MATCH"]
  BY DEF CopiedNested, FreedExpr
<1> QED
  BY <1>1, <1>2, <1>3, <1>4, <1>5, <1>6, <1>7, <1>8, <1>9, <1>10 DEF NestedExpr

\* ast_clone_deep copies what ast_free releases: CopiedNested and FreedStmt.
LEMMA NestedStmtAgree == \A k \in NestedStmt : CopiedNested[k] = FreedStmt[k]
<1>1. CopiedNested["AST_FOR_C"] = FreedStmt["AST_FOR_C"]
  BY DEF CopiedNested, FreedStmt
<1>2. CopiedNested["AST_COMPTIME_FOR"] = FreedStmt["AST_COMPTIME_FOR"]
  BY DEF CopiedNested, FreedStmt
<1>3. CopiedNested["AST_COMPTIME_IF"] = FreedStmt["AST_COMPTIME_IF"]
  BY DEF CopiedNested, FreedStmt
<1>4. CopiedNested["AST_COMPTIME_FIELD"] = FreedStmt["AST_COMPTIME_FIELD"]
  BY DEF CopiedNested, FreedStmt
<1>5. CopiedNested["AST_COMPTIME_MATCH"] = FreedStmt["AST_COMPTIME_MATCH"]
  BY DEF CopiedNested, FreedStmt
<1>6. CopiedNested["AST_COMPTIME_CONST"] = FreedStmt["AST_COMPTIME_CONST"]
  BY DEF CopiedNested, FreedStmt
<1>7. CopiedNested["AST_COMPTIME_BLOCK"] = FreedStmt["AST_COMPTIME_BLOCK"]
  BY DEF CopiedNested, FreedStmt
<1> QED
  BY <1>1, <1>2, <1>3, <1>4, <1>5, <1>6, <1>7 DEF NestedStmt

\* ast_clone_deep copies what ast_free releases: CopiedMore and FreedExpr.
LEMMA PatternExprAgree == \A k \in PatternExpr : CopiedMore[k] = FreedExpr[k]
<1>1. CopiedMore["AST_MATCH_OR_PATTERN"] = FreedExpr["AST_MATCH_OR_PATTERN"]
  BY DEF CopiedMore, FreedExpr
<1>2. CopiedMore["AST_MATCH_BIT_PATTERN"] = FreedExpr["AST_MATCH_BIT_PATTERN"]
  BY DEF CopiedMore, FreedExpr
<1>3. CopiedMore["AST_MATCH_BIT_PATTERN_SEQ"] = FreedExpr["AST_MATCH_BIT_PATTERN_SEQ"]
  BY DEF CopiedMore, FreedExpr
<1> QED
  BY <1>1, <1>2, <1>3 DEF PatternExpr

\* ast_clone_deep copies what ast_free releases: CopiedMore and FreedMore.
LEMMA LateExprAgree == \A k \in LateExpr : CopiedMore[k] = FreedMore[k]
<1>1. CopiedMore["AST_AT_TIME"] = FreedMore["AST_AT_TIME"]
  BY DEF CopiedMore, FreedMore
<1>2. CopiedMore["AST_AT_BENCH"] = FreedMore["AST_AT_BENCH"]
  BY DEF CopiedMore, FreedMore
<1>3. CopiedMore["AST_LOAD_LIB"] = FreedMore["AST_LOAD_LIB"]
  BY DEF CopiedMore, FreedMore
<1>4. CopiedMore["AST_FFI_CALL"] = FreedMore["AST_FFI_CALL"]
  BY DEF CopiedMore, FreedMore
<1> QED
  BY <1>1, <1>2, <1>3, <1>4 DEF LateExpr

\* Every kind of FreedExpr has few fields.
LEMMA FreedExprFew == \A k \in DOMAIN FreedExpr : Few(FreedExpr[k])
<1>1. DOMAIN FreedExpr = {
         "AST_STRING_LIT", "AST_FORMAT_STRING", "AST_ARRAY_LIT", "AST_MAP_LIT", "AST_IDENT",
         "AST_UNARY", "AST_MUT_BORROW", "AST_BINARY", "AST_CALL", "AST_INDEX", "AST_FIELD",
         "AST_CLOSURE", "AST_MATCH", "AST_MATCH_OR_PATTERN", "AST_MATCH_BIT_PATTERN",
         "AST_MATCH_BIT_PATTERN_SEQ", "AST_CAST", "AST_SIZEOF", "AST_TYPENAME", "AST_TRY",
         "AST_FORCE_UNWRAP", "AST_RANGE"}
  BY DEF FreedExpr
<1>2. Few(FreedExpr["AST_STRING_LIT"])
  BY FewFinite DEF Few, FreedExpr
<1>3. Few(FreedExpr["AST_FORMAT_STRING"])
  BY FewFinite DEF Few, FreedExpr
<1>4. Few(FreedExpr["AST_ARRAY_LIT"])
  BY FewFinite DEF Few, FreedExpr
<1>5. Few(FreedExpr["AST_MAP_LIT"])
  BY FewFinite DEF Few, FreedExpr
<1>6. Few(FreedExpr["AST_IDENT"])
  BY FewFinite DEF Few, FreedExpr
<1>7. Few(FreedExpr["AST_UNARY"])
  BY FewFinite DEF Few, FreedExpr
<1>8. Few(FreedExpr["AST_MUT_BORROW"])
  BY FewFinite DEF Few, FreedExpr
<1>9. Few(FreedExpr["AST_BINARY"])
  BY FewFinite DEF Few, FreedExpr
<1>10. Few(FreedExpr["AST_CALL"])
  BY FewFinite DEF Few, FreedExpr
<1>11. Few(FreedExpr["AST_INDEX"])
  BY FewFinite DEF Few, FreedExpr
<1>12. Few(FreedExpr["AST_FIELD"])
  BY FewFinite DEF Few, FreedExpr
<1>13. Few(FreedExpr["AST_CLOSURE"])
  BY FewFinite DEF Few, FreedExpr
<1>14. Few(FreedExpr["AST_MATCH"])
  BY FewFinite DEF Few, FreedExpr
<1>15. Few(FreedExpr["AST_MATCH_OR_PATTERN"])
  BY FewFinite DEF Few, FreedExpr
<1>16. Few(FreedExpr["AST_MATCH_BIT_PATTERN"])
  BY FewFinite DEF Few, FreedExpr
<1>17. Few(FreedExpr["AST_MATCH_BIT_PATTERN_SEQ"])
  BY FewFinite DEF Few, FreedExpr
<1>18. Few(FreedExpr["AST_CAST"])
  BY FewFinite DEF Few, FreedExpr
<1>19. Few(FreedExpr["AST_SIZEOF"])
  BY FewFinite DEF Few, FreedExpr
<1>20. Few(FreedExpr["AST_TYPENAME"])
  BY FewFinite DEF Few, FreedExpr
<1>21. Few(FreedExpr["AST_TRY"])
  BY FewFinite DEF Few, FreedExpr
<1>22. Few(FreedExpr["AST_FORCE_UNWRAP"])
  BY FewFinite DEF Few, FreedExpr
<1>23. Few(FreedExpr["AST_RANGE"])
  BY FewFinite DEF Few, FreedExpr
<1> HIDE DEF Few, FreedExpr
<1> QED
  BY <1>1, <1>2, <1>3, <1>4, <1>5, <1>6, <1>7, <1>8, <1>9, <1>10, <1>11, <1>12, <1>13, <1>14,
     <1>15, <1>16, <1>17, <1>18, <1>19, <1>20, <1>21, <1>22, <1>23

\* Every kind of FreedStmt has few fields.
LEMMA FreedStmtFew == \A k \in DOMAIN FreedStmt : Few(FreedStmt[k])
<1>1. DOMAIN FreedStmt = {
         "AST_VAR_DECL", "AST_ASSIGN", "AST_RETURN", "AST_IF", "AST_WHILE", "AST_FOR", "AST_FOR_C",
         "AST_COMPTIME_FOR", "AST_COMPTIME_IF", "AST_COMPTIME_FIELD", "AST_COMPTIME_MATCH",
         "AST_COMPTIME_CONST", "AST_COMPTIME_BLOCK", "AST_BLOCK", "AST_EXPR_STMT"}
  BY DEF FreedStmt
<1>2. Few(FreedStmt["AST_VAR_DECL"])
  BY FewFinite DEF Few, FreedStmt
<1>3. Few(FreedStmt["AST_ASSIGN"])
  BY FewFinite DEF Few, FreedStmt
<1>4. Few(FreedStmt["AST_RETURN"])
  BY FewFinite DEF Few, FreedStmt
<1>5. Few(FreedStmt["AST_IF"])
  BY FewFinite DEF Few, FreedStmt
<1>6. Few(FreedStmt["AST_WHILE"])
  BY FewFinite DEF Few, FreedStmt
<1>7. Few(FreedStmt["AST_FOR"])
  BY FewFinite DEF Few, FreedStmt
<1>8. Few(FreedStmt["AST_FOR_C"])
  BY FewFinite DEF Few, FreedStmt
<1>9. Few(FreedStmt["AST_COMPTIME_FOR"])
  BY FewFinite DEF Few, FreedStmt
<1>10. Few(FreedStmt["AST_COMPTIME_IF"])
  BY FewFinite DEF Few, FreedStmt
<1>11. Few(FreedStmt["AST_COMPTIME_FIELD"])
  BY FewFinite DEF Few, FreedStmt
<1>12. Few(FreedStmt["AST_COMPTIME_MATCH"])
  BY FewFinite DEF Few, FreedStmt
<1>13. Few(FreedStmt["AST_COMPTIME_CONST"])
  BY FewFinite DEF Few, FreedStmt
<1>14. Few(FreedStmt["AST_COMPTIME_BLOCK"])
  BY FewFinite DEF Few, FreedStmt
<1>15. Few(FreedStmt["AST_BLOCK"])
  BY FewFinite DEF Few, FreedStmt
<1>16. Few(FreedStmt["AST_EXPR_STMT"])
  BY FewFinite DEF Few, FreedStmt
<1> HIDE DEF Few, FreedStmt
<1> QED
  BY <1>1, <1>2, <1>3, <1>4, <1>5, <1>6, <1>7, <1>8, <1>9, <1>10, <1>11, <1>12, <1>13, <1>14,
     <1>15, <1>16

\* Every kind of FreedDecl has few fields.
LEMMA FreedDeclFew == \A k \in DOMAIN FreedDecl : Few(FreedDecl[k])
<1>1. DOMAIN FreedDecl = {
         "AST_FN_DECL", "AST_STRUCT_DECL", "AST_ENUM_DECL", "AST_IMPL_DECL", "AST_MODULE_DECL",
         "AST_IMPORT_DECL", "AST_TYPE_ALIAS_DECL", "AST_TRAIT_DECL", "AST_IMPL_TRAIT_DECL"}
  BY DEF FreedDecl
<1>2. Few(FreedDecl["AST_FN_DECL"])
  BY FewFinite DEF Few, FreedDecl
<1>3. Few(FreedDecl["AST_STRUCT_DECL"])
  BY FewFinite DEF Few, FreedDecl
<1>4. Few(FreedDecl["AST_ENUM_DECL"])
  BY FewFinite DEF Few, FreedDecl
<1>5. Few(FreedDecl["AST_IMPL_DECL"])
  BY FewFinite DEF Few, FreedDecl
<1>6. Few(FreedDecl["AST_MODULE_DECL"])
  BY FewFinite DEF Few, FreedDecl
<1>7. Few(FreedDecl["AST_IMPORT_DECL"])
  BY FewFinite DEF Few, FreedDecl
<1>8. Few(FreedDecl["AST_TYPE_ALIAS_DECL"])
  BY FewFinite DEF Few, FreedDecl
<1>9. Few(FreedDecl["AST_TRAIT_DECL"])
  BY FewFinite DEF Few, FreedDecl
<1>10. Few(FreedDecl["AST_IMPL_TRAIT_DECL"])
  BY FewFinite DEF Few, FreedDecl
<1> HIDE DEF Few, FreedDecl
<1> QED
  BY <1>1, <1>2, <1>3, <1>4, <1>5, <1>6, <1>7, <1>8, <1>9, <1>10

\* Every kind of FreedMore has few fields.
LEMMA FreedMoreFew == \A k \in DOMAIN FreedMore : Few(FreedMore[k])
<1>1. DOMAIN FreedMore = {
         "AST_NEW_EXPR", "AST_AT_TIME", "AST_AT_BENCH", "AST_LOAD_LIB", "AST_FFI_CALL",
         "AST_EXTERN_FN", "AST_EXTERN_STRUCT_DECL", "AST_EXTERN_BLOCK", "AST_PROGRAM"}
  BY DEF FreedMore
<1>2. Few(FreedMore["AST_NEW_EXPR"])
  BY FewFinite DEF Few, FreedMore
<1>3. Few(FreedMore["AST_AT_TIME"])
  BY FewFinite DEF Few, FreedMore
<1>4. Few(FreedMore["AST_AT_BENCH"])
  BY FewFinite DEF Few, FreedMore
<1>5. Few(FreedMore["AST_LOAD_LIB"])
  BY FewFinite DEF Few, FreedMore
<1>6. Few(FreedMore["AST_FFI_CALL"])
  BY FewFinite DEF Few, FreedMore
<1>7. Few(FreedMore["AST_EXTERN_FN"])
  BY FewFinite DEF Few, FreedMore
<1>8. Few(FreedMore["AST_EXTERN_STRUCT_DECL"])
  BY FewFinite DEF Few, FreedMore
<1>9. Few(FreedMore["AST_EXTERN_BLOCK"])
  BY FewFinite DEF Few, FreedMore
<1>10. Few(FreedMore["AST_PROGRAM"])
  BY FewFinite DEF Few, FreedMore
<1> HIDE DEF Few, FreedMore
<1> QED
  BY <1>1, <1>2, <1>3, <1>4, <1>5, <1>6, <1>7, <1>8, <1>9, <1>10

\* The kinds of which a table speaks.
LEMMA TableKinds ==
    /\ DOMAIN Cleared = {"AST_BINARY", "AST_FOR", "AST_CLOSURE"}
    /\ DOMAIN CopiedSimple = SimpleExpr \cup SimpleStmt \cup {"AST_BINARY", "AST_FOR"}
    /\ DOMAIN CopiedNested = NestedExpr \cup NestedStmt \cup {"AST_NEW_EXPR"}
    /\ DOMAIN CopiedFn = {"AST_FN_DECL", "AST_CLOSURE"}
    /\ DOMAIN CopiedMore = PatternExpr \cup LateExpr
    /\ DOMAIN FreedExpr = SimpleExpr \cup NestedExpr \cup PatternExpr \cup {"AST_BINARY", "AST_CLOSURE"}
    /\ DOMAIN FreedStmt = SimpleStmt \cup NestedStmt \cup {"AST_FOR"}
    /\ "AST_FN_DECL" \in DOMAIN FreedDecl /\ DOMAIN FreedDecl \subseteq {"AST_FN_DECL"} \cup NotCloned
    /\ LateExpr \cup {"AST_NEW_EXPR"} \subseteq DOMAIN FreedMore
    /\ DOMAIN FreedMore \subseteq LateExpr \cup {"AST_NEW_EXPR"} \cup NotCloned
<1>1. DOMAIN Cleared = {"AST_BINARY", "AST_FOR", "AST_CLOSURE"}
  BY DEF Cleared
<1>2. DOMAIN CopiedSimple = SimpleExpr \cup SimpleStmt \cup {"AST_BINARY", "AST_FOR"}
  BY DEF CopiedSimple, SimpleExpr, SimpleStmt
<1>3. DOMAIN CopiedNested = NestedExpr \cup NestedStmt \cup {"AST_NEW_EXPR"}
  BY DEF CopiedNested, NestedExpr, NestedStmt
<1>4. DOMAIN CopiedFn = {"AST_FN_DECL", "AST_CLOSURE"}
  BY DEF CopiedFn
<1>5. DOMAIN CopiedMore = PatternExpr \cup LateExpr
  BY DEF CopiedMore, PatternExpr, LateExpr
<1>6. DOMAIN FreedExpr = SimpleExpr \cup NestedExpr \cup PatternExpr \cup {"AST_BINARY", "AST_CLOSURE"}
  BY DEF FreedExpr, SimpleExpr, NestedExpr, PatternExpr
<1>7. DOMAIN FreedStmt = SimpleStmt \cup NestedStmt \cup {"AST_FOR"}
  BY DEF FreedStmt, SimpleStmt, NestedStmt
<1>8. "AST_FN_DECL" \in DOMAIN FreedDecl /\ DOMAIN FreedDecl \subseteq {"AST_FN_DECL"} \cup NotCloned
  BY DEF FreedDecl, NotCloned
<1>9. LateExpr \cup {"AST_NEW_EXPR"} \subseteq DOMAIN FreedMore
  BY DEF FreedMore, LateExpr
<1>10. DOMAIN FreedMore \subseteq LateExpr \cup {"AST_NEW_EXPR"} \cup NotCloned
  BY DEF FreedMore, LateExpr, NotCloned
<1> QED
  BY <1>1, <1>2, <1>3, <1>4, <1>5, <1>6, <1>7, <1>8, <1>9, <1>10

\* The kinds with a table entry of their own.
LEMMA SpecialAgree ==
    /\ CopiedNested["AST_NEW_EXPR"] = FreedMore["AST_NEW_EXPR"]
    /\ CopiedFn["AST_FN_DECL"] = FreedDecl["AST_FN_DECL"]
    /\ CopiedFn["AST_CLOSURE"] \cup Cleared["AST_CLOSURE"] = FreedExpr["AST_CLOSURE"]
    /\ CopiedSimple["AST_BINARY"] \cup Cleared["AST_BINARY"] = FreedExpr["AST_BINARY"]
    /\ CopiedSimple["AST_FOR"] \cup Cleared["AST_FOR"] = FreedStmt["AST_FOR"]
<1>1. CopiedNested["AST_NEW_EXPR"] = FreedMore["AST_NEW_EXPR"]
  BY DEF CopiedNested, FreedMore
<1>2. CopiedFn["AST_FN_DECL"] = FreedDecl["AST_FN_DECL"]
  BY DEF CopiedFn, FreedDecl
<1>3. CopiedFn["AST_CLOSURE"] \cup Cleared["AST_CLOSURE"] = FreedExpr["AST_CLOSURE"]
  BY DEF CopiedFn, Cleared, FreedExpr
<1>4. CopiedSimple["AST_BINARY"] \cup Cleared["AST_BINARY"] = FreedExpr["AST_BINARY"]
  BY DEF CopiedSimple, Cleared, FreedExpr
<1>5. CopiedSimple["AST_FOR"] \cup Cleared["AST_FOR"] = FreedStmt["AST_FOR"]
  BY DEF CopiedSimple, Cleared, FreedStmt
<1> QED
  BY <1>1, <1>2, <1>3, <1>4, <1>5

\* ast_free releases every pointer field a node has.
LEMMA SlotsFreed == ASSUME NEW k PROVE Slots(k) = Freed(k)
<1>1. Lookup(CopiedSimple, k) \subseteq Freed(k)
  BY TableKinds, SimpleExprAgree, SimpleStmtAgree, SpecialAgree DEF Lookup, Freed
<1>2. Lookup(CopiedNested, k) \subseteq Freed(k)
  BY TableKinds, NestedExprAgree, NestedStmtAgree, SpecialAgree DEF Lookup, Freed
<1>3. Lookup(CopiedFn, k) \subseteq Freed(k)
  BY TableKinds, SpecialAgree DEF Lookup, Freed
<1>4. Lookup(CopiedMore, k) \subseteq Freed(k)
  BY TableKinds, PatternExprAgree, LateExprAgree DEF Lookup, Freed
<1>5. Lookup(Cleared, k) \subseteq Freed(k)
  BY TableKinds, SpecialAgree DEF Lookup, Freed
<1> QED
  BY <1>1, <1>2, <1>3, <1>4, <1>5 DEF Slots, Copied, Freed

\* ast_clone_deep copies or clears every pointer field of what it accepts.
LEMMA SlotsCopied == ASSUME NEW k, k \notin NotCloned PROVE Slots(k) \subseteq Copied(k) \cup Lookup(Cleared, k)
<1>1. Lookup(FreedExpr, k) \subseteq Copied(k) \cup Lookup(Cleared, k)
  BY TableKinds, SimpleExprAgree, NestedExprAgree, PatternExprAgree, SpecialAgree DEF Lookup, Copied
<1>2. Lookup(FreedStmt, k) \subseteq Copied(k) \cup Lookup(Cleared, k)
  BY TableKinds, SimpleStmtAgree, NestedStmtAgree, SpecialAgree DEF Lookup, Copied
<1>3. Lookup(FreedDecl, k) \subseteq Copied(k)
  BY TableKinds, SpecialAgree DEF Lookup, Copied
<1>4. Lookup(FreedMore, k) \subseteq Copied(k)
  BY TableKinds, LateExprAgree, SpecialAgree DEF Lookup, Copied
<1> QED
  BY <1>1, <1>2, <1>3, <1>4 DEF Slots, Copied, Freed

\* A node has few fields.
LEMMA SlotsFew == ASSUME NEW k PROVE Few(Slots(k))
<1>1. Few({}) /\ Few({"coerce_block_type"})
  BY FS_EmptySet, FewFinite DEF Few
<1>2. Few(Lookup(FreedExpr, k)) /\ Few(Lookup(FreedStmt, k)) /\ Few(Lookup(FreedDecl, k)) /\ Few(Lookup(FreedMore, k))
  BY <1>1, FreedExprFew, FreedStmtFew, FreedDeclFew, FreedMoreFew DEF Lookup
<1>3. ASSUME NEW A, Few(A), NEW B, Few(B) PROVE Few(A \cup B)
  BY <1>3, FS_Union DEF Few
<1>4. Few(Freed(k))
  BY <1>1, <1>2, <1>3 DEF Freed
<1> QED
  BY <1>4, SlotsFreed

\* The fields the rewritings use.
LEMMA FieldsUsed ==
    /\ {"left", "right", "lowered"} \subseteq Slots("AST_BINARY")
    /\ "object" \in Slots("AST_FIELD") /\ {"callee", "args"} \subseteq Slots("AST_CALL")
    /\ {"iter", "body", "desugared"} \subseteq Slots("AST_FOR") /\ {"cond", "body"} \subseteq Slots("AST_WHILE")
    /\ {"iter", "body"} \subseteq Copied("AST_FOR")
    /\ {"iter", "body"} \cap Lookup(Cleared, "AST_FOR") = {}
<1>1. {"left", "right", "lowered"} \subseteq Slots("AST_BINARY")
  BY TableKinds DEF Slots, Freed, Lookup, FreedExpr
<1>2. "object" \in Slots("AST_FIELD") /\ {"callee", "args"} \subseteq Slots("AST_CALL")
  BY DEF Slots, Freed, Lookup, FreedExpr
<1>3. {"iter", "body", "desugared"} \subseteq Slots("AST_FOR") /\ {"cond", "body"} \subseteq Slots("AST_WHILE")
  BY DEF Slots, Freed, Lookup, FreedStmt
<1>4. {"iter", "body"} \subseteq Copied("AST_FOR")
  BY DEF Copied, Lookup, CopiedSimple
<1>5. {"iter", "body"} \cap Lookup(Cleared, "AST_FOR") = {}
  BY DEF Lookup, Cleared
<1> QED
  BY <1>1, <1>2, <1>3, <1>4, <1>5

\* ast_clone_deep copies no field that it clears.
LEMMA CopiedNotCleared == ASSUME NEW k, NEW s \in Copied(k) PROVE s \notin Lookup(Cleared, k)
<1> SUFFICES ASSUME k \in DOMAIN Cleared PROVE s \notin Cleared[k]
  BY DEF Lookup
<1>1. CASE k = "AST_BINARY"
  <2>1. Copied(k) = {"coerce_block_type"} \cup CopiedSimple[k]
    BY <1>1, TableKinds DEF Copied, Lookup, NestedExpr, NestedStmt, PatternExpr, LateExpr
  <2> QED
    BY <1>1, <2>1 DEF CopiedSimple, Cleared
<1>2. CASE k = "AST_FOR"
  <2>1. Copied(k) = {"coerce_block_type"} \cup CopiedSimple[k]
    BY <1>2, TableKinds DEF Copied, Lookup, NestedExpr, NestedStmt, PatternExpr, LateExpr
  <2> QED
    BY <1>2, <2>1 DEF CopiedSimple, Cleared
<1>3. CASE k = "AST_CLOSURE"
  <2>1. Copied(k) = {"coerce_block_type"} \cup CopiedFn[k]
    BY <1>3, TableKinds DEF Copied, Lookup, SimpleExpr, SimpleStmt, NestedExpr, NestedStmt, PatternExpr, LateExpr
  <2> QED
    BY <1>3, <2>1 DEF CopiedFn, Cleared
<1> QED
  BY <1>1, <1>2, <1>3, TableKinds

-----------------------------------------------------------------------------
(* Heaps of trees. *)

\* The allocation a of the heap h, before operation n: its fields are those of
\* its kind and point into the heap; a lowered operator has given up its
\* operands, a loop has an iterable and a body.
Cell(h, n, a) ==
    /\ a[1] \in Nat /\ 0 < a[1] /\ a[1] < n
    /\ DOMAIN h[a].slot \subseteq Slots(h[a].kind)
    /\ h[a].kind # "leaf" => DOMAIN h[a].slot = Slots(h[a].kind)
    /\ \A s \in DOMAIN h[a].slot : h[a].slot[s] \in DOMAIN h \cup {NULL}
    /\ h[a].kind = "AST_BINARY" => h[a].slot["left"] = NULL \/ h[a].slot["lowered"] = NULL
    /\ h[a].kind = "AST_FOR" => h[a].slot["iter"] # NULL /\ h[a].slot["body"] # NULL

Shape(h, n) == n \in Nat /\ IsFiniteSet(DOMAIN h) /\ \A a \in DOMAIN h : Cell(h, n, a)

\* No allocation is pointed to twice.
Sole(h) ==
    \A a, b \in DOMAIN h : \A s \in DOMAIN h[a].slot, t \in DOMAIN h[b].slot :
        h[a].slot[s] = h[b].slot[t] /\ h[a].slot[s] # NULL => a = b /\ s = t

\* Nothing points to a member of R.
Top(h, R) == \A a \in DOMAIN h : \A s \in DOMAIN h[a].slot : h[a].slot[s] \notin R

\* No pointer leaves Z.
Shut(h, Z) == \A a \in Z : \A s \in DOMAIN h[a].slot : h[a].slot[s] \in Z \cup {NULL}

\* L is what R reaches.
Spans(h, R, L) ==
    /\ R \subseteq L /\ L \subseteq DOMAIN h /\ Shut(h, L)
    /\ \A Z \in SUBSET DOMAIN h : R \subseteq Z /\ Shut(h, Z) => L \subseteq Z

\* The heap is a forest: its roots R reach what is not in F, the freed ones.
Good(h, n, R, F) ==
    /\ Shape(h, n) /\ Sole(h) /\ Top(h, R)
    /\ F \subseteq DOMAIN h /\ Spans(h, R, DOMAIN h \ F)

\* NULL is no allocation.
LEMMA NotNull == ASSUME NEW h, NEW n, Shape(h, n) PROVE NULL \notin DOMAIN h
<1>1. NULL[1] = 0
  BY DEF NULL
<1> QED
  BY <1>1 DEF Shape, Cell

\* One set only is what R reaches.
LEMMA SpansOne == ASSUME NEW h, NEW R, NEW L, NEW M, Spans(h, R, L), Spans(h, R, M) PROVE L = M
BY DEF Spans

\* Reach is what its definition says, and ast_free releases it.
LEMMA ReachSpans ==
    ASSUME NEW h, NEW n, Shape(h, n), NEW X \in SUBSET DOMAIN h
    PROVE  Spans(h, X, Reach(h, X)) /\ Released(h, X) = Reach(h, X)
<1> DEFINE E == [a \in DOMAIN h |-> Targets(h, a, Slots(h[a].kind))]
           G == [a \in DOMAIN h |-> Targets(h, a, Freed(h[a].kind))]
<1>1. E = G
  BY SlotsFreed
<1>2. \A a \in DOMAIN h : /\ E[a] \subseteq DOMAIN h
                          /\ \A Z : E[a] \subseteq Z <=> \A s \in DOMAIN h[a].slot : h[a].slot[s] \in Z \cup {NULL}
  <2> SUFFICES ASSUME NEW a \in DOMAIN h
               PROVE  /\ E[a] \subseteq DOMAIN h
                      /\ \A Z : E[a] \subseteq Z <=> \A s \in DOMAIN h[a].slot : h[a].slot[s] \in Z \cup {NULL}
    OBVIOUS
  <2>1. Cell(h, n, a)
    BY DEF Shape
  <2>2. Slots(h[a].kind) \cap DOMAIN h[a].slot = DOMAIN h[a].slot
    BY <2>1 DEF Cell
  <2>3. E[a] = {h[a].slot[s] : s \in DOMAIN h[a].slot} \ {NULL}
    BY <2>2 DEF Targets
  <2> HIDE DEF E
  <2> QED
    BY <2>1, <2>3 DEF Cell
<1>3. DOMAIN E = DOMAIN h /\ IsFiniteSet(DOMAIN h)
  BY DEF Shape
<1>4. Reach(h, X) = Below(E, X) /\ Released(h, X) = Below(G, X)
  BY DEF Reach, Released
<1> HIDE DEF E, G
<1>5. LET B == Below(E, X)
      IN  /\ B \in SUBSET DOMAIN h /\ X \subseteq B
          /\ \A a \in B : E[a] \subseteq B
          /\ \A Z \in SUBSET DOMAIN h : X \subseteq Z /\ (\A a \in Z : E[a] \subseteq Z) => B \subseteq Z
  <2>1. \A a \in DOMAIN E : E[a] \subseteq DOMAIN E
    BY <1>2, <1>3
  <2> QED
    BY <1>3, <2>1, BelowLeast
<1>6. \A Z \in SUBSET DOMAIN h : Shut(h, Z) <=> \A a \in Z : E[a] \subseteq Z
  BY <1>2 DEF Shut
<1> QED
  BY <1>1, <1>4, <1>5, <1>6 DEF Spans

\* What is reached and is no start has a predecessor that is reached.
LEMMA HasParent ==
    ASSUME NEW h, NEW X, NEW L, Spans(h, X, L), NEW b \in L, b \notin X
    PROVE  \E a \in L : \E s \in DOMAIN h[a].slot : h[a].slot[s] = b
<1> SUFFICES ASSUME \A a \in L : \A s \in DOMAIN h[a].slot : h[a].slot[s] # b PROVE FALSE
  OBVIOUS
<1>1. L \ {b} \in SUBSET DOMAIN h /\ X \subseteq L \ {b} /\ Shut(h, L \ {b})
  BY DEF Spans, Shut
<1> QED
  BY <1>1 DEF Spans

\* Where nothing is pointed to twice, a tree is closed from above, too: only its
\* root is pointed to from outside.
LEMMA ClosedAbove ==
    ASSUME NEW h, Sole(h), NEW r, NEW L, Spans(h, {r}, L), NULL \notin DOMAIN h,
           NEW a \in DOMAIN h, NEW s \in DOMAIN h[a].slot, h[a].slot[s] \in L \ {r}
    PROVE  a \in L
<1>1. PICK b \in L : \E t \in DOMAIN h[b].slot : h[b].slot[t] = h[a].slot[s]
  BY HasParent
<1>2. L \subseteq DOMAIN h
  BY DEF Spans
<1> QED
  BY <1>1, <1>2 DEF Sole

\* A tree in use is no cycle: nothing below a points to a.
LEMMA NoCycle ==
    ASSUME NEW h, NEW n, NEW R, NEW F, Good(h, n, R, F), NEW a \in DOMAIN h \ F,
           NEW L, Spans(h, {a}, L), NEW b \in L, NEW s \in DOMAIN h[b].slot
    PROVE  h[b].slot[s] # a
<1> SUFFICES ASSUME h[b].slot[s] = a PROVE FALSE
  OBVIOUS
<1>1. Sole(h) /\ Top(h, R) /\ Spans(h, R, DOMAIN h \ F) /\ NULL \notin DOMAIN h
  BY NotNull DEF Good
<1>2. L \subseteq DOMAIN h /\ a \in L
  BY DEF Spans
<1> DEFINE Z == DOMAIN h \ L
<1>3. R \subseteq Z
  <2> SUFFICES ASSUME NEW r \in R PROVE r \notin L
    BY <1>1 DEF Spans
  <2>1. r # a
    BY <1>1, <1>2 DEF Top
  <2>2. \A x \in L : \A t \in DOMAIN h[x].slot : h[x].slot[t] # r
    BY <1>1, <1>2 DEF Top
  <2> QED
    BY <2>1, <2>2, HasParent
<1>4. Shut(h, Z)
  <2> SUFFICES ASSUME NEW x \in Z, NEW t \in DOMAIN h[x].slot, h[x].slot[t] # NULL PROVE h[x].slot[t] \in Z
    BY DEF Shut
  <2>1. h[x].slot[t] \in DOMAIN h
    BY DEF Good, Shape, Cell
  <2>2. h[x].slot[t] # a
    BY <1>1, <1>2 DEF Sole
  <2>3. ASSUME h[x].slot[t] \in L PROVE x \in L
    <3>1. h[x].slot[t] \in L \ {a} /\ x \in DOMAIN h
      BY <2>2, <2>3
    <3> QED
      BY <1>1, <3>1, ClosedAbove
  <2> QED
    BY <2>1, <2>3
<1> QED
  BY <1>1, <1>2, <1>3, <1>4 DEF Spans

\* ast_free of a root releases what only this root reaches, none of it freed.
LEMMA FreeGood ==
    ASSUME NEW h, NEW n, NEW R, NEW F, Good(h, n, R, F), NEW r \in R
    PROVE  /\ Released(h, {r}) \cap F = {}
           /\ Good(h, n, R \ {r}, F \cup Released(h, {r}))
<1>1. /\ Shape(h, n) /\ Sole(h) /\ Top(h, R) /\ Spans(h, R, DOMAIN h \ F)
      /\ F \subseteq DOMAIN h /\ NULL \notin DOMAIN h
  BY NotNull DEF Good
<1>2. {r} \in SUBSET DOMAIN h
  BY <1>1 DEF Spans
<1>3. PICK L : L = Released(h, {r}) /\ Spans(h, {r}, L)
  BY <1>1, <1>2, ReachSpans
<1>4. L \subseteq DOMAIN h \ F
  BY <1>1, <1>3 DEF Spans
<1> DEFINE M == DOMAIN h \ (F \cup L)
<1>5. R \ {r} \subseteq M
  <2> SUFFICES ASSUME NEW q \in R \ {r}, q \in L PROVE FALSE
    BY <1>1 DEF Spans
  <2>1. \A x \in L : \A t \in DOMAIN h[x].slot : h[x].slot[t] # q
    BY <1>1, <1>4 DEF Top
  <2>2. q \notin {r}
    OBVIOUS
  <2> QED
    BY <1>3, <2>1, <2>2, HasParent
<1>6. Shut(h, M)
  <2> SUFFICES ASSUME NEW x \in M, NEW t \in DOMAIN h[x].slot, h[x].slot[t] # NULL PROVE h[x].slot[t] \in M
    BY DEF Shut
  <2>1. h[x].slot[t] \in DOMAIN h \ F
    BY <1>1 DEF Spans, Shut
  <2>2. h[x].slot[t] # r
    BY <1>1 DEF Top
  <2>3. ASSUME h[x].slot[t] \in L PROVE x \in L
    <3>1. h[x].slot[t] \in L \ {r} /\ x \in DOMAIN h
      BY <2>2, <2>3
    <3> QED
      BY <1>1, <1>3, <3>1, ClosedAbove
  <2> QED
    BY <2>1, <2>3
<1>7. ASSUME NEW Z \in SUBSET DOMAIN h, R \ {r} \subseteq Z, Shut(h, Z) PROVE M \subseteq Z
  <2>1. R \subseteq Z \cup L /\ Z \cup L \in SUBSET DOMAIN h /\ Shut(h, Z \cup L)
    BY <1>3, <1>4, <1>7 DEF Spans, Shut
  <2> QED
    BY <1>1, <2>1 DEF Spans
<1>8. Spans(h, R \ {r}, M)
  BY <1>5, <1>6, <1>7 DEF Spans
<1>9. Top(h, R \ {r})
  BY <1>1 DEF Top
<1> QED
  BY <1>1, <1>3, <1>4, <1>8, <1>9 DEF Good

-----------------------------------------------------------------------------
(* Clones. *)

\* The allocations g, made by operation m, are one tree with the root r.
Tree(g, m, r) ==
    /\ m \in Nat /\ Shape(g, m + 1) /\ \A b \in DOMAIN g : b[1] = m
    /\ Sole(g) /\ Top(g, {r}) /\ Spans(g, {r}, DOMAIN g)

\* An image of a finite set is finite.
LEMMA ImageFinite ==
    ASSUME NEW S, IsFiniteSet(S), NEW f, DOMAIN f = S, NEW T, T = {f[x] : x \in S}
    PROVE  IsFiniteSet(T)
<1>1. [x \in S |-> f[x]] \in Surjection(S, T)
  BY DEF Surjection
<1> QED
  BY <1>1, FS_Surjection

\* What a clone copies is part of the tree and closed under the copied fields.
LEMMA CopiesLeast ==
    ASSUME NEW h, NEW n, Shape(h, n), NEW a \in DOMAIN h
    PROVE  LET C == Copies(h, {a})
           IN  /\ a \in C /\ C \subseteq Reach(h, {a}) /\ C \subseteq DOMAIN h
               /\ \A b \in C : \A s \in DOMAIN h[b].slot :
                    s \in Copied(h[b].kind) => h[b].slot[s] \in C \cup {NULL}
               /\ \A Z \in SUBSET DOMAIN h :
                    /\ a \in Z
                    /\ \A b \in Z : \A s \in DOMAIN h[b].slot :
                         s \in Copied(h[b].kind) => h[b].slot[s] \in Z \cup {NULL}
                    => C \subseteq Z
<1> DEFINE E == [b \in DOMAIN h |-> Targets(h, b, Copied(h[b].kind))]
           Stays(Z) == \A b \in Z : \A s \in DOMAIN h[b].slot :
                        s \in Copied(h[b].kind) => h[b].slot[s] \in Z \cup {NULL}
<1>1. \A b \in DOMAIN h : E[b] \subseteq DOMAIN h
  BY DEF Targets, Shape, Cell
<1>2. \A Z \in SUBSET DOMAIN h : Stays(Z) <=> \A b \in Z : E[b] \subseteq Z
  BY DEF Targets
<1>3. DOMAIN E = DOMAIN h /\ IsFiniteSet(DOMAIN h) /\ Copies(h, {a}) = Below(E, {a})
  BY DEF Shape, Copies
<1> HIDE DEF E, Stays
<1>4. LET B == Below(E, {a})
      IN  /\ B \in SUBSET DOMAIN h /\ {a} \subseteq B
          /\ \A b \in B : E[b] \subseteq B
          /\ \A Z \in SUBSET DOMAIN h : {a} \subseteq Z /\ (\A b \in Z : E[b] \subseteq Z) => B \subseteq Z
  BY <1>1, <1>3, BelowLeast
<1>5. Copies(h, {a}) \subseteq Reach(h, {a})
  <2>1. Spans(h, {a}, Reach(h, {a}))
    BY ReachSpans
  <2>2. Reach(h, {a}) \in SUBSET DOMAIN h /\ {a} \subseteq Reach(h, {a}) /\ Stays(Reach(h, {a}))
    BY <2>1 DEF Spans, Shut, Stays
  <2> QED
    BY <1>2, <1>3, <1>4, <2>2
<1>6. LET C == Copies(h, {a})
      IN  /\ a \in C /\ C \subseteq Reach(h, {a}) /\ C \subseteq DOMAIN h /\ Stays(C)
          /\ \A Z \in SUBSET DOMAIN h : a \in Z /\ Stays(Z) => C \subseteq Z
  BY <1>2, <1>3, <1>4, <1>5
<1> QED
  BY <1>6 DEF Stays

\* ast_clone_deep makes a tree of its own.
LEMMA CloneTree ==
    ASSUME NEW h, NEW n, NEW R, NEW F, Good(h, n, R, F), NEW a \in DOMAIN h \ F,
           \A b \in Reach(h, {a}) : h[b].kind \notin NotCloned, NEW m \in Nat, m > 0
    PROVE  Tree(clone(h, m, a), m, <<m, a>>)
<1> DEFINE g == clone(h, m, a)
           C == Copies(h, {a})
<1>1. Shape(h, n) /\ Sole(h) /\ NULL \notin DOMAIN h /\ IsFiniteSet(DOMAIN h)
  BY NotNull DEF Good, Shape
<1>2. /\ a \in C /\ C \subseteq Reach(h, {a}) /\ C \subseteq DOMAIN h
      /\ \A b \in C : \A s \in DOMAIN h[b].slot :
           s \in Copied(h[b].kind) => h[b].slot[s] \in C \cup {NULL}
      /\ \A Z \in SUBSET DOMAIN h :
           /\ a \in Z
           /\ \A b \in Z : \A s \in DOMAIN h[b].slot :
                s \in Copied(h[b].kind) => h[b].slot[s] \in Z \cup {NULL}
           => C \subseteq Z
  BY <1>1, CopiesLeast
<1>3. DOMAIN g = {<<m, c>> : c \in C}
  BY DEF clone
<1>4. ASSUME NEW c \in C
      PROVE  /\ <<m, c>> \in DOMAIN g
             /\ g[<<m, c>>].kind = h[c].kind /\ DOMAIN g[<<m, c>>].slot = DOMAIN h[c].slot
             /\ \A s \in DOMAIN h[c].slot :
                  g[<<m, c>>].slot[s] = IF s \in Lookup(Cleared, h[c].kind) \/ h[c].slot[s] = NULL THEN NULL
                                        ELSE <<m, h[c].slot[s]>>
  <2>1. <<m, c>> \in DOMAIN g /\ g[<<m, c>>] = CloneCell(m, h[c])
    BY <1>3 DEF clone
  <2>2. h[c].kind \notin NotCloned /\ Cell(h, n, c)
    BY <1>1, <1>2 DEF Shape
  <2>3. \A s \in DOMAIN h[c].slot : s \in Copied(h[c].kind) \cup Lookup(Cleared, h[c].kind)
    BY <2>2, SlotsCopied DEF Cell
  <2>4. /\ CloneCell(m, h[c]).kind = h[c].kind
        /\ CloneCell(m, h[c]).slot = [s \in DOMAIN h[c].slot |-> CloneSlot(m, h[c].kind, s, h[c].slot[s])]
    BY DEF CloneCell, With
  <2>5. ASSUME NEW s \in DOMAIN h[c].slot
        PROVE  CloneSlot(m, h[c].kind, s, h[c].slot[s])
                 = IF s \in Lookup(Cleared, h[c].kind) \/ h[c].slot[s] = NULL THEN NULL ELSE <<m, h[c].slot[s]>>
    BY <2>3 DEF CloneSlot
  <2> HIDE DEF g, C
  <2> QED
    BY <2>1, <2>4, <2>5
<1> HIDE DEF g, C
<1>6. \A c : <<m, c>> # NULL /\ <<m, c>>[1] = m
  <2>1. NULL[1] = 0
    BY DEF NULL
  <2> QED
    BY <2>1
<1>5. ASSUME NEW c \in C, NEW s \in DOMAIN h[c].slot
      PROVE  g[<<m, c>>].slot[s] # NULL => /\ h[c].slot[s] \in C /\ g[<<m, c>>].slot[s] = <<m, h[c].slot[s]>>
                                           /\ s \notin Lookup(Cleared, h[c].kind)
  <2>1. Cell(h, n, c) /\ h[c].kind \notin NotCloned
    BY <1>1, <1>2 DEF Shape
  <2>2. s \in Copied(h[c].kind) \cup Lookup(Cleared, h[c].kind)
    BY <2>1, SlotsCopied DEF Cell
  <2>3. /\ s \in Copied(h[c].kind) => h[c].slot[s] \in C \cup {NULL}
        /\ g[<<m, c>>].slot[s] = IF s \in Lookup(Cleared, h[c].kind) \/ h[c].slot[s] = NULL THEN NULL
                                 ELSE <<m, h[c].slot[s]>>
    BY <1>2, <1>4
  <2> QED
    BY <2>2, <2>3
<1>7. IsFiniteSet(DOMAIN g)
  <2>1. IsFiniteSet(C)
    BY <1>1, <1>2, FS_Subset
  <2> DEFINE f == [c \in C |-> <<m, c>>]
  <2>2. DOMAIN f = C /\ DOMAIN g = {f[c] : c \in C}
    BY <1>3
  <2> HIDE DEF f
  <2> QED
    BY <2>1, <2>2, ImageFinite
<1>8. Shape(g, m + 1)
  <2> SUFFICES ASSUME NEW c \in C PROVE Cell(g, m + 1, <<m, c>>)
    BY <1>3, <1>7 DEF Shape
  <2>1. Cell(h, n, c)
    BY <1>1, <1>2 DEF Shape
  <2> DEFINE k == h[c].kind
             x == g[<<m, c>>]
  <2>2. x.kind = k /\ DOMAIN x.slot = DOMAIN h[c].slot
    BY <1>4
  <2>3. \A s \in DOMAIN x.slot : x.slot[s] \in DOMAIN g \cup {NULL}
    BY <1>3, <1>5, <2>2
  <2>4. k = "AST_BINARY" => x.slot["left"] = NULL \/ x.slot["lowered"] = NULL
    <3> SUFFICES ASSUME k = "AST_BINARY" PROVE x.slot["left"] = NULL \/ x.slot["lowered"] = NULL
      OBVIOUS
    <3>1. {"left", "lowered"} \subseteq DOMAIN h[c].slot
      BY <2>1, FieldsUsed DEF Cell
    <3> QED
      BY <1>4, <2>1, <3>1 DEF Cell
  <2>5. k = "AST_FOR" => x.slot["iter"] # NULL /\ x.slot["body"] # NULL
    <3> SUFFICES ASSUME k = "AST_FOR" PROVE x.slot["iter"] # NULL /\ x.slot["body"] # NULL
      OBVIOUS
    <3>1. {"iter", "body"} \subseteq DOMAIN h[c].slot /\ h[c].slot["iter"] # NULL /\ h[c].slot["body"] # NULL
      BY <2>1, FieldsUsed DEF Cell
    <3>2. "iter" \notin Lookup(Cleared, k) /\ "body" \notin Lookup(Cleared, k)
      BY FieldsUsed
    <3>3. x.slot["iter"] = <<m, h[c].slot["iter"]>> /\ x.slot["body"] = <<m, h[c].slot["body"]>>
      BY <1>4, <3>1, <3>2
    <3> QED
      BY <1>6, <3>3
  <2>6. <<m, c>>[1] \in Nat /\ 0 < <<m, c>>[1] /\ <<m, c>>[1] < m + 1
    OBVIOUS
  <2> HIDE DEF x, k
  <2> QED
    BY <2>1, <2>2, <2>3, <2>4, <2>5, <2>6 DEF Cell, x, k
<1>9. Sole(g)
  <2> SUFFICES ASSUME NEW b \in C, NEW c \in C, NEW s \in DOMAIN h[b].slot, NEW t \in DOMAIN h[c].slot,
                      g[<<m, b>>].slot[s] = g[<<m, c>>].slot[t], g[<<m, b>>].slot[s] # NULL
               PROVE  b = c /\ s = t
    BY <1>3, <1>4 DEF Sole
  <2>1. <<m, h[b].slot[s]>> = <<m, h[c].slot[t]>> /\ h[b].slot[s] \in C
    BY <1>5
  <2>2. h[b].slot[s] = h[c].slot[t] /\ h[b].slot[s] # NULL
    BY <1>1, <1>2, <2>1
  <2> QED
    BY <1>1, <1>2, <2>2 DEF Sole
<1>10. Top(g, {<<m, a>>})
  <2> SUFFICES ASSUME NEW c \in C, NEW s \in DOMAIN h[c].slot, g[<<m, c>>].slot[s] = <<m, a>> PROVE FALSE
    BY <1>3, <1>4 DEF Top
  <2>1. h[c].slot[s] = a
    <3>1. g[<<m, c>>].slot[s] = <<m, h[c].slot[s]>>
      BY <1>2, <1>5, <1>6
    <3> QED
      BY <3>1
  <2>2. {a} \in SUBSET DOMAIN h /\ c \in Reach(h, {a})
    BY <1>2
  <2>3. PICK L : Spans(h, {a}, L) /\ c \in L
    BY <1>1, <2>2, ReachSpans
  <2>4. h[c].slot[s] # a
    BY <2>3, NoCycle
  <2> QED
    BY <2>1, <2>4
<1>11. Spans(g, {<<m, a>>}, DOMAIN g)
  <2>1. {<<m, a>>} \subseteq DOMAIN g /\ Shut(g, DOMAIN g)
    BY <1>2, <1>3, <1>8 DEF Shape, Cell, Shut
  <2>2. ASSUME NEW Z \in SUBSET DOMAIN g, <<m, a>> \in Z, Shut(g, Z) PROVE DOMAIN g \subseteq Z
    <3> DEFINE Y == {c \in C : <<m, c>> \in Z} \cup (DOMAIN h \ C)
               W == {c \in C : <<m, c>> \in Z}
    <3>1. ASSUME NEW b \in W, NEW s \in DOMAIN h[b].slot, s \in Copied(h[b].kind), h[b].slot[s] # NULL,
                 s \notin Lookup(Cleared, h[b].kind)
          PROVE  h[b].slot[s] \in W
      <4>1. b \in C /\ <<m, b>> \in Z
        OBVIOUS
      <4>2. g[<<m, b>>].slot[s] = <<m, h[b].slot[s]>> /\ s \in DOMAIN g[<<m, b>>].slot
        BY <1>4, <3>1, <4>1
      <4>3. h[b].slot[s] \in C
        BY <1>2, <3>1, <4>1
      <4>4. <<m, h[b].slot[s]>> \in Z
        BY <1>6, <2>2, <4>1, <4>2, <4>3 DEF Shut
      <4> QED
        BY <4>3, <4>4
    <3>2. ASSUME NEW b \in W, NEW s \in DOMAIN h[b].slot, s \in Copied(h[b].kind)
          PROVE  s \notin Lookup(Cleared, h[b].kind)
      BY CopiedNotCleared, <3>2
    <3>3. W \in SUBSET DOMAIN h /\ a \in W
      BY <1>2, <2>2
    <3>4. C \subseteq W
      <4> HIDE DEF W
      <4> QED
        BY <1>2, <3>1, <3>2, <3>3
    <3> QED
      BY <1>3, <3>4
  <2> QED
    BY <2>1, <2>2 DEF Spans
<1> QED
  BY <1>3, <1>6, <1>8, <1>9, <1>10, <1>11 DEF Tree, g

-----------------------------------------------------------------------------
(* The heap after an operation. *)

\* What Grow gives.
LEMMA GrowIs ==
    ASSUME NEW h, NEW g
    PROVE  /\ DOMAIN Grow(h, g) = DOMAIN h \cup DOMAIN g
           /\ \A a \in DOMAIN g : Grow(h, g)[a] = g[a]
           /\ \A a \in DOMAIN h \ DOMAIN g : Grow(h, g)[a] = h[a]
BY DEF Grow

\* The addresses of a new operation are new.
LEMMA Fresh ==
    ASSUME NEW h, NEW n, Shape(h, n), NEW m \in Nat, n <= m
    PROVE  /\ \A a \in DOMAIN h : a[1] # m
           /\ \A x : <<m, x>> \notin DOMAIN h /\ (n > 0 => <<m, x>> # NULL)
<1>1. \A a \in DOMAIN h : a[1] \in Nat /\ a[1] < n /\ n \in Nat
  BY DEF Shape, Cell
<1>2. NULL[1] = 0 /\ n \in Nat
  BY DEF NULL, Shape
<1>3. \A x : <<m, x>>[1] = m
  OBVIOUS
<1> QED
  BY <1>1, <1>2, <1>3

\* A tree of its own is put beside the others.
LEMMA GraftGood ==
    ASSUME NEW h, NEW n, NEW R, NEW F, Good(h, n, R, F), NEW g, NEW m, NEW r, Tree(g, m, r), n <= m
    PROVE  Good(Grow(h, g), m + 1, R \cup {r}, F)
<1> DEFINE H == Grow(h, g)
<1>1. /\ Shape(h, n) /\ Sole(h) /\ Top(h, R) /\ F \subseteq DOMAIN h /\ Spans(h, R, DOMAIN h \ F)
      /\ n \in Nat /\ IsFiniteSet(DOMAIN h) /\ R \subseteq DOMAIN h
  BY DEF Good, Shape, Spans
<1>2. /\ m \in Nat /\ Shape(g, m + 1) /\ (\A b \in DOMAIN g : b[1] = m) /\ Sole(g) /\ Top(g, {r})
      /\ Spans(g, {r}, DOMAIN g) /\ IsFiniteSet(DOMAIN g) /\ r \in DOMAIN g
  BY DEF Tree, Shape, Spans
<1>3. DOMAIN h \cap DOMAIN g = {} /\ NULL \notin DOMAIN h /\ NULL \notin DOMAIN g
  BY <1>1, <1>2, Fresh, NotNull
<1>4. /\ DOMAIN H = DOMAIN h \cup DOMAIN g
      /\ \A a \in DOMAIN g : H[a] = g[a]
      /\ \A a \in DOMAIN h : H[a] = h[a]
  BY <1>3, GrowIs
<1> HIDE DEF H
<1>5. \A a \in DOMAIN h : \A s \in DOMAIN h[a].slot : h[a].slot[s] \in DOMAIN h \cup {NULL}
  BY <1>1 DEF Shape, Cell
<1>6. \A a \in DOMAIN g : \A s \in DOMAIN g[a].slot : g[a].slot[s] \in DOMAIN g \cup {NULL}
  BY <1>2 DEF Shape, Cell
<1>7. Shape(H, m + 1)
  <2>1. IsFiniteSet(DOMAIN H)
    BY <1>1, <1>2, <1>4, FS_Union
  <2>2. ASSUME NEW a \in DOMAIN h PROVE Cell(H, m + 1, a)
    <3>1. Cell(h, n, a) /\ H[a] = h[a]
      BY <1>1, <1>4 DEF Shape
    <3> QED
      BY <1>1, <1>2, <1>4, <3>1 DEF Cell
  <2>3. ASSUME NEW a \in DOMAIN g PROVE Cell(H, m + 1, a)
    <3>1. Cell(g, m + 1, a) /\ H[a] = g[a]
      BY <1>2, <1>4 DEF Shape
    <3> QED
      BY <1>4, <3>1 DEF Cell
  <2> QED
    BY <1>2, <1>4, <2>1, <2>2, <2>3 DEF Shape
<1>8. Sole(H)
  <2> SUFFICES ASSUME NEW a \in DOMAIN H, NEW b \in DOMAIN H, NEW s \in DOMAIN H[a].slot, NEW t \in DOMAIN H[b].slot,
                      H[a].slot[s] = H[b].slot[t], H[a].slot[s] # NULL
               PROVE  a = b /\ s = t
    BY DEF Sole
  <2>1. CASE a \in DOMAIN h /\ b \in DOMAIN h
    BY <1>1, <1>4, <2>1 DEF Sole
  <2>2. CASE a \in DOMAIN g /\ b \in DOMAIN g
    BY <1>2, <1>4, <2>2 DEF Sole
  <2>3. CASE a \in DOMAIN h /\ b \in DOMAIN g
    BY <1>3, <1>4, <1>5, <1>6, <2>3
  <2>4. CASE a \in DOMAIN g /\ b \in DOMAIN h
    BY <1>3, <1>4, <1>5, <1>6, <2>4
  <2> QED
    BY <1>4, <2>1, <2>2, <2>3, <2>4
<1>9. Top(H, R \cup {r})
  <2>1. ASSUME NEW a \in DOMAIN h, NEW s \in DOMAIN h[a].slot PROVE h[a].slot[s] \notin R \cup {r}
    BY <1>1, <1>2, <1>3, <1>5 DEF Top
  <2>2. ASSUME NEW a \in DOMAIN g, NEW s \in DOMAIN g[a].slot PROVE g[a].slot[s] \notin R \cup {r}
    BY <1>1, <1>2, <1>3, <1>6 DEF Top
  <2> QED
    BY <1>4, <2>1, <2>2 DEF Top
<1>10. Spans(H, R \cup {r}, DOMAIN H \ F)
  <2>1. R \cup {r} \subseteq DOMAIN H \ F /\ F \cap DOMAIN g = {}
    BY <1>1, <1>2, <1>3, <1>4 DEF Spans
  <2>2. Shut(H, DOMAIN H \ F)
    <3>1. ASSUME NEW a \in DOMAIN h \ F, NEW s \in DOMAIN h[a].slot PROVE h[a].slot[s] \in (DOMAIN H \ F) \cup {NULL}
      BY <1>1, <1>4 DEF Spans, Shut
    <3>2. ASSUME NEW a \in DOMAIN g, NEW s \in DOMAIN g[a].slot PROVE g[a].slot[s] \in (DOMAIN H \ F) \cup {NULL}
      BY <1>4, <1>6, <2>1
    <3> QED
      BY <1>4, <3>1, <3>2 DEF Shut
  <2>3. ASSUME NEW Z \in SUBSET DOMAIN H, R \cup {r} \subseteq Z, Shut(H, Z) PROVE DOMAIN H \ F \subseteq Z
    <3> DEFINE P == Z \cap DOMAIN h
               Q == Z \cap DOMAIN g
    <3>1. P \in SUBSET DOMAIN h /\ R \subseteq P /\ Shut(h, P)
      BY <1>1, <1>4, <1>5, <2>3 DEF Shut
    <3>2. Q \in SUBSET DOMAIN g /\ {r} \subseteq Q /\ Shut(g, Q)
      BY <1>2, <1>4, <1>6, <2>3 DEF Shut
    <3>3. DOMAIN h \ F \subseteq P
      <4> HIDE DEF P
      <4> QED
        BY <1>1, <3>1 DEF Spans
    <3>4. DOMAIN g \subseteq Q
      <4> HIDE DEF Q
      <4> QED
        BY <1>2, <3>2 DEF Spans
    <3> QED
      BY <1>4, <3>3, <3>4
  <2> QED
    BY <2>1, <2>2, <2>3 DEF Spans
<1> QED
  BY <1>1, <1>4, <1>7, <1>8, <1>9, <1>10 DEF Good, H

\* The allocations g are a node of kind k, with r in the field s0 and leaves
\* in the fields own.
IsNew(g, n, k, s0, r, own) ==
    /\ DOMAIN g = {<<n, "">>} \cup {<<n, s>> : s \in own}
    /\ g[<<n, "">>].kind = k /\ DOMAIN g[<<n, "">>].slot = Slots(k)
    /\ \A s \in Slots(k) : g[<<n, "">>].slot[s] = IF s = s0 THEN r ELSE IF s \in own THEN <<n, s>> ELSE NULL
    /\ \A s \in own : <<n, s>> # <<n, "">> /\ g[<<n, s>>].kind = "leaf" /\ DOMAIN g[<<n, s>>].slot = {}
    /\ IsFiniteSet(DOMAIN g)

\* What ast_new allocates.
LEMMA NewIs ==
    ASSUME NEW n, NEW k, NEW s0, NEW r
    PROVE  IsNew(ast_new(n, k, s0, r), n, k, s0, r, Slots(k) \ (BackFilled(k) \cup {s0}))
<1> DEFINE g    == ast_new(n, k, s0, r)
           own  == Slots(k) \ (BackFilled(k) \cup {s0})
           with == [s \in own \cup {s0} |-> IF s = s0 THEN r ELSE <<n, s>>]
           w    == <<n, "">>
<1>1. g = [a \in {w} \cup {<<n, s>> : s \in own} |-> IF a = w THEN Node(k, with) ELSE Leaf(a)]
  BY DEF ast_new
<1>2. Few(Slots(k))
  BY SlotsFew
<1>3. \A s \in own : <<n, s>> # w
  <2> SUFFICES ASSUME NEW s \in own, <<n, s>> = w PROVE FALSE
    OBVIOUS
  <2>1. <<n, s>>[2] = s /\ w[2] = ""
    OBVIOUS
  <2>2. s = ""
    BY <2>1
  <2> QED
    BY <1>2, <2>2 DEF Few
<1>4. Node(k, with).kind = k /\ Node(k, with).slot = [s \in Slots(k) |-> IF s \in DOMAIN with THEN with[s] ELSE NULL]
  BY DEF Node
<1>5. \A s \in Slots(k) : Node(k, with).slot[s] = IF s = s0 THEN r ELSE IF s \in own THEN <<n, s>> ELSE NULL
  BY <1>4
<1>6. \A a : Leaf(a).kind = "leaf" /\ DOMAIN Leaf(a).slot = {}
  BY DEF Leaf
<1>7. IsFiniteSet({w} \cup {<<n, s>> : s \in own})
  <2> DEFINE f == [s \in own |-> <<n, s>>]
             T == {f[s] : s \in own}
  <2>1. IsFiniteSet(own)
    BY <1>2, FS_Subset DEF Few
  <2>2. IsFiniteSet(T)
    <3>1. DOMAIN f = own
      OBVIOUS
    <3> HIDE DEF f
    <3> QED
      BY <2>1, <3>1, ImageFinite
  <2>3. {<<n, s>> : s \in own} = T
    OBVIOUS
  <2>4. IsFiniteSet({w})
    BY FS_Singleton
  <2> QED
    BY <2>2, <2>3, <2>4, FS_Union
<1> HIDE DEF with, own, w
<1>8. /\ DOMAIN g = {w} \cup {<<n, s>> : s \in own} /\ g[w] = Node(k, with)
      /\ \A s \in own : g[<<n, s>>] = Leaf(<<n, s>>)
  BY <1>1, <1>3
<1> HIDE DEF g
<1>9. /\ DOMAIN g = {w} \cup {<<n, s>> : s \in own}
      /\ g[w].kind = k /\ DOMAIN g[w].slot = Slots(k)
      /\ \A s \in Slots(k) : g[w].slot[s] = IF s = s0 THEN r ELSE IF s \in own THEN <<n, s>> ELSE NULL
      /\ \A s \in own : <<n, s>> # w /\ g[<<n, s>>].kind = "leaf" /\ DOMAIN g[<<n, s>>].slot = {}
      /\ IsFiniteSet(DOMAIN g)
  BY <1>3, <1>4, <1>5, <1>6, <1>7, <1>8
<1>10. IsNew(g, n, k, s0, r, own)
  BY <1>9 DEF IsNew, w
<1> QED
  BY <1>10 DEF g, own

\* What ast_new is given: a root for a source field of the node, or nothing.
Given(R, k, s0, r) == (r \in R /\ s0 \in Slots(k) \ BackFilled(k)) \/ (r = NULL /\ s0 = "")

\* A new node takes one of the roots, or none, as a child.
LEMMA AdoptGood ==
    ASSUME NEW h, NEW n, NEW R, NEW F, Good(h, n, R, F), n > 0, NEW k, NEW s0, NEW r, Given(R, k, s0, r)
    PROVE  Good(Grow(h, ast_new(n, k, s0, r)), n + 1, (R \ {r}) \cup {<<n, "">>}, F)
<1> DEFINE g == ast_new(n, k, s0, r)
           H == Grow(h, g)
           w == <<n, "">>
           own == Slots(k) \ (BackFilled(k) \cup {s0})
           new == {<<n, s>> : s \in own}
           T == (R \ {r}) \cup {w}
<1>1. /\ Shape(h, n) /\ Sole(h) /\ Top(h, R) /\ F \subseteq DOMAIN h /\ Spans(h, R, DOMAIN h \ F)
      /\ n \in Nat /\ IsFiniteSet(DOMAIN h) /\ R \subseteq DOMAIN h \ F
  BY DEF Good, Shape, Spans
<1>2. IsNew(g, n, k, s0, r, own)
  BY NewIs
<1>3. \A x : <<n, x>> \notin DOMAIN h /\ <<n, x>> # NULL /\ <<n, x>>[1] = n /\ <<n, x>>[2] = x
  BY <1>1, Fresh
<1>4. NULL \notin DOMAIN h
  BY <1>1, NotNull
<1>5. \A s : s \in own <=> s \in Slots(k) /\ s \notin BackFilled(k) /\ s # s0
  OBVIOUS
<1> HIDE DEF g, own
<1>6. /\ DOMAIN g = {w} \cup new /\ g[w].kind = k /\ DOMAIN g[w].slot = Slots(k)
      /\ \A s \in Slots(k) : g[w].slot[s] = IF s = s0 THEN r ELSE IF s \in own THEN <<n, s>> ELSE NULL
      /\ \A s \in own : <<n, s>> # w /\ g[<<n, s>>].kind = "leaf" /\ DOMAIN g[<<n, s>>].slot = {}
      /\ IsFiniteSet(DOMAIN g)
  BY <1>2 DEF IsNew
<1>7. /\ DOMAIN H = DOMAIN h \cup DOMAIN g
      /\ \A a \in DOMAIN g : H[a] = g[a]
      /\ \A a \in DOMAIN h \ DOMAIN g : H[a] = h[a]
  BY GrowIs
<1> HIDE DEF H
<1>8. w \notin new /\ w \notin DOMAIN h /\ w # NULL /\ \A a \in new : a \notin DOMAIN h
  BY <1>6, <1>3
<1>9. \A a \in new : a \in DOMAIN g /\ g[a].kind = "leaf" /\ DOMAIN g[a].slot = {}
  BY <1>6
<1>10. /\ DOMAIN H = DOMAIN h \cup {w} \cup new /\ w \notin DOMAIN h /\ w \notin new
       /\ H[w] = g[w] /\ \A a \in DOMAIN h : H[a] = h[a]
       /\ \A a \in new : a \notin DOMAIN h /\ H[a].kind = "leaf" /\ DOMAIN H[a].slot = {}
  <2> HIDE DEF w, new
  <2> QED
    BY <1>6, <1>7, <1>8, <1>9
<1>11. ASSUME NEW s \in Slots(k)
       PROVE  \/ H[w].slot[s] = NULL
              \/ H[w].slot[s] = r /\ s = s0 /\ r \in R
              \/ H[w].slot[s] = <<n, s>> /\ s \in own
  BY <1>6, <1>10 DEF Given
<1>12. /\ r \in R => s0 \in Slots(k) /\ H[w].slot[s0] = r
       /\ s0 \in Slots(k) => r \in R /\ s0 \notin BackFilled(k)
  <2>1. Few(Slots(k))
    BY SlotsFew
  <2> QED
    BY <1>1, <1>6, <1>4, <1>10, <2>1 DEF Given, Few
<1>13. \A s \in own : s \in Slots(k) /\ H[w].slot[s] = <<n, s>> /\ <<n, s>> \in new
  BY <1>5, <1>6, <1>10
<1>14. DOMAIN H[w].slot = Slots(k) /\ H[w].kind = k
  BY <1>6, <1>10
<1>15. \A a \in DOMAIN h : \A s \in DOMAIN h[a].slot : h[a].slot[s] \in (DOMAIN h \ R) \cup {NULL}
  BY <1>1 DEF Shape, Cell, Top
<1>16. w # NULL /\ new \cap DOMAIN h = {} /\ \A s \in Slots(k) : H[w].slot[s] \in R \cup new \cup {NULL}
  <2> HIDE DEF w, new
  <2> QED
    BY <1>8, <1>11, <1>13
<1> HIDE DEF w, own, new
<1>17. \A s \in Slots(k) : H[w].slot[s] \in DOMAIN H \cup {NULL}
  BY <1>1, <1>10, <1>11, <1>13
<1>18. Shape(H, n + 1)
  <2>1. IsFiniteSet(DOMAIN H)
    <3>1. IsFiniteSet(DOMAIN h \cup DOMAIN g)
      BY <1>1, <1>6, FS_Union
    <3> QED
      BY <1>7, <3>1
  <2>2. ASSUME NEW a \in DOMAIN h PROVE Cell(H, n + 1, a)
    <3>1. Cell(h, n, a) /\ H[a] = h[a]
      BY <1>1, <1>10 DEF Shape
    <3> QED
      BY <1>1, <1>10, <3>1 DEF Cell
  <2>3. ASSUME NEW a \in new PROVE Cell(H, n + 1, a)
    <3>1. a[1] = n
      BY <1>3 DEF new
    <3> QED
      BY <1>1, <1>10, <3>1 DEF Cell
  <2>4. Cell(H, n + 1, w)
    <3>1. w[1] = n
      BY DEF w
    <3>2. k = "AST_BINARY" => H[w].slot["lowered"] = NULL
      <4> SUFFICES ASSUME k = "AST_BINARY" PROVE H[w].slot["lowered"] = NULL
        OBVIOUS
      <4>1. "lowered" \in Slots(k) /\ "lowered" \in BackFilled(k)
        BY FieldsUsed DEF BackFilled
      <4>2. "lowered" # s0 /\ "lowered" \notin own
        <5> DEFINE l == "lowered"
        <5>1. l \in Slots(k) /\ l \in BackFilled(k)
          BY <4>1
        <5> HIDE DEF l
        <5>2. l # s0 /\ l \notin own
          BY <1>12, <1>5, <5>1
        <5> QED
          BY <5>2 DEF l
      <4> QED
        BY <1>11, <4>1, <4>2
    <3>3. k = "AST_FOR" => H[w].slot["iter"] # NULL /\ H[w].slot["body"] # NULL
      <4> SUFFICES ASSUME k = "AST_FOR", NEW s \in {"iter", "body"} PROVE H[w].slot[s] # NULL
        OBVIOUS
      <4>1. s \in Slots(k) /\ s \notin BackFilled(k)
        BY FieldsUsed DEF BackFilled
      <4>2. CASE s = s0
        BY <1>1, <1>4, <1>12, <4>1, <4>2, Zenon
      <4>3. CASE s # s0
        <5>1. s \in own
          BY <1>5, <4>1, <4>3
        <5> QED
          BY <1>3, <1>13, <5>1
      <4> QED
        BY <4>2, <4>3
    <3> QED
      BY <1>1, <1>14, <1>17, <3>1, <3>2, <3>3 DEF Cell
  <2> QED
    BY <1>1, <1>10, <2>1, <2>2, <2>3, <2>4 DEF Shape
<1>19. Sole(H)
  <2> SUFFICES ASSUME NEW a \in DOMAIN H, NEW b \in DOMAIN H, NEW s \in DOMAIN H[a].slot, NEW t \in DOMAIN H[b].slot,
                      H[a].slot[s] = H[b].slot[t], H[a].slot[s] # NULL
               PROVE  a = b /\ s = t
    BY DEF Sole
  <2>1. a \notin new /\ b \notin new
    BY <1>10
  <2>2. CASE a \in DOMAIN h /\ b \in DOMAIN h
    BY <1>1, <1>10, <2>2 DEF Sole
  <2>3. CASE a = w /\ b = w
    BY <1>1, <1>3, <1>11, <1>14, <2>3
  <2>4. CASE a = w /\ b \in DOMAIN h
    BY <1>4, <1>10, <1>14, <1>15, <1>16, <2>4
  <2>5. CASE a \in DOMAIN h /\ b = w
    BY <1>4, <1>10, <1>14, <1>15, <1>16, <2>5
  <2> QED
    BY <1>10, <2>1, <2>2, <2>3, <2>4, <2>5
<1>20. Top(H, T)
  <2>1. ASSUME NEW a \in DOMAIN h, NEW s \in DOMAIN h[a].slot PROVE h[a].slot[s] \notin T
    BY <1>1, <1>4, <1>10, <1>15, <1>16
  <2>2. ASSUME NEW s \in Slots(k) PROVE H[w].slot[s] \notin T
    <3>1. H[w].slot[s] # w
      BY <1>1, <1>10, <1>16
    <3> QED
      BY <1>1, <1>4, <1>11, <1>13, <1>16, <3>1
  <2> QED
    BY <1>10, <1>14, <2>1, <2>2 DEF Top
<1>21. Spans(H, T, DOMAIN H \ F)
  <2>1. T \subseteq DOMAIN H \ F
    BY <1>1, <1>10
  <2>2. Shut(H, DOMAIN H \ F)
    <3>1. ASSUME NEW a \in DOMAIN h \ F, NEW s \in DOMAIN h[a].slot PROVE h[a].slot[s] \in (DOMAIN H \ F) \cup {NULL}
      BY <1>1, <1>10 DEF Spans, Shut
    <3>2. ASSUME NEW s \in Slots(k) PROVE H[w].slot[s] \in (DOMAIN H \ F) \cup {NULL}
      BY <1>1, <1>10, <1>11, <1>13
    <3> QED
      BY <1>10, <1>14, <3>1, <3>2 DEF Shut
  <2>3. ASSUME NEW Z \in SUBSET DOMAIN H, T \subseteq Z, Shut(H, Z) PROVE DOMAIN H \ F \subseteq Z
    <3> DEFINE P == Z \cap DOMAIN h
    <3>1. w \in Z /\ \A s \in Slots(k) : H[w].slot[s] \in Z \cup {NULL}
      BY <1>14, <2>3 DEF Shut
    <3>2. new \subseteq Z
      BY <1>3, <1>13, <3>1 DEF new
    <3>3. R \subseteq P
      BY <1>1, <1>4, <1>12, <2>3, <3>1
    <3>4. P \in SUBSET DOMAIN h /\ Shut(h, P)
      BY <1>10, <1>15, <2>3 DEF Shut
    <3>5. DOMAIN h \ F \subseteq P
      <4> HIDE DEF P
      <4> QED
        BY <1>1, <3>3, <3>4 DEF Spans
    <3> QED
      BY <1>10, <3>1, <3>2, <3>5
  <2> HIDE DEF T
  <2> QED
    BY <2>1, <2>2, <2>3 DEF Spans
<1>22. F \subseteq DOMAIN H
  BY <1>1, <1>10
<1>23. Good(H, n + 1, T, F)
  BY <1>18, <1>19, <1>20, <1>21, <1>22 DEF Good
<1> QED
  BY <1>23 DEF H, g, w

-----------------------------------------------------------------------------
(* The steps of a rewriting: a pointer is dropped or set, a node is put over roots. *)

\* H is h with c in the field s of a.
Relinked(h, H, a, s, c) ==
    /\ DOMAIN H = DOMAIN h /\ \A b \in DOMAIN h \ {a} : H[b] = h[b]
    /\ H[a].kind = h[a].kind /\ DOMAIN H[a].slot = DOMAIN h[a].slot /\ H[a].slot[s] = c
    /\ \A t \in DOMAIN h[a].slot \ {s} : H[a].slot[t] = h[a].slot[t]

\* The pointers of H after the field s of a was set to c.
LEMMA RelinkedIs ==
    ASSUME NEW h, NEW H, NEW a \in DOMAIN h, NEW s, NEW c, Relinked(h, H, a, s, c)
    PROVE  /\ \A b \in DOMAIN h : H[b].kind = h[b].kind /\ DOMAIN H[b].slot = DOMAIN h[b].slot
           /\ \A b \in DOMAIN h : \A t \in DOMAIN h[b].slot :
                H[b].slot[t] = h[b].slot[t] \/ (b = a /\ t = s /\ H[b].slot[t] = c)
BY DEF Relinked

\* A pointer may be set to an allocation or to NULL, save those a loop needs.
LEMMA RelinkedShape ==
    ASSUME NEW h, NEW H, NEW n, Shape(h, n), NEW a \in DOMAIN h, NEW s, NEW c \in DOMAIN h \cup {NULL},
           Relinked(h, H, a, s, c), h[a].kind # "AST_FOR" \/ c # NULL \/ s \notin {"iter", "body"},
           h[a].kind = "AST_BINARY" => c = NULL \/ (H[a].slot["left"] = NULL \/ H[a].slot["lowered"] = NULL)
    PROVE  Shape(H, n)
<1>1. /\ \A b \in DOMAIN h : H[b].kind = h[b].kind /\ DOMAIN H[b].slot = DOMAIN h[b].slot
      /\ \A b \in DOMAIN h : \A t \in DOMAIN h[b].slot :
           H[b].slot[t] = h[b].slot[t] \/ (b = a /\ t = s /\ H[b].slot[t] = c)
      /\ DOMAIN H = DOMAIN h
  <2>1. DOMAIN H = DOMAIN h
    BY DEF Relinked
  <2> QED
    BY <2>1, RelinkedIs
<1>2. ASSUME NEW b \in DOMAIN h PROVE Cell(H, n, b)
  <2>1. Cell(h, n, b)
    BY DEF Shape
  <2>2. H[b].kind = "AST_BINARY" => H[b].slot["left"] = NULL \/ H[b].slot["lowered"] = NULL
    <3> SUFFICES ASSUME h[b].kind = "AST_BINARY"
                 PROVE  H[b].slot["left"] = NULL \/ H[b].slot["lowered"] = NULL
      BY <1>1
    <3>1. {"left", "lowered"} \subseteq DOMAIN h[b].slot
      BY <2>1, FieldsUsed DEF Cell
    <3> QED
      BY <1>1, <2>1, <3>1 DEF Cell
  <2>3. H[b].kind = "AST_FOR" => H[b].slot["iter"] # NULL /\ H[b].slot["body"] # NULL
    <3> SUFFICES ASSUME h[b].kind = "AST_FOR"
                 PROVE  H[b].slot["iter"] # NULL /\ H[b].slot["body"] # NULL
      BY <1>1
    <3>1. {"iter", "body"} \subseteq DOMAIN h[b].slot
      BY <2>1, FieldsUsed DEF Cell
    <3> QED
      BY <1>1, <2>1, <3>1 DEF Cell
  <2> QED
    BY <1>1, <2>1, <2>2, <2>3 DEF Cell
<1> QED
  BY <1>1, <1>2 DEF Shape

\* What a gives up becomes a root.
LEMMA UnlinkGood ==
    ASSUME NEW h, NEW n, NEW R, NEW F, Good(h, n, R, F), NEW a \in DOMAIN h \ F, NEW s \in DOMAIN h[a].slot,
           h[a].kind # "AST_FOR" \/ s \notin {"iter", "body"}, NEW H, Relinked(h, H, a, s, NULL)
    PROVE  Good(H, n, R \cup ({h[a].slot[s]} \ {NULL}), F)
<1> DEFINE c == h[a].slot[s]
           T == R \cup ({c} \ {NULL})
<1>1. /\ Shape(h, n) /\ Sole(h) /\ Top(h, R) /\ Spans(h, R, DOMAIN h \ F)
      /\ F \subseteq DOMAIN h /\ NULL \notin DOMAIN h
  BY NotNull DEF Good
<1>2. /\ DOMAIN H = DOMAIN h
      /\ \A b \in DOMAIN h : DOMAIN H[b].slot = DOMAIN h[b].slot
      /\ \A b \in DOMAIN h : \A t \in DOMAIN h[b].slot :
           IF b = a /\ t = s THEN H[b].slot[t] = NULL ELSE H[b].slot[t] = h[b].slot[t]
  BY DEF Relinked
<1>3. Shape(H, n)
  BY <1>1, RelinkedShape
<1>4. Sole(H)
  BY <1>1, <1>2 DEF Sole
<1>5. c \in (DOMAIN h \ F) \cup {NULL}
  BY <1>1 DEF Spans, Shut
<1> HIDE DEF c
<1>6. Top(H, T)
  <2> SUFFICES ASSUME NEW b \in DOMAIN h, NEW t \in DOMAIN h[b].slot PROVE H[b].slot[t] \notin T
    BY <1>2 DEF Top
  <2>1. CASE b = a /\ t = s
    <3>1. NULL \notin R
      BY <1>1 DEF Spans
    <3> QED
      BY <1>2, <2>1, <3>1
  <2>2. CASE b # a \/ t # s
    <3>1. H[b].slot[t] = h[b].slot[t] /\ h[b].slot[t] \notin R
      BY <1>1, <1>2, <2>2 DEF Top
    <3>2. h[b].slot[t] = c => c = NULL
      BY <1>1, <2>2 DEF Sole, c
    <3> QED
      BY <3>1, <3>2
  <2> QED
    BY <2>1, <2>2
<1>7. Spans(H, T, DOMAIN H \ F)
  <2>1. T \subseteq DOMAIN H \ F /\ Shut(H, DOMAIN H \ F)
    BY <1>1, <1>2, <1>5 DEF Spans, Shut
  <2>2. ASSUME NEW Z \in SUBSET DOMAIN H, T \subseteq Z, Shut(H, Z) PROVE DOMAIN H \ F \subseteq Z
    <3>1. Z \in SUBSET DOMAIN h /\ R \subseteq Z /\ c \in Z \cup {NULL}
      BY <1>2, <2>2
    <3>2. ASSUME NEW b \in Z, NEW t \in DOMAIN h[b].slot PROVE h[b].slot[t] \in Z \cup {NULL}
      <4>1. CASE b = a /\ t = s
        BY <3>1, <4>1 DEF c
      <4>2. CASE b # a \/ t # s
        BY <1>2, <2>2, <3>1, <4>2 DEF Shut
      <4> QED
        BY <4>1, <4>2
    <3>3. Shut(h, Z)
      BY <3>2 DEF Shut
    <3> QED
      BY <1>1, <1>2, <3>1, <3>3 DEF Spans
  <2> HIDE DEF T
  <2> QED
    BY <2>1, <2>2 DEF Spans
<1>8. Good(H, n, T, F)
  BY <1>1, <1>2, <1>3, <1>4, <1>6, <1>7 DEF Good
<1> QED
  BY <1>8 DEF c

\* R reaches a.
Reaches(h, R, a) == \A Z \in SUBSET DOMAIN h : R \subseteq Z /\ Shut(h, Z) => a \in Z

\* However the fields of a change and whatever is added, the way to a stays.
LEMMA StillReaches ==
    ASSUME NEW h, NEW n, NEW R, NEW F, Good(h, n, R, F), NEW a \in DOMAIN h \ F,
           NEW H, DOMAIN h \subseteq DOMAIN H, \A b \in DOMAIN h \ {a} : H[b] = h[b]
    PROVE  Reaches(H, R, a)
<1> SUFFICES ASSUME NEW Z \in SUBSET DOMAIN H, R \subseteq Z, Shut(H, Z), a \notin Z PROVE FALSE
  BY DEF Reaches
<1> DEFINE P == Z \cap DOMAIN h
<1>1. Shape(h, n) /\ Spans(h, R, DOMAIN h \ F)
  BY DEF Good
<1>2. P \in SUBSET DOMAIN h /\ R \subseteq P /\ a \notin P
  BY <1>1 DEF Spans
<1>3. Shut(h, P)
  <2> SUFFICES ASSUME NEW b \in P, NEW t \in DOMAIN h[b].slot PROVE h[b].slot[t] \in P \cup {NULL}
    BY DEF Shut
  <2>1. H[b] = h[b] /\ b \in Z
    BY <1>2
  <2>2. h[b].slot[t] \in DOMAIN h \cup {NULL}
    BY <1>1 DEF Shape, Cell
  <2> QED
    BY <2>1, <2>2 DEF Shut
<1> HIDE DEF P
<1> QED
  BY <1>1, <1>2, <1>3 DEF Spans

\* A root is put into an empty field of another tree.
LEMMA LinkGood ==
    ASSUME NEW h, NEW n, NEW R, NEW F, NEW x, x \notin R, Good(h, n, R \cup {x}, F),
           NEW a \in DOMAIN h \ F, Reaches(h, R, a), NEW s \in DOMAIN h[a].slot, h[a].slot[s] = NULL,
           NEW H, Relinked(h, H, a, s, x),
           h[a].kind = "AST_BINARY" => H[a].slot["left"] = NULL \/ H[a].slot["lowered"] = NULL
    PROVE  Good(H, n, R, F)
<1>1. /\ Shape(h, n) /\ Sole(h) /\ Top(h, R \cup {x}) /\ Spans(h, R \cup {x}, DOMAIN h \ F)
      /\ F \subseteq DOMAIN h /\ NULL \notin DOMAIN h
  BY NotNull DEF Good
<1>2. /\ DOMAIN H = DOMAIN h
      /\ \A b \in DOMAIN h : DOMAIN H[b].slot = DOMAIN h[b].slot
      /\ \A b \in DOMAIN h : \A t \in DOMAIN h[b].slot :
           IF b = a /\ t = s THEN H[b].slot[t] = x ELSE H[b].slot[t] = h[b].slot[t]
      /\ \A b \in DOMAIN h \ {a} : H[b] = h[b]
  BY DEF Relinked
<1>3. x \in DOMAIN h \ F /\ x # NULL /\ R \subseteq DOMAIN h \ F
  BY <1>1 DEF Spans
<1>4. \A b \in DOMAIN h : \A t \in DOMAIN h[b].slot : h[b].slot[t] # x /\ h[b].slot[t] \notin R
  BY <1>1 DEF Top
<1>5. Shape(H, n)
  BY <1>1, <1>3, RelinkedShape
<1>6. Sole(H)
  <2> SUFFICES ASSUME NEW b \in DOMAIN h, NEW c \in DOMAIN h, NEW t \in DOMAIN h[b].slot, NEW u \in DOMAIN h[c].slot,
                      H[b].slot[t] = H[c].slot[u], H[b].slot[t] # NULL
               PROVE  b = c /\ t = u
    BY <1>2 DEF Sole
  <2>1. CASE b = a /\ t = s
    BY <1>2, <1>4, <2>1
  <2>2. CASE c = a /\ u = s
    BY <1>2, <1>4, <2>2
  <2>3. CASE ~(b = a /\ t = s) /\ ~(c = a /\ u = s)
    <3>1. H[b].slot[t] = h[b].slot[t] /\ H[c].slot[u] = h[c].slot[u]
      BY <1>2, <2>3
    <3>2. h[b].slot[t] = h[c].slot[u] /\ h[b].slot[t] # NULL
      BY <3>1
    <3> QED
      BY <1>1, <3>2 DEF Sole
  <2> QED
    BY <2>1, <2>2, <2>3
<1>7. Top(H, R)
  BY <1>2, <1>4 DEF Top
<1>8. Shut(H, DOMAIN H \ F)
  BY <1>1, <1>2, <1>3 DEF Spans, Shut
<1>9. ASSUME NEW Z \in SUBSET DOMAIN H, R \subseteq Z, Shut(H, Z) PROVE DOMAIN H \ F \subseteq Z
  <2>1. Z \in SUBSET DOMAIN h
    BY <1>2
  <2>2. Shut(h, Z)
    <3> SUFFICES ASSUME NEW b \in Z, NEW t \in DOMAIN h[b].slot PROVE h[b].slot[t] \in Z \cup {NULL}
      BY DEF Shut
    <3>1. CASE b = a /\ t = s
      BY <3>1
    <3>2. CASE b # a \/ t # s
      BY <1>2, <1>9, <2>1, <3>2 DEF Shut
    <3> QED
      BY <3>1, <3>2
  <2>3. a \in Z
    BY <1>9, <2>1, <2>2 DEF Reaches
  <2>4. x \in Z
    BY <1>2, <1>3, <1>9, <2>3 DEF Shut
  <2> QED
    BY <1>1, <1>2, <1>9, <2>1, <2>2, <2>4 DEF Spans
<1>10. Spans(H, R, DOMAIN H \ F)
  BY <1>2, <1>3, <1>8, <1>9 DEF Spans
<1> QED
  BY <1>1, <1>2, <1>5, <1>6, <1>7, <1>10 DEF Good

\* H is h and the new allocation x at w.
Put(h, H, w, x) ==
    w \notin DOMAIN h /\ DOMAIN H = DOMAIN h \cup {w} /\ H[w] = x /\ \A b \in DOMAIN h : H[b] = h[b]

\* A new allocation takes some of the roots, each once.
LEMMA WrapGood ==
    ASSUME NEW h, NEW n, NEW R, NEW F, Good(h, n, R, F), NEW m \in Nat, n <= m,
           NEW w, w # NULL, w[1] \in Nat, 0 < w[1], w[1] < m, NEW x, NEW H, Put(h, H, w, x),
           DOMAIN x.slot \subseteq Slots(x.kind), x.kind # "leaf" => DOMAIN x.slot = Slots(x.kind),
           x.kind \notin {"AST_BINARY", "AST_FOR"},
           \A s \in DOMAIN x.slot : x.slot[s] \in R \cup {NULL},
           \A s, t \in DOMAIN x.slot : x.slot[s] = x.slot[t] /\ x.slot[s] # NULL => s = t,
           NEW T, \A b : b \in T <=> b = w \/ (b \in R /\ \A s \in DOMAIN x.slot : x.slot[s] # b)
    PROVE  Good(H, m, T, F)
<1>1. /\ Shape(h, n) /\ Sole(h) /\ Top(h, R) /\ Spans(h, R, DOMAIN h \ F)
      /\ F \subseteq DOMAIN h /\ NULL \notin DOMAIN h /\ R \subseteq DOMAIN h \ F
      /\ n \in Nat /\ IsFiniteSet(DOMAIN h)
  BY NotNull DEF Good, Spans, Shape
<1>2. w \notin DOMAIN h /\ DOMAIN H = DOMAIN h \cup {w} /\ H[w] = x /\ \A b \in DOMAIN h : H[b] = h[b]
  BY DEF Put
<1>3. \A b \in DOMAIN h : \A t \in DOMAIN h[b].slot : h[b].slot[t] \in (DOMAIN h \ R) \cup {NULL}
  BY <1>1 DEF Shape, Cell, Top
<1>4. Shape(H, m)
  <2>1. IsFiniteSet(DOMAIN h \cup {w})
    BY <1>1, FS_AddElement
  <2>2. ASSUME NEW b \in DOMAIN h PROVE Cell(H, m, b)
    <3>1. Cell(h, n, b) /\ H[b] = h[b]
      BY <1>1, <1>2 DEF Shape
    <3> QED
      BY <1>1, <1>2, <3>1 DEF Cell
  <2>3. Cell(H, m, w)
    BY <1>1, <1>2 DEF Cell
  <2> QED
    BY <1>2, <2>1, <2>2, <2>3 DEF Shape
<1>5. Sole(H)
  <2> SUFFICES ASSUME NEW b \in DOMAIN H, NEW c \in DOMAIN H, NEW t \in DOMAIN H[b].slot, NEW u \in DOMAIN H[c].slot,
                      H[b].slot[t] = H[c].slot[u], H[b].slot[t] # NULL
               PROVE  b = c /\ t = u
    BY DEF Sole
  <2>1. CASE b \in DOMAIN h /\ c \in DOMAIN h
    BY <1>1, <1>2, <2>1 DEF Sole
  <2>2. CASE b = w /\ c = w
    BY <1>2, <2>2
  <2>3. CASE b = w /\ c \in DOMAIN h
    BY <1>1, <1>2, <1>3, <2>3
  <2>4. CASE b \in DOMAIN h /\ c = w
    BY <1>1, <1>2, <1>3, <2>4
  <2> QED
    BY <1>2, <2>1, <2>2, <2>3, <2>4
<1>6. Top(H, T)
  <2>1. ASSUME NEW b \in DOMAIN h, NEW t \in DOMAIN h[b].slot PROVE h[b].slot[t] \notin T
    BY <1>1, <1>2, <1>3
  <2>2. ASSUME NEW t \in DOMAIN x.slot PROVE x.slot[t] \notin T
    BY <1>1, <1>2
  <2> QED
    BY <1>2, <2>1, <2>2 DEF Top
<1>7. Spans(H, T, DOMAIN H \ F)
  <2>1. T \subseteq DOMAIN H \ F
    BY <1>1, <1>2
  <2>2. Shut(H, DOMAIN H \ F)
    <3>1. ASSUME NEW b \in DOMAIN h \ F, NEW t \in DOMAIN h[b].slot PROVE h[b].slot[t] \in (DOMAIN H \ F) \cup {NULL}
      BY <1>1, <1>2 DEF Spans, Shut
    <3>2. ASSUME NEW t \in DOMAIN x.slot PROVE x.slot[t] \in (DOMAIN H \ F) \cup {NULL}
      BY <1>1, <1>2
    <3> QED
      BY <1>2, <3>1, <3>2 DEF Shut
  <2>3. ASSUME NEW Z \in SUBSET DOMAIN H, T \subseteq Z, Shut(H, Z) PROVE DOMAIN H \ F \subseteq Z
    <3> DEFINE P == Z \cap DOMAIN h
    <3>1. w \in Z /\ \A s \in DOMAIN x.slot : x.slot[s] \in Z \cup {NULL}
      BY <1>2, <2>3 DEF Shut
    <3>2. R \subseteq P
      BY <1>1, <2>3, <3>1
    <3>3. P \in SUBSET DOMAIN h /\ Shut(h, P)
      BY <1>2, <1>3, <2>3 DEF Shut
    <3>4. DOMAIN h \ F \subseteq P
      <4> HIDE DEF P
      <4> QED
        BY <1>1, <3>2, <3>3 DEF Spans
    <3> QED
      BY <1>2, <3>1, <3>4
  <2> QED
    BY <2>1, <2>2, <2>3 DEF Spans
<1> QED
  BY <1>1, <1>2, <1>4, <1>5, <1>6, <1>7 DEF Good

-----------------------------------------------------------------------------
(* What the checker does to a tree. *)

\* H is h with the allocations made and the fields of a set as `with' says.
Rewritten(h, H, made, a, with) ==
    /\ DOMAIN H = DOMAIN h \cup DOMAIN made
    /\ \A b \in DOMAIN made : H[b] = made[b]
    /\ \A b \in DOMAIN h : b \notin DOMAIN made /\ b # a => H[b] = h[b]
    /\ H[a].kind = h[a].kind /\ H[a].text = h[a].text /\ DOMAIN H[a].slot = DOMAIN h[a].slot
    /\ \A t \in DOMAIN h[a].slot : H[a].slot[t] = IF t \in DOMAIN with THEN with[t] ELSE h[a].slot[t]

\* What the heap is after made was built and a was refilled.
LEMMA RewrittenHeap ==
    ASSUME NEW a \in DOMAIN heap, NEW made, a \notin DOMAIN made, NEW with
    PROVE  Rewritten(heap, Grow(heap, Grow(made, Refill(a, with))), made, a, with)
<1> DEFINE x == With(heap[a], [s \in DOMAIN heap[a].slot |-> IF s \in DOMAIN with THEN with[s] ELSE heap[a].slot[s]])
           g == Refill(a, with)
           G == Grow(made, g)
           H == Grow(heap, G)
<1>1. g = [b \in {a} |-> x]
  BY DEF Refill
<1>2. /\ x.kind = heap[a].kind /\ x.text = heap[a].text /\ DOMAIN x.slot = DOMAIN heap[a].slot
      /\ \A t \in DOMAIN heap[a].slot : x.slot[t] = IF t \in DOMAIN with THEN with[t] ELSE heap[a].slot[t]
  BY DEF With
<1> HIDE DEF x
<1>3. DOMAIN g = {a} /\ g[a] = x
  BY <1>1
<1> HIDE DEF g
<1>4. DOMAIN G = DOMAIN made \cup {a} /\ G[a] = x /\ \A b \in DOMAIN made : G[b] = made[b]
  <2>1. /\ DOMAIN G = DOMAIN made \cup DOMAIN g /\ \A b \in DOMAIN g : G[b] = g[b]
        /\ \A b \in DOMAIN made \ DOMAIN g : G[b] = made[b]
    BY DEF Grow
  <2> HIDE DEF G
  <2> QED
    BY <1>3, <2>1
<1> HIDE DEF G
<1>5. /\ DOMAIN H = DOMAIN heap \cup DOMAIN made /\ H[a] = x /\ \A b \in DOMAIN made : H[b] = made[b]
      /\ \A b \in DOMAIN heap : b \notin DOMAIN made /\ b # a => H[b] = heap[b]
  <2>1. /\ DOMAIN H = DOMAIN heap \cup DOMAIN G /\ \A b \in DOMAIN G : H[b] = G[b]
        /\ \A b \in DOMAIN heap \ DOMAIN G : H[b] = heap[b]
    BY DEF Grow
  <2> HIDE DEF H
  <2> QED
    BY <1>4, <2>1
<1> HIDE DEF H
<1>6. Rewritten(heap, H, made, a, with)
  BY <1>2, <1>5 DEF Rewritten
<1> QED
  BY <1>6 DEF H, G, g

\* The heap with one more allocation.
LEMMA PutIs ==
    ASSUME NEW h, NEW w, w \notin DOMAIN h, NEW x
    PROVE  \E H : Put(h, H, w, x)
<1> DEFINE H == [b \in DOMAIN h \cup {w} |-> IF b = w THEN x ELSE h[b]]
<1>1. Put(h, H, w, x)
  BY DEF Put
<1> QED
  BY <1>1

\* The heap with one field changed.
LEMMA RelinkIs ==
    ASSUME NEW h, NEW a \in DOMAIN h, NEW s \in DOMAIN h[a].slot, NEW c
    PROVE  \E H : Relinked(h, H, a, s, c)
<1> DEFINE f == [t \in DOMAIN h[a].slot |-> IF t = s THEN c ELSE h[a].slot[t]]
           x == With(h[a], f)
           H == [b \in DOMAIN h |-> IF b = a THEN x ELSE h[b]]
<1>1. x.kind = h[a].kind /\ x.slot = f
  BY DEF With
<1>2. DOMAIN f = DOMAIN h[a].slot /\ f[s] = c /\ \A t \in DOMAIN h[a].slot \ {s} : f[t] = h[a].slot[t]
  OBVIOUS
<1> HIDE DEF f, x
<1>3. DOMAIN H = DOMAIN h /\ H[a] = x /\ \A b \in DOMAIN h \ {a} : H[b] = h[b]
  OBVIOUS
<1> HIDE DEF H
<1>4. Relinked(h, H, a, s, c)
  BY <1>1, <1>2, <1>3 DEF Relinked
<1> QED
  BY <1>4

\* Annotate puts one more leaf under a tree.
LEMMA AnnotateGood ==
    ASSUME NEW R, Good(heap, clock, R, freed), clock > 0, NEW a \in DOMAIN heap \ freed,
           NEW s \in DOMAIN heap[a].slot, Annotate(a, s)
    PROVE  Good(heap', clock', R, freed')
<1> DEFINE w    == <<clock, "">>
           made == [b \in {w} |-> Leaf(NULL)]
           with == [f \in {s} |-> w]
<1>1. /\ Shape(heap, clock) /\ Top(heap, R) /\ Spans(heap, R, DOMAIN heap \ freed) /\ clock \in Nat
      /\ Cell(heap, clock, a)
  BY DEF Good, Shape
<1>2. /\ s \in BackFilled(heap[a].kind) /\ s \notin {"lowered", "desugared"} /\ heap[a].slot[s] = NULL
      /\ heap' = Grow(heap, Grow(made, Refill(a, with))) /\ clock' = clock + 1
      /\ freed' = freed
  BY DEF Annotate, Built
<1>3. w \notin DOMAIN heap /\ w # NULL
  <2>1. \A x : <<clock, x>> \notin DOMAIN heap /\ (clock > 0 => <<clock, x>> # NULL)
    BY <1>1, Fresh
  <2> QED
    BY <2>1
<1>4. DOMAIN made = {w} /\ made[w] = Leaf(NULL) /\ \A f : f \in DOMAIN with <=> f = s
  OBVIOUS
<1>5. with[s] = w
  OBVIOUS
<1>6. w[1] = clock
  OBVIOUS
<1> HIDE DEF w, made, with
<1>7. Rewritten(heap, heap', made, a, with)
  BY <1>2, <1>3, <1>4, RewrittenHeap
<1>8. PICK h : Put(heap, h, w, Leaf(NULL))
  BY <1>3, PutIs
<1>9. Leaf(NULL).kind = "leaf" /\ DOMAIN Leaf(NULL).slot = {}
  BY DEF Leaf
<1>10. Good(h, clock + 1, R \cup {w}, freed)
  <2> DEFINE x == Leaf(NULL)
  <2>1. /\ DOMAIN x.slot \subseteq Slots(x.kind) /\ (x.kind # "leaf" => DOMAIN x.slot = Slots(x.kind))
        /\ x.kind \notin {"AST_BINARY", "AST_FOR"}
        /\ \A t \in DOMAIN x.slot : x.slot[t] \in R \cup {NULL}
        /\ \A t, u \in DOMAIN x.slot : x.slot[t] = x.slot[u] /\ x.slot[t] # NULL => t = u
        /\ \A b : b \in R \cup {w} <=> b = w \/ (b \in R /\ \A t \in DOMAIN x.slot : x.slot[t] # b)
    BY <1>9
  <2>2. clock + 1 \in Nat /\ clock <= clock + 1 /\ w[1] \in Nat /\ 0 < w[1] /\ w[1] < clock + 1
    BY <1>1, <1>6
  <2> HIDE DEF x
  <2>3. Put(heap, h, w, x)
    BY <1>8 DEF x
  <2> QED
    BY <1>3, <2>1, <2>2, <2>3, WrapGood
<1>11. /\ DOMAIN h = DOMAIN heap \cup {w} /\ h[w] = Leaf(NULL) /\ \A b \in DOMAIN heap : h[b] = heap[b]
  BY <1>8 DEF Put
<1>12. Relinked(h, heap', a, s, w)
  BY <1>3, <1>4, <1>5, <1>7, <1>11 DEF Relinked, Rewritten
<1>13. Reaches(h, R, a)
  BY <1>11, StillReaches
<1>14. heap[a].kind = "AST_BINARY" => heap'[a].slot["left"] = NULL \/ heap'[a].slot["lowered"] = NULL
  <2> SUFFICES ASSUME heap[a].kind = "AST_BINARY"
               PROVE  heap'[a].slot["left"] = NULL \/ heap'[a].slot["lowered"] = NULL
    OBVIOUS
  <2>1. {"left", "lowered"} \subseteq DOMAIN heap[a].slot
    BY <1>1, FieldsUsed DEF Cell
  <2>2. "left" # s /\ "lowered" # s
    BY <1>2 DEF BackFilled
  <2> QED
    BY <1>1, <1>4, <1>7, <2>1, <2>2 DEF Rewritten, Cell
<1>15. w \notin R
  BY <1>1, <1>3 DEF Spans
<1>16. Good(heap', clock + 1, R, freed)
  BY <1>2, <1>10, <1>11, <1>12, <1>13, <1>14, <1>15, LinkGood
<1> QED
  BY <1>2, <1>16

\* The fields of a new node.
LEMMA NodeIs ==
    ASSUME NEW k, NEW with
    PROVE  /\ Node(k, with).kind = k /\ DOMAIN Node(k, with).slot = Slots(k)
           /\ \A s \in Slots(k) : Node(k, with).slot[s] = IF s \in DOMAIN with THEN with[s] ELSE NULL
BY DEF Node

\* The two nodes of left.$op(right), and where they are put.
CallNodes(x, y, l, r, field) ==
    /\ x.kind = "AST_FIELD" /\ DOMAIN x.slot = Slots("AST_FIELD") /\ "object" \in DOMAIN x.slot
    /\ \A s \in DOMAIN x.slot : x.slot[s] = IF s = "object" THEN l ELSE NULL
    /\ y.kind = "AST_CALL" /\ DOMAIN y.slot = Slots("AST_CALL") /\ {"callee", "args"} \subseteq DOMAIN y.slot
    /\ \A s \in DOMAIN y.slot : y.slot[s] = IF s = "callee" THEN field ELSE IF s = "args" THEN r ELSE NULL

LEMMA CallNodesIs ==
    ASSUME NEW l, NEW r, NEW field
    PROVE  CallNodes(Node("AST_FIELD", [object |-> l]), Node("AST_CALL", [callee |-> field, args |-> r]), l, r, field)
<1> DEFINE u == [object |-> l]
           v == [callee |-> field, args |-> r]
           x == Node("AST_FIELD", u)
           y == Node("AST_CALL", v)
<1>1. (\A s : s \in DOMAIN u <=> s = "object") /\ u["object"] = l
  OBVIOUS
<1>2. (\A s : s \in DOMAIN v <=> s = "callee" \/ s = "args") /\ v["callee"] = field /\ v["args"] = r
  OBVIOUS
<1> HIDE DEF u, v
<1>3. /\ x.kind = "AST_FIELD" /\ DOMAIN x.slot = Slots("AST_FIELD")
      /\ \A s \in Slots("AST_FIELD") : x.slot[s] = IF s \in DOMAIN u THEN u[s] ELSE NULL
  BY NodeIs
<1>4. /\ y.kind = "AST_CALL" /\ DOMAIN y.slot = Slots("AST_CALL")
      /\ \A s \in Slots("AST_CALL") : y.slot[s] = IF s \in DOMAIN v THEN v[s] ELSE NULL
  BY NodeIs
<1> HIDE DEF x, y
<1>5. \A s \in DOMAIN x.slot : x.slot[s] = IF s = "object" THEN l ELSE NULL
  BY <1>1, <1>3
<1>6. \A s \in DOMAIN y.slot : y.slot[s] = IF s = "callee" THEN field ELSE IF s = "args" THEN r ELSE NULL
  BY <1>2, <1>4
<1>7. CallNodes(x, y, l, r, field)
  BY <1>3, <1>4, <1>5, <1>6, FieldsUsed DEF CallNodes
<1> QED
  BY <1>7 DEF x, y, u, v

\* H is h after the operands of a moved under the call.
CallMade(h, H, n, R, F, a, field, call, x, y) ==
    /\ Good(H, n + 1, R \cup {call}, F) /\ call \notin R /\ Reaches(H, R, a)
    /\ DOMAIN H = DOMAIN h \cup {field, call} /\ H[field] = x /\ H[call] = y
    /\ \A b \in DOMAIN h \ {a} : H[b] = h[b]
    /\ H[a].kind = h[a].kind /\ DOMAIN H[a].slot = DOMAIN h[a].slot
    /\ {"left", "right", "lowered"} \subseteq DOMAIN h[a].slot
    /\ \A t \in DOMAIN h[a].slot :
         H[a].slot[t] = IF t \in {"left", "right", "lowered"} THEN NULL ELSE h[a].slot[t]

\* The operands move from the binary node to the call, which nothing holds yet.
LEMMA CallGood ==
    ASSUME NEW h, NEW n, NEW R, NEW F, Good(h, n, R, F), NEW a \in DOMAIN h \ F,
           h[a].kind = "AST_BINARY", h[a].slot["left"] # NULL,
           NEW field, NEW call, field # call, {field, call} \cap DOMAIN h = {}, NULL \notin {field, call},
           field[1] = n, call[1] = n, n > 0,
           NEW x, NEW y, CallNodes(x, y, h[a].slot["left"], h[a].slot["right"], field)
    PROVE  \E H : CallMade(h, H, n, R, F, a, field, call, x, y)
<1> DEFINE l == h[a].slot["left"]
           r == h[a].slot["right"]
<1>1. /\ Shape(h, n) /\ Sole(h) /\ Top(h, R) /\ Spans(h, R, DOMAIN h \ F) /\ NULL \notin DOMAIN h
      /\ n \in Nat /\ R \subseteq DOMAIN h /\ Cell(h, n, a)
  BY NotNull DEF Good, Shape, Spans
<1>2. {"left", "right", "lowered"} \subseteq DOMAIN h[a].slot /\ h[a].slot["lowered"] = NULL
  BY <1>1, FieldsUsed DEF Cell
<1>3. PICK h1 : Relinked(h, h1, a, "left", NULL)
  BY <1>2, RelinkIs
<1>4. Good(h1, n, R \cup ({l} \ {NULL}), F)
  BY <1>2, <1>3, UnlinkGood
<1>5. /\ DOMAIN h1 = DOMAIN h /\ h1[a].kind = "AST_BINARY" /\ DOMAIN h1[a].slot = DOMAIN h[a].slot
      /\ h1[a].slot["left"] = NULL /\ \A t \in DOMAIN h[a].slot \ {"left"} : h1[a].slot[t] = h[a].slot[t]
      /\ \A b \in DOMAIN h \ {a} : h1[b] = h[b]
  BY <1>3 DEF Relinked
<1>6. h1[a].slot["right"] = r /\ "right" \in DOMAIN h1[a].slot
  BY <1>2, <1>5
<1>7. PICK h2 : Relinked(h1, h2, a, "right", NULL)
  BY <1>5, <1>6, RelinkIs
<1>8. Good(h2, n, R \cup ({l} \ {NULL}) \cup ({r} \ {NULL}), F)
  BY <1>4, <1>5, <1>6, <1>7, UnlinkGood
<1>9. /\ DOMAIN h2 = DOMAIN h /\ h2[a].kind = "AST_BINARY" /\ DOMAIN h2[a].slot = DOMAIN h[a].slot
      /\ \A t \in DOMAIN h[a].slot : h2[a].slot[t] = IF t \in {"left", "right", "lowered"} THEN NULL ELSE h[a].slot[t]
      /\ \A b \in DOMAIN h \ {a} : h2[b] = h[b]
  BY <1>2, <1>5, <1>7 DEF Relinked
<1>10. l \in DOMAIN h /\ l \notin R /\ l # NULL /\ l # r /\ r \in DOMAIN h \cup {NULL} /\ r \notin R
  <2>1. NULL \notin R
    BY <1>1
  <2> QED
    BY <1>1, <1>2, <2>1 DEF Cell, Top, Sole
<1>11. /\ x.kind = "AST_FIELD" /\ DOMAIN x.slot = Slots("AST_FIELD") /\ "object" \in DOMAIN x.slot
       /\ \A s \in DOMAIN x.slot : x.slot[s] = IF s = "object" THEN l ELSE NULL
       /\ y.kind = "AST_CALL" /\ DOMAIN y.slot = Slots("AST_CALL") /\ {"callee", "args"} \subseteq DOMAIN y.slot
       /\ \A s \in DOMAIN y.slot : y.slot[s] = IF s = "callee" THEN field ELSE IF s = "args" THEN r ELSE NULL
  BY DEF CallNodes
<1> HIDE DEF l, r
<1>12. PICK h3 : Put(h2, h3, field, x)
  BY <1>9, PutIs
<1>13. Good(h3, n + 1, R \cup ({r} \ {NULL}) \cup {field}, F)
  <2> DEFINE S == R \cup ({l} \ {NULL}) \cup ({r} \ {NULL})
             T == R \cup ({r} \ {NULL}) \cup {field}
  <2>1. /\ DOMAIN x.slot \subseteq Slots(x.kind) /\ (x.kind # "leaf" => DOMAIN x.slot = Slots(x.kind))
        /\ x.kind \notin {"AST_BINARY", "AST_FOR"}
        /\ \A s \in DOMAIN x.slot : x.slot[s] \in S \cup {NULL}
        /\ \A s, t \in DOMAIN x.slot : x.slot[s] = x.slot[t] /\ x.slot[s] # NULL => s = t
    BY <1>10, <1>11
  <2>2. \A b : b \in T <=> b = field \/ (b \in S /\ \A s \in DOMAIN x.slot : x.slot[s] # b)
    <3>1. \A b \in S : (\A s \in DOMAIN x.slot : x.slot[s] # b) <=> b # l
      BY <1>1, <1>10, <1>11
    <3> QED
      BY <1>10, <3>1
  <2>3. n + 1 \in Nat /\ n <= n + 1 /\ field[1] \in Nat /\ 0 < field[1] /\ field[1] < n + 1
    BY <1>1
  <2>4. Good(h2, n, S, F) /\ field # NULL
    BY <1>8
  <2> HIDE DEF S, T
  <2>5. Good(h3, n + 1, T, F)
    BY <1>12, <2>1, <2>2, <2>3, <2>4, WrapGood
  <2> QED
    BY <2>5 DEF T
<1>14. DOMAIN h3 = DOMAIN h \cup {field} /\ h3[field] = x /\ \A b \in DOMAIN h : h3[b] = h2[b]
  BY <1>9, <1>12 DEF Put
<1>15. PICK h4 : Put(h3, h4, call, y)
  BY <1>14, PutIs
<1>16. Good(h4, n + 1, R \cup {call}, F)
  <2> DEFINE S == R \cup ({r} \ {NULL}) \cup {field}
             T == R \cup {call}
  <2>1. /\ DOMAIN y.slot \subseteq Slots(y.kind) /\ (y.kind # "leaf" => DOMAIN y.slot = Slots(y.kind))
        /\ y.kind \notin {"AST_BINARY", "AST_FOR"}
        /\ \A s \in DOMAIN y.slot : y.slot[s] \in S \cup {NULL}
        /\ \A s, t \in DOMAIN y.slot : y.slot[s] = y.slot[t] /\ y.slot[s] # NULL => s = t
    BY <1>10, <1>11
  <2>2. \A b : b \in T <=> b = call \/ (b \in S /\ \A s \in DOMAIN y.slot : y.slot[s] # b)
    <3>1. \A b \in S : (\A s \in DOMAIN y.slot : y.slot[s] # b) <=> b # field /\ b # r
      BY <1>1, <1>10, <1>11
    <3> QED
      BY <1>1, <1>10, <3>1
  <2>3. n + 1 \in Nat /\ n + 1 <= n + 1 /\ call[1] \in Nat /\ 0 < call[1] /\ call[1] < n + 1
    BY <1>1
  <2>4. Good(h3, n + 1, S, F) /\ call # NULL
    BY <1>13
  <2> HIDE DEF S, T
  <2>5. Good(h4, n + 1, T, F)
    BY <1>15, <2>1, <2>2, <2>3, <2>4, WrapGood
  <2> QED
    BY <2>5 DEF T
<1>17. /\ DOMAIN h4 = DOMAIN h \cup {field, call} /\ h4[field] = x /\ h4[call] = y
       /\ \A b \in DOMAIN h : h4[b] = h2[b]
  BY <1>14, <1>15 DEF Put
<1>18. Reaches(h4, R, a)
  <2>1. DOMAIN h \subseteq DOMAIN h4 /\ \A b \in DOMAIN h \ {a} : h4[b] = h[b]
    BY <1>9, <1>17
  <2> QED
    BY <2>1, StillReaches
<1>19. call \notin R
  BY <1>1
<1>20. CallMade(h, h4, n, R, F, a, field, call, x, y)
  BY <1>2, <1>9, <1>16, <1>17, <1>18, <1>19 DEF CallMade
<1> QED
  BY <1>20

\* Lower moves the operands under the call, which is linked or freed.
LEMMA LowerGood ==
    ASSUME NEW R, Good(heap, clock, R, freed), clock > 0, NEW a \in DOMAIN heap \ freed,
           NEW ok \in BOOLEAN, Lower(a, ok)
    PROVE  Good(heap', clock', R, freed')
<1> DEFINE l     == heap[a].slot["left"]
           r     == heap[a].slot["right"]
           field == <<clock, "field">>
           call  == <<clock, "call">>
           x     == Node("AST_FIELD", [object |-> l])
           y     == Node("AST_CALL", [callee |-> field, args |-> r])
           made  == [b \in {field, call} |-> IF b = field THEN x ELSE y]
           c     == IF ok THEN call ELSE NULL
           with  == [left |-> NULL, right |-> NULL, lowered |-> c]
<1>1. clock \in Nat /\ Shape(heap, clock)
  BY DEF Good, Shape
<1>2. /\ heap[a].kind = "AST_BINARY" /\ l # NULL
      /\ heap' = Grow(heap, Grow(made, Refill(a, with))) /\ clock' = clock + 1
      /\ freed' = IF ok THEN freed ELSE freed \cup Released(heap', {call})
  BY DEF Lower, Built
<1>3. CallNodes(x, y, l, r, field)
  BY CallNodesIs
<1>4. /\ {field, call} \cap DOMAIN heap = {} /\ NULL \notin {field, call} /\ field # call
      /\ field[1] = clock /\ call[1] = clock
  <2>1. \A z : <<clock, z>> \notin DOMAIN heap /\ (clock > 0 => <<clock, z>> # NULL)
    BY <1>1, Fresh
  <2> QED
    BY <2>1
<1>5. DOMAIN made = {field, call}
  OBVIOUS
<1>6. made[field] = x /\ made[call] = y
  BY <1>4
<1>7. /\ \A t : t \in DOMAIN with <=> t \in {"left", "right", "lowered"}
      /\ with["left"] = NULL /\ with["right"] = NULL /\ with["lowered"] = c
  OBVIOUS
<1>8. c = IF ok THEN call ELSE NULL
  OBVIOUS
<1> HIDE DEF x, y, field, call, made, with, c
<1>9. Rewritten(heap, heap', made, a, with)
  BY <1>2, <1>4, <1>5, RewrittenHeap
<1>10. PICK h : CallMade(heap, h, clock, R, freed, a, field, call, x, y)
  BY <1>1, <1>2, <1>3, <1>4, CallGood
<1>11. /\ Good(h, clock + 1, R \cup {call}, freed) /\ call \notin R /\ Reaches(h, R, a)
       /\ DOMAIN h = DOMAIN heap \cup {field, call} /\ h[field] = x /\ h[call] = y
       /\ \A b \in DOMAIN heap \ {a} : h[b] = heap[b]
       /\ h[a].kind = heap[a].kind /\ DOMAIN h[a].slot = DOMAIN heap[a].slot
       /\ {"left", "right", "lowered"} \subseteq DOMAIN heap[a].slot
       /\ \A t \in DOMAIN heap[a].slot :
            h[a].slot[t] = IF t \in {"left", "right", "lowered"} THEN NULL ELSE heap[a].slot[t]
  BY <1>10 DEF CallMade
<1>12. /\ "lowered" \in DOMAIN h[a].slot /\ h[a].slot["lowered"] = NULL /\ h[a].kind = "AST_BINARY"
       /\ heap'[a].slot["left"] = NULL /\ a \in DOMAIN h \ freed
  BY <1>2, <1>7, <1>9, <1>11 DEF Rewritten
<1>13. Relinked(h, heap', a, "lowered", c)
  <2>1. DOMAIN heap' = DOMAIN h
    BY <1>5, <1>9, <1>11 DEF Rewritten
  <2>2. ASSUME NEW b \in DOMAIN h \ {a} PROVE heap'[b] = h[b]
    BY <1>5, <1>6, <1>9, <1>11 DEF Rewritten
  <2>3. heap'[a].kind = h[a].kind /\ DOMAIN heap'[a].slot = DOMAIN h[a].slot
    BY <1>9, <1>11 DEF Rewritten
  <2>4. heap'[a].slot["lowered"] = c
    BY <1>7, <1>9, <1>11 DEF Rewritten
  <2>5. ASSUME NEW t \in DOMAIN h[a].slot \ {"lowered"} PROVE heap'[a].slot[t] = h[a].slot[t]
    BY <1>7, <1>9, <1>11 DEF Rewritten
  <2> QED
    BY <2>1, <2>2, <2>3, <2>4, <2>5 DEF Relinked
<1>14. CASE ok
  <2>1. Relinked(h, heap', a, "lowered", call)
    BY <1>8, <1>13, <1>14
  <2>2. Good(heap', clock + 1, R, freed)
    BY <1>11, <1>12, <2>1, LinkGood
  <2> QED
    BY <1>2, <1>14, <2>2
<1>15. CASE ~ok
  <2> DEFINE T == (R \cup {call}) \cup ({h[a].slot["lowered"]} \ {NULL})
  <2>1. Relinked(h, heap', a, "lowered", NULL) /\ h[a].kind # "AST_FOR"
    BY <1>8, <1>12, <1>13, <1>15
  <2>2. Good(heap', clock + 1, T, freed)
    BY <1>11, <1>12, <2>1, UnlinkGood
  <2>3. T = R \cup {call} /\ T \ {call} = R /\ call \in T
    BY <1>11, <1>12
  <2> HIDE DEF T
  <2>4. Good(heap', clock + 1, T \ {call}, freed \cup Released(heap', {call}))
    BY <2>2, <2>3, FreeGood
  <2> QED
    BY <1>2, <1>15, <2>3, <2>4
<1> QED
  BY <1>14, <1>15

\* The while loop of the iterator protocol.
LEMMA LoopNodeIs ==
    ASSUME NEW i, NEW j, NEW x, x = Node("AST_WHILE", [cond |-> i, body |-> j])
    PROVE  /\ x.kind = "AST_WHILE" /\ DOMAIN x.slot = Slots("AST_WHILE") /\ {"cond", "body"} \subseteq DOMAIN x.slot
           /\ \A s \in DOMAIN x.slot : x.slot[s] = IF s = "cond" THEN i ELSE IF s = "body" THEN j ELSE NULL
<1> DEFINE v == [cond |-> i, body |-> j]
<1>1. (\A s : s \in DOMAIN v <=> s = "cond" \/ s = "body") /\ v["cond"] = i /\ v["body"] = j
  OBVIOUS
<1>2. x = Node("AST_WHILE", v)
  OBVIOUS
<1> HIDE DEF v
<1>3. /\ x.kind = "AST_WHILE" /\ DOMAIN x.slot = Slots("AST_WHILE")
      /\ \A s \in Slots("AST_WHILE") : x.slot[s] = IF s \in DOMAIN v THEN v[s] ELSE NULL
  BY <1>2, NodeIs
<1>4. \A s \in DOMAIN x.slot : x.slot[s] = IF s = "cond" THEN i ELSE IF s = "body" THEN j ELSE NULL
  BY <1>1, <1>3
<1> QED
  BY <1>3, <1>4, FieldsUsed

\* H is h, the trees g1 and g2 and the loop x around them, which nothing holds yet.
LoopMade(h, H, n, R, F, g1, g2, w, x) ==
    /\ Good(H, n + 3, R \cup {w}, F) /\ w \notin R /\ w \notin DOMAIN h
    /\ DOMAIN H = DOMAIN h \cup DOMAIN g1 \cup DOMAIN g2 \cup {w} /\ H[w] = x
    /\ \A b \in DOMAIN h : H[b] = h[b] /\ b \notin DOMAIN g1 /\ b \notin DOMAIN g2
    /\ \A b \in DOMAIN g1 : H[b] = g1[b] /\ b \notin DOMAIN g2 /\ b # w
    /\ \A b \in DOMAIN g2 : H[b] = g2[b] /\ b # w

\* Two trees are put beside the others and a loop around both.
LEMMA LoopGood ==
    ASSUME NEW h, NEW n, NEW R, NEW F, Good(h, n, R, F), n > 0, NEW i, NEW j, NEW g1, NEW g2,
           Tree(g1, n, i), Tree(g2, n + 1, j),
           NEW w, w # NULL, w[1] = n + 2, NEW x, x = Node("AST_WHILE", [cond |-> i, body |-> j])
    PROVE  \E H : LoopMade(h, H, n, R, F, g1, g2, w, x)
<1>1. n \in Nat /\ Shape(h, n) /\ R \subseteq DOMAIN h /\ NULL \notin DOMAIN h
  BY NotNull DEF Good, Shape, Spans
<1>2. /\ \A b \in DOMAIN h : b[1] \in Nat /\ b[1] < n
      /\ \A b \in DOMAIN g1 : b[1] = n
      /\ \A b \in DOMAIN g2 : b[1] = n + 1
      /\ i \in DOMAIN g1 /\ j \in DOMAIN g2
  BY <1>1 DEF Shape, Cell, Tree, Spans
<1> DEFINE h1 == Grow(h, g1)
           h2 == Grow(h1, g2)
<1>3. Good(h1, n + 1, R \cup {i}, F)
  <2>1. n <= n
    BY <1>1
  <2> QED
    BY <2>1, GraftGood
<1>4. /\ DOMAIN h1 = DOMAIN h \cup DOMAIN g1 /\ \A b \in DOMAIN g1 : h1[b] = g1[b]
      /\ \A b \in DOMAIN h \ DOMAIN g1 : h1[b] = h[b]
  BY DEF Grow
<1> HIDE DEF h1
<1>5. Good(h2, n + 2, R \cup {i} \cup {j}, F)
  <2>1. n + 1 <= n + 1 /\ (n + 1) + 1 = n + 2
    BY <1>1
  <2>2. Good(h2, (n + 1) + 1, R \cup {i} \cup {j}, F)
    BY <1>3, <2>1, GraftGood
  <2> QED
    BY <2>1, <2>2
<1>6. /\ DOMAIN h2 = DOMAIN h1 \cup DOMAIN g2 /\ \A b \in DOMAIN g2 : h2[b] = g2[b]
      /\ \A b \in DOMAIN h1 \ DOMAIN g2 : h2[b] = h1[b]
  BY DEF Grow
<1> HIDE DEF h2
<1>7. DOMAIN h \cap DOMAIN g1 = {} /\ DOMAIN h \cap DOMAIN g2 = {} /\ DOMAIN g1 \cap DOMAIN g2 = {}
  BY <1>1, <1>2
<1>8. /\ DOMAIN h2 = DOMAIN h \cup DOMAIN g1 \cup DOMAIN g2
      /\ \A b \in DOMAIN h : h2[b] = h[b]
      /\ \A b \in DOMAIN g1 : h2[b] = g1[b]
      /\ \A b \in DOMAIN g2 : h2[b] = g2[b]
  BY <1>4, <1>6, <1>7
<1>9. w \notin DOMAIN h2
  BY <1>1, <1>2, <1>8
<1>10. i \notin R /\ j \notin R /\ i # j /\ w \notin R /\ i # NULL /\ j # NULL /\ i # w /\ j # w
  <2>1. NULL \notin DOMAIN h2
    BY <1>5, NotNull DEF Good
  <2> QED
    BY <1>1, <1>2, <1>7, <1>8, <1>9, <2>1
<1>11. /\ x.kind = "AST_WHILE" /\ DOMAIN x.slot = Slots("AST_WHILE") /\ {"cond", "body"} \subseteq DOMAIN x.slot
       /\ \A s \in DOMAIN x.slot : x.slot[s] = IF s = "cond" THEN i ELSE IF s = "body" THEN j ELSE NULL
  BY LoopNodeIs
<1>12. PICK H : Put(h2, H, w, x)
  BY <1>9, PutIs
<1>13. Good(H, n + 3, R \cup {w}, F)
  <2> DEFINE S == R \cup {i} \cup {j}
             T == R \cup {w}
  <2>1. /\ DOMAIN x.slot \subseteq Slots(x.kind) /\ (x.kind # "leaf" => DOMAIN x.slot = Slots(x.kind))
        /\ x.kind \notin {"AST_BINARY", "AST_FOR"}
        /\ \A s \in DOMAIN x.slot : x.slot[s] \in S \cup {NULL}
        /\ \A s, t \in DOMAIN x.slot : x.slot[s] = x.slot[t] /\ x.slot[s] # NULL => s = t
    BY <1>10, <1>11
  <2>2. \A b : b \in T <=> b = w \/ (b \in S /\ \A s \in DOMAIN x.slot : x.slot[s] # b)
    <3>1. \A b \in S : (\A s \in DOMAIN x.slot : x.slot[s] # b) <=> b # i /\ b # j
      BY <1>1, <1>10, <1>11
    <3> QED
      BY <1>10, <3>1
  <2>3. n + 3 \in Nat /\ n + 2 <= n + 3 /\ w[1] \in Nat /\ 0 < w[1] /\ w[1] < n + 3
    BY <1>1
  <2>4. Good(h2, n + 2, S, F)
    BY <1>5
  <2> HIDE DEF S, T
  <2>5. Good(H, n + 3, T, F)
    BY <1>12, <2>1, <2>2, <2>3, <2>4, WrapGood
  <2> QED
    BY <2>5 DEF T
<1>14. /\ DOMAIN H = DOMAIN h \cup DOMAIN g1 \cup DOMAIN g2 \cup {w} /\ H[w] = x
       /\ \A b \in DOMAIN h : H[b] = h[b]
       /\ \A b \in DOMAIN g1 : H[b] = g1[b]
       /\ \A b \in DOMAIN g2 : H[b] = g2[b]
  BY <1>8, <1>12 DEF Put
<1>15. LoopMade(h, H, n, R, F, g1, g2, w, x)
  BY <1>7, <1>8, <1>9, <1>10, <1>13, <1>14 DEF LoopMade
<1> QED
  BY <1>15

\* What a tree in use points to is in use, and may be cloned if it is Cloneable.
LEMMA ChildClones ==
    ASSUME NEW R, Good(heap, clock, R, freed), clock > 0, NEW c \in DOMAIN heap \ freed, Cloneable(c),
           NEW m \in Nat, clock <= m
    PROVE  Tree(clone(heap, m, c), m, <<m, c>>)
<1>1. clock \in Nat
  BY DEF Good, Shape
<1>2. m > 0
  BY <1>1
<1>3. \A b \in Reach(heap, {c}) : heap[b].kind \notin NotCloned
  BY DEF Cloneable
<1> QED
  BY <1>2, <1>3, CloneTree

\* After desugaring, the heap has the clones g1 and g2 and one more node, no closure; a points to them.
LoopBuilt(a, g1, g2) ==
    /\ DOMAIN g1 \cup DOMAIN g2 \subseteq DOMAIN heap' /\ DOMAIN heap \subseteq DOMAIN heap'
    /\ \A b \in DOMAIN g1 : heap'[b] = g1[b]
    /\ \A b \in DOMAIN g2 : heap'[b] = g2[b]
    /\ \A b \in DOMAIN heap : heap'[b].kind = heap[b].kind /\ heap'[b].text = heap[b].text
                             /\ DOMAIN heap'[b].slot = DOMAIN heap[b].slot /\ (b # a => heap'[b] = heap[b])
    /\ \A b \in DOMAIN heap' \ DOMAIN heap : b \in DOMAIN g1 \/ b \in DOMAIN g2 \/ heap'[b].kind # "AST_CLOSURE"

\* Desugar hangs the clones, in a loop of their own, under the loop.  What was
\* there before is held by nothing any more.
LEMMA DesugarGood ==
    ASSUME NEW R, Good(heap, clock, R, freed), clock > 0, NEW a \in DOMAIN heap \ freed, Desugar(a)
    PROVE  /\ Good(heap', clock', R \cup ({heap[a].slot["desugared"]} \ {NULL}), freed')
           /\ LoopBuilt(a, clone(heap, clock, heap[a].slot["iter"]), clone(heap, clock + 1, heap[a].slot["body"]))
<1> DEFINE iter == heap[a].slot["iter"]
           body == heap[a].slot["body"]
           i    == <<clock, iter>>
           j    == <<clock + 1, body>>
           g1   == clone(heap, clock, iter)
           g2   == clone(heap, clock + 1, body)
           w    == <<clock + 2, "">>
           x    == Node("AST_WHILE", [cond |-> i, body |-> j])
           loop == [b \in {w} |-> x]
           made == Grow(Grow(g1, g2), loop)
           with == [desugared |-> w]
           Q    == R \cup ({heap[a].slot["desugared"]} \ {NULL})
<1>1. /\ clock \in Nat /\ Shape(heap, clock) /\ Cell(heap, clock, a) /\ NULL \notin DOMAIN heap
      /\ Shut(heap, DOMAIN heap \ freed)
  BY NotNull DEF Good, Shape, Spans
<1>2. /\ heap[a].kind = "AST_FOR" /\ Cloneable(iter) /\ Cloneable(body)
      /\ heap' = Grow(heap, Grow(made, Refill(a, with))) /\ clock' = clock + 3 /\ freed' = freed
  BY DEF Desugar, Built
<1>3. {"iter", "body", "desugared"} \subseteq DOMAIN heap[a].slot
  BY <1>1, <1>2, FieldsUsed DEF Cell
<1>4. iter \in DOMAIN heap \ freed /\ body \in DOMAIN heap \ freed
  BY <1>1, <1>2, <1>3 DEF Shut, Cell
<1>5. Tree(g1, clock, i) /\ Tree(g2, clock + 1, j)
  <2>1. clock + 1 \in Nat /\ clock <= clock /\ clock <= clock + 1
    BY <1>1
  <2> QED
    BY <1>1, <1>2, <1>4, <2>1, ChildClones
<1>6. w # NULL /\ w[1] = clock + 2
  <2>1. w[1] = clock + 2 /\ NULL[1] = 0
    BY DEF NULL
  <2>2. w[1] # NULL[1]
    BY <1>1, <2>1
  <2> QED
    BY <2>1, <2>2
<1>7. DOMAIN with = {"desugared"} /\ with["desugared"] = w
  OBVIOUS
<1>8. DOMAIN loop = {w} /\ loop[w] = x
  OBVIOUS
<1>9. x = Node("AST_WHILE", [cond |-> i, body |-> j])
  OBVIOUS
<1>10. PICK h0 : Relinked(heap, h0, a, "desugared", NULL)
  BY <1>3, RelinkIs
<1>11. Good(h0, clock, Q, freed)
  BY <1>3, <1>10, UnlinkGood
<1>12. /\ DOMAIN h0 = DOMAIN heap /\ \A b \in DOMAIN heap \ {a} : h0[b] = heap[b]
       /\ h0[a].kind = heap[a].kind /\ DOMAIN h0[a].slot = DOMAIN heap[a].slot /\ h0[a].slot["desugared"] = NULL
       /\ \A t \in DOMAIN heap[a].slot \ {"desugared"} : h0[a].slot[t] = heap[a].slot[t]
  BY <1>10 DEF Relinked
<1> HIDE DEF i, j, g1, g2, w, x, with, Q
<1>13. PICK h : LoopMade(h0, h, clock, Q, freed, g1, g2, w, x)
  BY <1>5, <1>6, <1>9, <1>11, LoopGood
<1>14. /\ Good(h, clock + 3, Q \cup {w}, freed) /\ w \notin Q /\ w \notin DOMAIN heap
       /\ DOMAIN h = DOMAIN heap \cup DOMAIN g1 \cup DOMAIN g2 \cup {w} /\ h[w] = x
       /\ \A b \in DOMAIN heap : h[b] = h0[b] /\ b \notin DOMAIN g1 /\ b \notin DOMAIN g2
       /\ \A b \in DOMAIN g1 : h[b] = g1[b] /\ b \notin DOMAIN g2 /\ b # w
       /\ \A b \in DOMAIN g2 : h[b] = g2[b] /\ b # w
  BY <1>12, <1>13 DEF LoopMade
<1>15. DOMAIN made = DOMAIN g1 \cup DOMAIN g2 \cup {w} /\ \A b \in DOMAIN made : made[b] = h[b]
  <2> DEFINE g == Grow(g1, g2)
  <2>1. /\ DOMAIN g = DOMAIN g1 \cup DOMAIN g2 /\ \A b \in DOMAIN g2 : g[b] = g2[b]
        /\ \A b \in DOMAIN g1 \ DOMAIN g2 : g[b] = g1[b]
    BY DEF Grow
  <2> HIDE DEF g
  <2>2. /\ DOMAIN made = DOMAIN g \cup DOMAIN loop /\ \A b \in DOMAIN loop : made[b] = loop[b]
        /\ \A b \in DOMAIN g \ DOMAIN loop : made[b] = g[b]
    <3> HIDE DEF loop
    <3>1. made = Grow(g, loop)
      BY DEF g
    <3> HIDE DEF made
    <3> QED
      BY <3>1 DEF Grow
  <2> HIDE DEF made, loop
  <2> QED
    BY <1>8, <1>14, <2>1, <2>2
<1> HIDE DEF made, loop
<1>16. Rewritten(heap, heap', made, a, with)
  BY <1>2, <1>14, <1>15, RewrittenHeap
<1>17. Relinked(h, heap', a, "desugared", w)
  <2>1. DOMAIN heap' = DOMAIN h
    BY <1>14, <1>15, <1>16 DEF Rewritten
  <2>2. ASSUME NEW b \in DOMAIN h \ {a} PROVE heap'[b] = h[b]
    BY <1>12, <1>14, <1>15, <1>16 DEF Rewritten
  <2>3. heap'[a].kind = h[a].kind /\ DOMAIN heap'[a].slot = DOMAIN h[a].slot
    BY <1>12, <1>14, <1>16 DEF Rewritten
  <2>4. heap'[a].slot["desugared"] = w
    BY <1>3, <1>7, <1>16 DEF Rewritten
  <2>5. ASSUME NEW t \in DOMAIN h[a].slot \ {"desugared"} PROVE heap'[a].slot[t] = h[a].slot[t]
    BY <1>7, <1>12, <1>14, <1>16 DEF Rewritten
  <2> QED
    BY <2>1, <2>2, <2>3, <2>4, <2>5 DEF Relinked
<1>18. Reaches(h, Q, a)
  <2>1. DOMAIN heap \subseteq DOMAIN h /\ \A b \in DOMAIN heap \ {a} : h[b] = heap[b]
    BY <1>12, <1>14
  <2>2. Reaches(h, R, a)
    BY <2>1, StillReaches
  <2>3. R \subseteq Q
    BY DEF Q
  <2> QED
    BY <2>2, <2>3 DEF Reaches
<1>19. /\ a \in DOMAIN h \ freed /\ "desugared" \in DOMAIN h[a].slot /\ h[a].slot["desugared"] = NULL
       /\ h[a].kind # "AST_BINARY"
  BY <1>2, <1>3, <1>12, <1>14
<1>20. Good(heap', clock + 3, Q, freed)
  BY <1>14, <1>17, <1>18, <1>19, LinkGood
<1>21. x.kind = "AST_WHILE"
  BY <1>9, LoopNodeIs
<1>22. LoopBuilt(a, g1, g2)
  <2>1. \A b \in DOMAIN made : heap'[b] = made[b] /\ made[b] = h[b]
    BY <1>15, <1>16 DEF Rewritten
  <2>2. \A b \in DOMAIN g1 : heap'[b] = g1[b]
    BY <1>14, <1>15, <2>1
  <2>3. \A b \in DOMAIN g2 : heap'[b] = g2[b]
    BY <1>14, <1>15, <2>1
  <2>4. heap'[w] = x /\ DOMAIN heap' = DOMAIN heap \cup DOMAIN g1 \cup DOMAIN g2 \cup {w}
    BY <1>14, <1>15, <1>16, <2>1 DEF Rewritten
  <2>5. \A b \in DOMAIN heap : b \notin DOMAIN made
    BY <1>14, <1>15
  <2>6. \A b \in DOMAIN heap : b # a => heap'[b] = heap[b]
    BY <1>16, <2>5 DEF Rewritten
  <2>7. heap'[a].kind = heap[a].kind /\ heap'[a].text = heap[a].text /\ DOMAIN heap'[a].slot = DOMAIN heap[a].slot
    BY <1>16 DEF Rewritten
  <2>8. \A b \in DOMAIN heap' \ DOMAIN heap : b \in DOMAIN g1 \/ b \in DOMAIN g2 \/ heap'[b].kind # "AST_CLOSURE"
    BY <1>21, <2>4
  <2> QED
    BY <2>2, <2>3, <2>4, <2>6, <2>7, <2>8 DEF LoopBuilt
<1>23. Good(heap', clock', Q, freed')
  BY <1>2, <1>20
<1> QED
  BY <1>22, <1>23 DEF Q, g1, g2

\* Clone puts a tree of its own beside the others.
LEMMA CloneGood ==
    ASSUME NEW R, Good(heap, clock, R, freed), clock > 0, NEW a \in DOMAIN heap \ freed, Clone(a)
    PROVE  Good(heap', clock', R \cup {<<clock, a>>}, freed')
<1>1. clock \in Nat /\ clock <= clock
  BY DEF Good, Shape
<1>2. /\ Cloneable(a) /\ heap' = Grow(heap, clone(heap, clock, a)) /\ clock' = clock + 1
      /\ freed' = freed
  BY DEF Clone, Built
<1>3. Tree(clone(heap, clock, a), clock, <<clock, a>>)
  BY <1>1, <1>2, ChildClones
<1>4. Good(Grow(heap, clone(heap, clock, a)), clock + 1, R \cup {<<clock, a>>}, freed)
  BY <1>1, <1>3, GraftGood
<1> QED
  BY <1>2, <1>4

-----------------------------------------------------------------------------
(* The invariant. *)

\* The heap is a forest under the roots and the lost trees Q, of which there are none
\* unless loops are desugared again; nothing was freed twice.
Kept(Q) ==
    /\ Good(heap, clock, roots \cup Q, freed) /\ roots \cap Q = {}
    /\ CheckedAgain = FALSE => Q = {}
    /\ clock > 0 /\ twice = FALSE

Inv == \E Q : Kept(Q)

\* No tree still held reaches freed memory and nothing was freed twice.
NoDangling == ~twice /\ Held \cap freed = {}

\* What is held was not freed; if no tree is lost, it is all that was not freed.
LEMMA HeldIs ==
    ASSUME NEW Q, Kept(Q)
    PROVE  Held \subseteq DOMAIN heap \ freed /\ (Q = {} => Held = DOMAIN heap \ freed)
<1>1. /\ Shape(heap, clock) /\ Spans(heap, roots \cup Q, DOMAIN heap \ freed)
      /\ roots \in SUBSET DOMAIN heap
  BY DEF Kept, Good, Spans
<1>2. Spans(heap, roots, Held)
  BY <1>1, ReachSpans DEF Held
<1>3. Held \subseteq DOMAIN heap \ freed
  BY <1>1, <1>2 DEF Spans
<1>4. ASSUME Q = {} PROVE Held = DOMAIN heap \ freed
  <2>1. roots \cup Q = roots
    BY <1>4
  <2>2. Spans(heap, roots, DOMAIN heap \ freed)
    BY <1>1, <2>1
  <2> QED
    BY <1>2, <2>2, SpansOne
<1> QED
  BY <1>3, <1>4

\* The invariant says what NoDangling and FreedOnce say.
LEMMA InvFreedOnce == ASSUME Inv PROVE NoDangling /\ (CheckedAgain = FALSE => FreedOnce)
<1>1. PICK Q : Kept(Q)
  BY DEF Inv
<1>2. Held \subseteq DOMAIN heap \ freed /\ (Q = {} => Held = DOMAIN heap \ freed)
  BY <1>1, HeldIs
<1>3. ~twice /\ (CheckedAgain = FALSE => Q = {})
  BY <1>1 DEF Kept
<1> QED
  BY <1>2, <1>3 DEF FreedOnce, NoDangling

\* The empty heap.
LEMMA InvInit == ASSUME Init PROVE Inv
<1>1. DOMAIN heap = {} /\ clock = 1 /\ freed = {} /\ twice = FALSE /\ roots = {}
  BY DEF Init
<1>2. Good(heap, clock, roots, freed)
  BY <1>1, FS_EmptySet DEF Good, Shape, Sole, Top, Spans, Shut
<1>3. roots \cup {} = roots
  OBVIOUS
<1>4. Kept({})
  BY <1>1, <1>2, <1>3 DEF Kept
<1> QED
  BY <1>4 DEF Inv

\* Every operation keeps the forest.
LEMMA InvNext == ASSUME Inv, [Next]_vars PROVE Inv'
<1>1. PICK Q : Kept(Q)
  BY DEF Inv
<1> DEFINE R == roots \cup Q
           w == <<clock, "">>
<1>2. /\ Good(heap, clock, R, freed) /\ roots \cap Q = {} /\ (CheckedAgain = FALSE => Q = {})
      /\ clock > 0 /\ twice = FALSE
  BY <1>1 DEF Kept
<1>3. Shape(heap, clock) /\ Top(heap, R) /\ clock \in Nat /\ R \subseteq DOMAIN heap
  BY <1>2 DEF Good, Shape, Spans
<1>4. \A x : <<clock, x>> \notin R
  <2>1. clock <= clock
    BY <1>3
  <2>2. \A x : <<clock, x>> \notin DOMAIN heap
    BY <1>3, <2>1, Fresh
  <2> QED
    BY <1>3, <2>2
<1>5. ASSUME NEW P, Good(heap', clock', roots' \cup P, freed'), roots' \cap P = {},
             CheckedAgain = FALSE => P = {}, clock' > 0, twice' = FALSE
      PROVE  Inv'
  BY <1>5 DEF Inv, Kept
<1>6. CASE BuildInner
  <2>1. PICK k : heap' = Grow(heap, ast_new(clock, k, "", NULL))
    BY <1>6 DEF BuildInner, Built
  <2>2. DOMAIN heap = {}
    <3>1. heap = <<>>
      BY <1>6 DEF BuildInner
    <3>2. DOMAIN <<>> = {}
      OBVIOUS
    <3> QED
      BY <3>1, <3>2, Zenon
  <2>3. roots' = {w} /\ freed' = freed
    BY <1>6 DEF BuildInner
  <2>4. R = {} /\ Q = {}
    BY <1>3, <2>2
  <2>5. Given(R, k, "", NULL)
    BY DEF Given
  <2>6. Good(heap', clock + 1, (R \ {NULL}) \cup {w}, freed)
    BY <1>2, <2>1, <2>5, AdoptGood
  <2>7. (R \ {NULL}) \cup {w} = roots' \cup Q /\ roots' \cap Q = {}
    BY <2>3, <2>4
  <2>8. clock' = clock + 1 /\ twice' = twice
    BY <1>6 DEF BuildInner, Built
  <2>9. Good(heap', clock', roots' \cup Q, freed')
    BY <2>3, <2>6, <2>7, <2>8
  <2>10. clock' > 0 /\ twice' = FALSE
    BY <1>2, <1>3, <2>8
  <2> QED
    BY <1>2, <1>5, <2>7, <2>9, <2>10
<1>7. CASE BuildOuter
  <2>1. PICK r \in roots, k \in OuterKinds :
          /\ \E s \in Slots(k) \ BackFilled(k) : Built(ast_new(clock, k, s, r), 1)
          /\ roots' = (roots \ {r}) \cup {w}
    BY <1>7 DEF BuildOuter
  <2>2. PICK s \in Slots(k) \ BackFilled(k) : heap' = Grow(heap, ast_new(clock, k, s, r)) /\ clock' = clock + 1
    BY <2>1 DEF Built
  <2>3. Given(R, k, s, r)
    BY DEF Given
  <2>4. Good(heap', clock + 1, (R \ {r}) \cup {w}, freed)
    BY <1>2, <2>2, <2>3, AdoptGood
  <2>5. freed' = freed /\ twice' = twice
    BY <1>7 DEF BuildOuter
  <2>6. (R \ {r}) \cup {w} = roots' \cup Q /\ roots' \cap Q = {}
    <3>1. w \notin R
      BY <1>4
    <3> HIDE DEF w
    <3> QED
      BY <1>2, <2>1, <3>1
  <2>7. Good(heap', clock', roots' \cup Q, freed')
    BY <2>2, <2>4, <2>5, <2>6
  <2>8. clock' > 0 /\ twice' = FALSE
    BY <1>2, <1>3, <2>2, <2>5
  <2> QED
    BY <1>2, <1>5, <2>6, <2>7, <2>8
<1>8. ASSUME NEW a \in Nodes \ freed,
             \/ Clone(a)
             \/ \E s \in DOMAIN heap[a].slot : Annotate(a, s)
             \/ \E ok \in BOOLEAN : Lower(a, ok)
             \/ Desugar(a)
      PROVE  Inv'
  <2>1. a \in DOMAIN heap \ freed
    BY <1>1, HeldIs DEF Nodes
  <2>2. CASE Clone(a)
    <3> DEFINE r == <<clock, a>>
    <3>1. clock' = clock + 1 /\ twice' = twice
      BY <2>2 DEF Clone, Built
    <3>2. roots' = roots \cup {r}
      BY <2>2 DEF Clone
    <3>3. Good(heap', clock', R \cup {r}, freed')
      BY <1>2, <2>1, <2>2, CloneGood
    <3>4. r \notin R
      BY <1>4
    <3> HIDE DEF r
    <3>5. R \cup {r} = roots' \cup Q /\ roots' \cap Q = {}
      BY <1>2, <3>2, <3>4
    <3>6. clock' > 0 /\ twice' = FALSE
      BY <1>2, <1>3, <3>1
    <3> QED
      BY <1>2, <1>5, <3>3, <3>5, <3>6
  <2>3. ASSUME NEW s \in DOMAIN heap[a].slot, Annotate(a, s) PROVE Inv'
    <3>1. clock' = clock + 1 /\ twice' = twice /\ roots' = roots
      BY <2>3 DEF Annotate, Built
    <3>2. Good(heap', clock', R, freed')
      BY <1>2, <2>1, <2>3, AnnotateGood
    <3>3. clock' > 0 /\ twice' = FALSE
      BY <1>2, <1>3, <3>1
    <3>4. R = roots' \cup Q /\ roots' \cap Q = {}
      BY <1>2, <3>1
    <3> QED
      BY <1>2, <1>5, <3>2, <3>3, <3>4
  <2>4. ASSUME NEW ok \in BOOLEAN, Lower(a, ok) PROVE Inv'
    <3>1. clock' = clock + 1 /\ twice' = twice /\ roots' = roots
      BY <2>4 DEF Lower, Built
    <3>2. Good(heap', clock', R, freed')
      BY <1>2, <2>1, <2>4, LowerGood
    <3>3. clock' > 0 /\ twice' = FALSE
      BY <1>2, <1>3, <3>1
    <3>4. R = roots' \cup Q /\ roots' \cap Q = {}
      BY <1>2, <3>1
    <3> QED
      BY <1>2, <1>5, <3>2, <3>3, <3>4
  <2>5. CASE Desugar(a)
    <3> DEFINE d == heap[a].slot["desugared"]
               P == Q \cup ({d} \ {NULL})
    <3>1. /\ clock' = clock + 3 /\ twice' = twice /\ roots' = roots /\ heap[a].kind = "AST_FOR"
          /\ d = NULL \/ CheckedAgain
      BY <2>5 DEF Desugar, Built
    <3>2. Good(heap', clock', R \cup ({d} \ {NULL}), freed')
      BY <1>2, <2>1, <2>5, DesugarGood
    <3>3. "desugared" \in DOMAIN heap[a].slot
      BY <1>3, <2>1, <3>1, FieldsUsed DEF Shape, Cell
    <3>4. d \notin R
      BY <1>3, <2>1, <3>3 DEF Top
    <3> HIDE DEF d
    <3>5. R \cup ({d} \ {NULL}) = roots' \cup P /\ roots' \cap P = {} /\ (CheckedAgain = FALSE => P = {})
      BY <1>2, <3>1, <3>4
    <3>6. clock' > 0 /\ twice' = FALSE
      BY <1>2, <1>3, <3>1
    <3> HIDE DEF P
    <3> QED
      BY <1>5, <3>2, <3>5, <3>6
  <2> QED
    BY <1>8, <2>2, <2>3, <2>4, <2>5
<1>9. ASSUME NEW r \in roots, Free(r) PROVE Inv'
  <2>1. /\ Released(heap, {r}) \cap freed = {}
        /\ Good(heap, clock, R \ {r}, freed \cup Released(heap, {r}))
    BY <1>2, FreeGood
  <2>2. /\ twice' = (twice \/ Released(heap, {r}) \cap freed /= {})
        /\ freed' = freed \cup Released(heap, {r}) /\ roots' = roots \ {r} /\ heap' = heap /\ clock' = clock
    BY <1>9 DEF Free
  <2>3. R \ {r} = roots' \cup Q /\ roots' \cap Q = {}
    BY <1>2, <2>2
  <2>4. twice' = FALSE
    BY <1>2, <2>1, <2>2
  <2> QED
    BY <1>2, <1>5, <2>1, <2>2, <2>3, <2>4
<1>10. CASE UNCHANGED vars
  BY <1>1, <1>10 DEF vars, Inv, Kept
<1> QED
  BY <1>6, <1>7, <1>8, <1>9, <1>10 DEF Next

-----------------------------------------------------------------------------
(* Clones are complete. *)

\* What the checker computed carries no text: the captures of a closure are blank.
Blank(x) == x.text = NULL /\ DOMAIN x.slot = {}
Sealed(h) ==
    \A b \in DOMAIN h :
        h[b].kind = "AST_CLOSURE" /\ h[b].slot["captures"] # NULL => Blank(h[h[b].slot["captures"]])

\* Z is closed under the fields that hold source.
Sprung(h, Z) ==
    \A b \in Z : \A s \in DOMAIN h[b].slot : s \in SourceSlots(h[b].kind) => h[b].slot[s] \in Z \cup {NULL}

\* Sources is what its definition says.
LEMMA SourcesLeast ==
    ASSUME NEW h, NEW n, Shape(h, n), NEW a \in DOMAIN h
    PROVE  LET S == Sources(h, {a})
           IN  /\ a \in S /\ S \subseteq DOMAIN h /\ Sprung(h, S)
               /\ \A Z \in SUBSET DOMAIN h : a \in Z /\ Sprung(h, Z) => S \subseteq Z
<1> DEFINE E == [b \in DOMAIN h |-> Targets(h, b, SourceSlots(h[b].kind))]
<1>1. \A b \in DOMAIN h : E[b] \subseteq DOMAIN h
  BY DEF Targets, Shape, Cell
<1>2. \A Z \in SUBSET DOMAIN h : Sprung(h, Z) <=> \A b \in Z : E[b] \subseteq Z
  BY DEF Targets, Sprung
<1>3. DOMAIN E = DOMAIN h /\ IsFiniteSet(DOMAIN h) /\ Sources(h, {a}) = Below(E, {a})
  BY DEF Shape, Sources
<1> HIDE DEF E
<1>4. LET B == Below(E, {a})
      IN  /\ B \in SUBSET DOMAIN h /\ {a} \subseteq B
          /\ \A b \in B : E[b] \subseteq B
          /\ \A Z \in SUBSET DOMAIN h : {a} \subseteq Z /\ (\A b \in Z : E[b] \subseteq Z) => B \subseteq Z
  BY <1>1, <1>3, BelowLeast
<1> QED
  BY <1>2, <1>3, <1>4

\* The fields a clone starts without.
LEMMA ClearedFields ==
    ASSUME NEW k, NEW s \in Lookup(Cleared, k)
    PROVE  \/ k = "AST_BINARY" /\ s = "lowered"
           \/ k = "AST_FOR" /\ s = "desugared"
           \/ k = "AST_CLOSURE" /\ s = "captures"
BY DEF Lookup, Cleared

\* The cells of a clone.
LEMMA CloneCells ==
    ASSUME NEW h, NEW m, NEW a, NEW g, g = clone(h, m, a), NEW c \in Copies(h, {a})
    PROVE  /\ <<m, c>> \in DOMAIN g /\ g[<<m, c>>].kind = h[c].kind /\ g[<<m, c>>].text = h[c].text
           /\ DOMAIN g[<<m, c>>].slot = DOMAIN h[c].slot
           /\ \A s \in DOMAIN h[c].slot : s \in Lookup(Cleared, h[c].kind) => g[<<m, c>>].slot[s] = NULL
<1>1. <<m, c>> \in DOMAIN g /\ g[<<m, c>>] = CloneCell(m, h[c])
  <2>1. <<m, c>>[2] = c
    OBVIOUS
  <2> QED
    BY <2>1 DEF clone
<1>2. /\ CloneCell(m, h[c]).kind = h[c].kind /\ CloneCell(m, h[c]).text = h[c].text
      /\ CloneCell(m, h[c]).slot = [s \in DOMAIN h[c].slot |-> CloneSlot(m, h[c].kind, s, h[c].slot[s])]
  BY DEF CloneCell, With
<1>3. \A s \in Lookup(Cleared, h[c].kind) : CloneSlot(m, h[c].kind, s, h[c].slot[s]) = NULL
  BY DEF CloneSlot
<1> QED
  BY <1>1, <1>2, <1>3

\* What ast_clone_deep copies of a tree no operator of which is lowered holds all its texts.
LEMMA CopiesTexts ==
    ASSUME NEW h, NEW n, Shape(h, n), Sealed(h), NEW a \in DOMAIN h,
           \A b \in Reach(h, {a}) : /\ h[b].kind \notin NotCloned
                                    /\ h[b].kind = "AST_BINARY" => h[b].slot["lowered"] = NULL
    PROVE  TextsOf(h, a) = {h[c].text : c \in Copies(h, {a})} \ {NULL}
<1> DEFINE C == Copies(h, {a})
           S == Sources(h, {a})
           N == {b \in DOMAIN h : Blank(h[b])}
<1>1. /\ a \in C /\ C \subseteq Reach(h, {a}) /\ C \subseteq DOMAIN h
      /\ \A b \in C : \A s \in DOMAIN h[b].slot :
           s \in Copied(h[b].kind) => h[b].slot[s] \in C \cup {NULL}
      /\ \A Z \in SUBSET DOMAIN h :
           /\ a \in Z
           /\ \A b \in Z : \A s \in DOMAIN h[b].slot :
                s \in Copied(h[b].kind) => h[b].slot[s] \in Z \cup {NULL}
           => C \subseteq Z
  BY CopiesLeast
<1>2. /\ a \in S /\ S \subseteq DOMAIN h /\ Sprung(h, S)
      /\ \A Z \in SUBSET DOMAIN h : a \in Z /\ Sprung(h, Z) => S \subseteq Z
  BY SourcesLeast
<1> HIDE DEF C, S
<1>3. C \subseteq S
  <2> SUFFICES ASSUME NEW b \in S, NEW s \in DOMAIN h[b].slot, s \in Copied(h[b].kind)
               PROVE  h[b].slot[s] \in S \cup {NULL}
    BY <1>1, <1>2
  <2>1. s \notin Lookup(Cleared, h[b].kind)
    BY CopiedNotCleared
  <2>2. s \in Slots(h[b].kind)
    BY DEF Slots
  <2>3. h[b].kind = "AST_FOR" => s # "desugared"
    <3> SUFFICES ASSUME h[b].kind = "AST_FOR", s = "desugared" PROVE FALSE
      OBVIOUS
    <3>1. "desugared" \in Lookup(Cleared, "AST_FOR")
      BY DEF Lookup, Cleared
    <3> QED
      BY <2>1, <3>1
  <2>4. s \in SourceSlots(h[b].kind)
    BY <2>2, <2>3 DEF SourceSlots
  <2> QED
    BY <1>2, <2>4 DEF Sprung
<1>4. S \subseteq C \cup N
  <2>1. C \cup N \in SUBSET DOMAIN h /\ a \in C \cup N
    BY <1>1
  <2>2. ASSUME NEW b \in C, NEW s \in DOMAIN h[b].slot, s \in SourceSlots(h[b].kind)
        PROVE  h[b].slot[s] \in C \cup N \cup {NULL}
    <3>1. /\ Cell(h, n, b) /\ h[b].kind \notin NotCloned
          /\ h[b].kind = "AST_BINARY" => h[b].slot["lowered"] = NULL
      BY <1>1 DEF Shape
    <3>2. s \in Slots(h[b].kind)
      BY <2>2 DEF SourceSlots
    <3>3. s \in Copied(h[b].kind) \/ s \in Lookup(Cleared, h[b].kind)
      BY <3>1, <3>2, SlotsCopied
    <3>4. CASE s \in Copied(h[b].kind)
      BY <1>1, <3>4
    <3>5. CASE h[b].kind = "AST_BINARY" /\ s = "lowered"
      BY <3>1, <3>5
    <3>6. CASE h[b].kind = "AST_FOR" /\ s = "desugared"
      BY <2>2, <3>6 DEF SourceSlots
    <3>7. CASE h[b].kind = "AST_CLOSURE" /\ s = "captures"
      <4>1. h[b].slot[s] \in DOMAIN h \cup {NULL}
        BY <3>1 DEF Cell
      <4>2. h[b].slot[s] # NULL => Blank(h[h[b].slot[s]])
        BY <1>1, <3>7 DEF Sealed
      <4> QED
        BY <4>1, <4>2
    <3> QED
      BY <3>3, <3>4, <3>5, <3>6, <3>7, ClearedFields
  <2>3. Sprung(h, C \cup N)
    BY <2>2 DEF Sprung, Blank
  <2> HIDE DEF N
  <2> QED
    BY <1>2, <2>1, <2>3
<1>5. \A b \in N : h[b].text = NULL
  BY DEF Blank
<1> HIDE DEF N
<1>6. TextsOf(h, a) = {h[b].text : b \in S} \ {NULL}
  BY DEF TextsOf, S
<1>7. {h[b].text : b \in S} \ {NULL} = {h[c].text : c \in C} \ {NULL}
  BY <1>3, <1>4, <1>5
<1> QED
  BY <1>6, <1>7 DEF C

\* A clone, as it stands in the heap H, has the texts of its source.
LEMMA CloneTexts ==
    ASSUME NEW h, NEW n, NEW R, NEW F, Good(h, n, R, F), Sealed(h), NEW a \in DOMAIN h \ F,
           \A b \in Reach(h, {a}) : /\ h[b].kind \notin NotCloned
                                    /\ h[b].kind = "AST_BINARY" => h[b].slot["lowered"] = NULL,
           NEW m \in Nat, m > 0, NEW H, NEW p, Shape(H, p),
           DOMAIN clone(h, m, a) \subseteq DOMAIN H, \A b \in DOMAIN clone(h, m, a) : H[b] = clone(h, m, a)[b]
    PROVE  TextsOf(H, <<m, a>>) = TextsOf(h, a)
<1> DEFINE g == clone(h, m, a)
           C == Copies(h, {a})
           r == <<m, a>>
           S == Sources(H, {r})
<1>1. Shape(h, n)
  BY DEF Good
<1>2. TextsOf(h, a) = {h[c].text : c \in C} \ {NULL}
  BY <1>1, CopiesTexts
<1>3. Tree(g, m, r)
  BY CloneTree
<1>4. DOMAIN g = {<<m, c>> : c \in C}
  BY DEF clone
<1>5. \A c \in C : /\ g[<<m, c>>].kind = h[c].kind /\ g[<<m, c>>].text = h[c].text
                   /\ DOMAIN g[<<m, c>>].slot = DOMAIN h[c].slot
                   /\ \A s \in DOMAIN h[c].slot : s \in Lookup(Cleared, h[c].kind) => g[<<m, c>>].slot[s] = NULL
  BY CloneCells
<1>6. DOMAIN g \subseteq DOMAIN H /\ \A b \in DOMAIN g : H[b] = g[b]
  OBVIOUS
<1> HIDE DEF g, C
<1>7. /\ Shape(g, m + 1) /\ r \in DOMAIN g /\ Shut(g, DOMAIN g)
      /\ \A Z \in SUBSET DOMAIN g : r \in Z /\ Shut(g, Z) => DOMAIN g \subseteq Z
  BY <1>3 DEF Tree, Spans
<1>8. /\ r \in S /\ S \subseteq DOMAIN H /\ Sprung(H, S)
      /\ \A Z \in SUBSET DOMAIN H : r \in Z /\ Sprung(H, Z) => S \subseteq Z
  <2>1. r \in DOMAIN H
    BY <1>6, <1>7
  <2> HIDE DEF r
  <2> QED
    BY <2>1, SourcesLeast
<1> HIDE DEF r, S
<1>9. S \subseteq DOMAIN g
  <2>1. Sprung(H, DOMAIN g)
    BY <1>6, <1>7 DEF Sprung, Shut
  <2> QED
    BY <1>6, <1>7, <1>8, <2>1
<1>10. DOMAIN g \subseteq S
  <2>1. Shut(g, S)
    <3> SUFFICES ASSUME NEW b \in S, NEW s \in DOMAIN g[b].slot PROVE g[b].slot[s] \in S \cup {NULL}
      BY DEF Shut
    <3>1. b \in DOMAIN g /\ H[b] = g[b] /\ Cell(g, m + 1, b)
      BY <1>6, <1>7, <1>9 DEF Shape
    <3>2. s \in Slots(g[b].kind)
      BY <3>1 DEF Cell
    <3>3. CASE s \in SourceSlots(g[b].kind)
      BY <1>8, <3>1, <3>3 DEF Sprung
    <3>4. CASE s \notin SourceSlots(g[b].kind)
      <4>1. PICK c \in C : b = <<m, c>>
        BY <1>4, <3>1
      <4>2. g[b].kind = "AST_FOR" /\ s = "desugared"
        BY <3>2, <3>4 DEF SourceSlots
      <4>3. "desugared" \in Lookup(Cleared, "AST_FOR")
        BY DEF Lookup, Cleared
      <4>4. h[c].kind = g[b].kind /\ s \in DOMAIN h[c].slot
        BY <1>5, <4>1
      <4>5. s \in Lookup(Cleared, h[c].kind)
        BY <4>2, <4>3, <4>4
      <4> QED
        BY <1>5, <4>1, <4>4, <4>5
    <3> QED
      BY <3>3, <3>4
  <2> QED
    BY <1>7, <1>8, <1>9, <2>1
<1>11. TextsOf(H, r) = {H[b].text : b \in S} \ {NULL}
  BY DEF TextsOf, S
<1>12. {H[b].text : b \in S} = {h[c].text : c \in C}
  <2>1. S = DOMAIN g
    BY <1>9, <1>10
  <2>2. \A b \in S : \E c \in C : H[b].text = h[c].text
    BY <1>4, <1>5, <1>6, <2>1
  <2>3. \A c \in C : \E b \in S : H[b].text = h[c].text
    BY <1>4, <1>5, <1>6, <2>1
  <2> QED
    BY <2>2, <2>3
<1> QED
  BY <1>2, <1>11, <1>12 DEF r


\* Captures are a field of a closure, back-filled by the checker and left out of clones.
LEMMA CapturesField ==
    /\ "captures" \in Slots("AST_CLOSURE") /\ "captures" \in Lookup(Cleared, "AST_CLOSURE")
    /\ \A k : "captures" \in BackFilled(k) /\ "" \notin BackFilled(k)
<1>1. "captures" \in Lookup(Cleared, "AST_CLOSURE")
  BY DEF Lookup, Cleared
<1>2. \A k : "captures" \in BackFilled(k) /\ "" \notin BackFilled(k)
  BY DEF BackFilled
<1> QED
  BY <1>1, <1>2 DEF Slots

\* The closures of H are those of h, with their captures or blank ones, and new ones without.
LEMMA SealedKept ==
    ASSUME NEW h, NEW n, Shape(h, n), Sealed(h), NEW H, DOMAIN h \subseteq DOMAIN H,
           \A b \in DOMAIN h : /\ H[b].kind = h[b].kind /\ H[b].text = h[b].text
                               /\ DOMAIN H[b].slot = DOMAIN h[b].slot,
           \A b \in DOMAIN h : h[b].kind = "AST_CLOSURE" =>
             H[b].slot["captures"] = h[b].slot["captures"] \/ Blank(H[H[b].slot["captures"]]),
           \A b \in DOMAIN H \ DOMAIN h : H[b].kind = "AST_CLOSURE" => H[b].slot["captures"] = NULL
    PROVE  Sealed(H)
<1> SUFFICES ASSUME NEW b \in DOMAIN H, H[b].kind = "AST_CLOSURE", H[b].slot["captures"] # NULL
             PROVE  Blank(H[H[b].slot["captures"]])
  BY DEF Sealed
<1> DEFINE c == h[b].slot["captures"]
<1>1. b \in DOMAIN h /\ h[b].kind = "AST_CLOSURE" /\ Cell(h, n, b)
  BY DEF Shape
<1>2. CASE H[b].slot["captures"] = c
  <2>1. c \in DOMAIN h
    BY <1>1, <1>2, CapturesField DEF Cell
  <2>2. Blank(h[c])
    BY <1>1, <1>2 DEF Sealed
  <2> HIDE DEF c
  <2>3. Blank(H[c])
    BY <2>1, <2>2 DEF Blank
  <2> QED
    BY <1>2, <2>3
<1> QED
  BY <1>1, <1>2

\* A clone has no captures.
LEMMA CloneSealed ==
    ASSUME NEW h, NEW n, Shape(h, n), NEW a \in DOMAIN h, NEW m, NEW b \in DOMAIN clone(h, m, a),
           clone(h, m, a)[b].kind = "AST_CLOSURE"
    PROVE  clone(h, m, a)[b].slot["captures"] = NULL
<1> DEFINE g == clone(h, m, a)
<1>1. PICK c \in Copies(h, {a}) : b = <<m, c>>
  BY DEF clone
<1>2. /\ g[b].kind = h[c].kind /\ DOMAIN g[b].slot = DOMAIN h[c].slot
      /\ \A s \in DOMAIN h[c].slot : s \in Lookup(Cleared, h[c].kind) => g[b].slot[s] = NULL
  BY <1>1, CloneCells
<1>3. c \in DOMAIN h
  BY <1>1, CopiesLeast
<1>4. Cell(h, n, c)
  BY <1>3 DEF Shape
<1> HIDE DEF g
<1>5. h[c].kind = "AST_CLOSURE"
  BY <1>2 DEF g
<1>6. "captures" \in DOMAIN h[c].slot
  BY <1>4, <1>5, CapturesField DEF Cell
<1> QED
  BY <1>2, <1>5, <1>6, CapturesField DEF g

\* Every operation leaves the captures blank.
LEMMA SealedNext == ASSUME Inv, Sealed(heap), [Next]_vars PROVE Sealed(heap')
<1>1. PICK Q : Kept(Q)
  BY DEF Inv
<1> DEFINE R == roots \cup Q
<1>2. Good(heap, clock, R, freed) /\ clock > 0
  BY <1>1 DEF Kept
<1>3. Shape(heap, clock) /\ clock \in Nat
  BY <1>2 DEF Good, Shape
<1>4. \A x : <<clock, x>> \notin DOMAIN heap /\ <<clock, x>> # NULL
  BY <1>2, <1>3, Fresh
<1>5. ASSUME NEW k, NEW s, NEW r, s \notin BackFilled(k), heap' = Grow(heap, ast_new(clock, k, s, r))
      PROVE  Sealed(heap')
  <2> DEFINE g   == ast_new(clock, k, s, r)
             own == Slots(k) \ (BackFilled(k) \cup {s})
             w   == <<clock, "">>
  <2>1. IsNew(g, clock, k, s, r, own)
    BY NewIs
  <2> HIDE DEF g
  <2>2. /\ DOMAIN g = {w} \cup {<<clock, t>> : t \in own} /\ g[w].kind = k
        /\ \A t \in Slots(k) : t # s /\ t \notin own => g[w].slot[t] = NULL
        /\ \A t \in own : g[<<clock, t>>].kind = "leaf"
    BY <2>1 DEF IsNew
  <2>3. DOMAIN g \cap DOMAIN heap = {}
    BY <1>4, <2>2
  <2>4. /\ DOMAIN heap' = DOMAIN heap \cup DOMAIN g
        /\ \A b \in DOMAIN g : heap'[b] = g[b]
        /\ \A b \in DOMAIN heap : heap'[b] = heap[b]
    <3>1. heap' = Grow(heap, g)
      BY <1>5 DEF g
    <3> QED
      BY <2>3, <3>1 DEF Grow
  <2>5. ASSUME NEW b \in DOMAIN g, g[b].kind = "AST_CLOSURE" PROVE g[b].slot["captures"] = NULL
    <3>1. b = w /\ k = "AST_CLOSURE"
      BY <2>2, <2>5
    <3>2. "captures" \in Slots(k) /\ "captures" # s /\ "captures" \notin own
      BY <1>5, <3>1, CapturesField
    <3> HIDE DEF own, w
    <3> QED
      BY <2>2, <3>1, <3>2
  <2> QED
    BY <1>3, <2>4, <2>5, SealedKept
<1>6. CASE BuildInner
  <2>1. PICK k : heap' = Grow(heap, ast_new(clock, k, "", NULL))
    BY <1>6 DEF BuildInner, Built
  <2> QED
    BY <1>5, <2>1, CapturesField
<1>7. CASE BuildOuter
  <2>1. PICK r \in roots, k \in OuterKinds : \E s \in Slots(k) \ BackFilled(k) : Built(ast_new(clock, k, s, r), 1)
    BY <1>7 DEF BuildOuter
  <2>2. PICK s \in Slots(k) \ BackFilled(k) : heap' = Grow(heap, ast_new(clock, k, s, r))
    BY <2>1 DEF Built
  <2> QED
    BY <1>5, <2>2
<1>8. ASSUME NEW a \in Nodes \ freed,
             \/ Clone(a)
             \/ \E s \in DOMAIN heap[a].slot : Annotate(a, s)
             \/ \E ok \in BOOLEAN : Lower(a, ok)
             \/ Desugar(a)
      PROVE  Sealed(heap')
  <2>1. a \in DOMAIN heap \ freed
    BY <1>1, HeldIs DEF Nodes
  <2>2. CASE Clone(a)
    <3> DEFINE g == clone(heap, clock, a)
    <3>1. heap' = Grow(heap, g)
      BY <2>2 DEF Clone, Built
    <3>2. \A b \in DOMAIN g : b \notin DOMAIN heap /\ (g[b].kind = "AST_CLOSURE" => g[b].slot["captures"] = NULL)
      <4>1. \A b \in DOMAIN g : b \notin DOMAIN heap
        BY <1>4 DEF clone
      <4> QED
        BY <1>3, <2>1, <4>1, CloneSealed
    <3> HIDE DEF g
    <3>3. /\ DOMAIN heap' = DOMAIN heap \cup DOMAIN g
          /\ \A b \in DOMAIN g : heap'[b] = g[b]
          /\ \A b \in DOMAIN heap : heap'[b] = heap[b]
      BY <3>1, <3>2 DEF Grow
    <3> QED
      BY <1>3, <3>2, <3>3, SealedKept
  <2>3. ASSUME NEW s \in DOMAIN heap[a].slot, Annotate(a, s) PROVE Sealed(heap')
    <3> DEFINE w    == <<clock, "">>
               made == [b \in {w} |-> Leaf(NULL)]
               with == [f \in {s} |-> w]
    <3>1. heap' = Grow(heap, Grow(made, Refill(a, with)))
      BY <2>3 DEF Annotate, Built
    <3>2. DOMAIN made = {w} /\ made[w] = Leaf(NULL)
      OBVIOUS
    <3>3. (\A f : f \in DOMAIN with <=> f = s) /\ with[s] = w
      OBVIOUS
    <3>4. w \notin DOMAIN heap
      BY <1>4
    <3> HIDE DEF w, made, with
    <3>5. Rewritten(heap, heap', made, a, with)
      BY <2>1, <3>1, <3>2, <3>4, RewrittenHeap
    <3>6. Blank(heap'[w]) /\ heap'[w].kind = "leaf"
      <4>1. heap'[w] = Leaf(NULL)
        BY <3>2, <3>5 DEF Rewritten
      <4> QED
        BY <4>1 DEF Leaf, Blank
    <3>7. /\ DOMAIN heap' = DOMAIN heap \cup {w}
          /\ \A b \in DOMAIN heap : b # a => heap'[b] = heap[b]
          /\ heap'[a].kind = heap[a].kind /\ heap'[a].text = heap[a].text
          /\ DOMAIN heap'[a].slot = DOMAIN heap[a].slot
          /\ \A t \in DOMAIN heap[a].slot : heap'[a].slot[t] = IF t = s THEN w ELSE heap[a].slot[t]
      BY <3>2, <3>3, <3>4, <3>5 DEF Rewritten
    <3>8. heap[a].kind = "AST_CLOSURE" => "captures" \in DOMAIN heap[a].slot
      BY <1>3, <2>1, CapturesField DEF Shape, Cell
    <3>9. ASSUME NEW b \in DOMAIN heap, heap[b].kind = "AST_CLOSURE"
          PROVE  heap'[b].slot["captures"] = heap[b].slot["captures"] \/ Blank(heap'[heap'[b].slot["captures"]])
      BY <3>6, <3>7, <3>8, <3>9
    <3> QED
      BY <1>3, <3>6, <3>7, <3>9, SealedKept
  <2>4. ASSUME NEW ok \in BOOLEAN, Lower(a, ok) PROVE Sealed(heap')
    <3> DEFINE field == <<clock, "field">>
               call  == <<clock, "call">>
               x     == Node("AST_FIELD", [object |-> heap[a].slot["left"]])
               y     == Node("AST_CALL", [callee |-> field, args |-> heap[a].slot["right"]])
               made  == [b \in {field, call} |-> IF b = field THEN x ELSE y]
               with  == [left |-> NULL, right |-> NULL, lowered |-> IF ok THEN call ELSE NULL]
    <3>1. heap[a].kind = "AST_BINARY" /\ heap' = Grow(heap, Grow(made, Refill(a, with)))
      BY <2>4 DEF Lower, Built
    <3>2. x.kind = "AST_FIELD" /\ y.kind = "AST_CALL"
      BY NodeIs
    <3>3. field \notin DOMAIN heap /\ call \notin DOMAIN heap
      BY <1>4
    <3>4. DOMAIN made = {field, call}
      OBVIOUS
    <3>5. \A b \in DOMAIN made : made[b].kind # "AST_CLOSURE"
      <4> HIDE DEF x, y, field, call
      <4> QED
        BY <3>2
    <3> HIDE DEF x, y, field, call, made, with
    <3>6. Rewritten(heap, heap', made, a, with)
      BY <2>1, <3>1, <3>3, <3>4, RewrittenHeap
    <3>7. /\ DOMAIN heap' = DOMAIN heap \cup DOMAIN made
          /\ \A b \in DOMAIN made : heap'[b].kind # "AST_CLOSURE"
          /\ \A b \in DOMAIN heap : b # a => heap'[b] = heap[b]
          /\ heap'[a].kind = heap[a].kind /\ heap'[a].text = heap[a].text
          /\ DOMAIN heap'[a].slot = DOMAIN heap[a].slot
      BY <3>3, <3>4, <3>5, <3>6 DEF Rewritten
    <3> QED
      BY <1>3, <3>1, <3>7, SealedKept
  <2>5. CASE Desugar(a)
    <3> DEFINE iter == heap[a].slot["iter"]
               body == heap[a].slot["body"]
               g1   == clone(heap, clock, iter)
               g2   == clone(heap, clock + 1, body)
    <3>1. heap[a].kind = "AST_FOR"
      BY <2>5 DEF Desugar
    <3>2. LoopBuilt(a, g1, g2)
      BY <1>2, <2>1, <2>5, DesugarGood
    <3>3. iter \in DOMAIN heap /\ body \in DOMAIN heap
      BY <1>3, <2>1, <3>1, FieldsUsed DEF Shape, Cell
    <3>4. \A b \in DOMAIN g1 : g1[b].kind = "AST_CLOSURE" => g1[b].slot["captures"] = NULL
      BY <1>3, <3>3, CloneSealed
    <3>5. \A b \in DOMAIN g2 : g2[b].kind = "AST_CLOSURE" => g2[b].slot["captures"] = NULL
      BY <1>3, <3>3, CloneSealed
    <3> HIDE DEF g1, g2
    <3>6. /\ DOMAIN heap \subseteq DOMAIN heap'
          /\ \A b \in DOMAIN heap : /\ heap'[b].kind = heap[b].kind /\ heap'[b].text = heap[b].text
                                    /\ DOMAIN heap'[b].slot = DOMAIN heap[b].slot
                                    /\ b # a => heap'[b] = heap[b]
          /\ \A b \in DOMAIN heap' \ DOMAIN heap : heap'[b].kind = "AST_CLOSURE" => heap'[b].slot["captures"] = NULL
      BY <3>2, <3>4, <3>5 DEF LoopBuilt
    <3>7. \A b \in DOMAIN heap : heap[b].kind = "AST_CLOSURE" => heap'[b].slot["captures"] = heap[b].slot["captures"]
      BY <3>1, <3>6
    <3> QED
      BY <1>3, <3>6, <3>7, SealedKept
  <2> QED
    BY <1>8, <2>2, <2>3, <2>4, <2>5
<1>9. ASSUME NEW r \in roots, Free(r) PROVE Sealed(heap')
  BY <1>9 DEF Free
<1>10. CASE UNCHANGED vars
  BY <1>10 DEF vars
<1> QED
  BY <1>6, <1>7, <1>8, <1>9, <1>10 DEF Next

\* No clone loses a text, unless lowered operators are cloned.
LEMMA LossyNext ==
    ASSUME CheckedAgain = FALSE, Inv, Inv', Sealed(heap), lossy = FALSE, [Next]_vars
    PROVE  lossy' = FALSE
<1>1. PICK Q : Kept(Q)
  BY DEF Inv
<1> DEFINE R == roots \cup Q
<1>2. Good(heap, clock, R, freed) /\ clock > 0
  BY <1>1 DEF Kept
<1>3. Shape(heap, clock) /\ clock \in Nat /\ Shut(heap, DOMAIN heap \ freed)
  BY <1>2 DEF Good, Shape, Spans
<1>4. Shape(heap', clock')
  BY DEF Inv, Kept, Good
<1>5. ASSUME NEW c \in DOMAIN heap \ freed, Cloneable(c), NEW m \in Nat, m > 0,
             DOMAIN clone(heap, m, c) \subseteq DOMAIN heap',
             \A b \in DOMAIN clone(heap, m, c) : heap'[b] = clone(heap, m, c)[b]
      PROVE  TextsOf(heap', <<m, c>>) = TextsOf(heap, c)
  <2>1. \A b \in Reach(heap, {c}) : /\ heap[b].kind \notin NotCloned
                                    /\ heap[b].kind = "AST_BINARY" => heap[b].slot["lowered"] = NULL
    BY <1>5 DEF Cloneable
  <2> QED
    BY <1>2, <1>4, <1>5, <2>1, CloneTexts
<1>6. ASSUME NEW a \in Nodes \ freed, Clone(a) PROVE lossy' = FALSE
  <2>1. a \in DOMAIN heap \ freed
    BY <1>1, HeldIs DEF Nodes
  <2>2. /\ Cloneable(a) /\ heap' = Grow(heap, clone(heap, clock, a))
        /\ lossy' = (lossy \/ TextsOf(heap', <<clock, a>>) /= TextsOf(heap, a))
    BY <1>6 DEF Clone, Built
  <2>3. TextsOf(heap', <<clock, a>>) = TextsOf(heap, a)
    BY <1>2, <1>3, <1>5, <2>1, <2>2, GrowIs
  <2> QED
    BY <2>2, <2>3
<1>7. ASSUME NEW a \in Nodes \ freed, Desugar(a) PROVE lossy' = FALSE
  <2> DEFINE iter == heap[a].slot["iter"]
             body == heap[a].slot["body"]
             g1   == clone(heap, clock, iter)
             g2   == clone(heap, clock + 1, body)
  <2>1. a \in DOMAIN heap \ freed
    BY <1>1, HeldIs DEF Nodes
  <2>2. /\ heap[a].kind = "AST_FOR" /\ Cloneable(iter) /\ Cloneable(body)
        /\ lossy' = (\/ lossy \/ TextsOf(heap', <<clock, iter>>) /= TextsOf(heap, iter)
                     \/ TextsOf(heap', <<clock + 1, body>>) /= TextsOf(heap, body))
    BY <1>7 DEF Desugar
  <2>3. LoopBuilt(a, g1, g2)
    BY <1>2, <1>7, <2>1, DesugarGood
  <2>4. iter \in DOMAIN heap \ freed /\ body \in DOMAIN heap \ freed
    <3>1. Cell(heap, clock, a)
      BY <1>3, <2>1 DEF Shape
    <3> QED
      BY <1>3, <2>1, <2>2, <3>1, FieldsUsed DEF Shut, Cell
  <2>5. /\ DOMAIN g1 \subseteq DOMAIN heap' /\ \A b \in DOMAIN g1 : heap'[b] = g1[b]
        /\ DOMAIN g2 \subseteq DOMAIN heap' /\ \A b \in DOMAIN g2 : heap'[b] = g2[b]
    <3> HIDE DEF g1, g2
    <3> QED
      BY <2>3 DEF LoopBuilt
  <2>6. TextsOf(heap', <<clock, iter>>) = TextsOf(heap, iter)
    BY <1>2, <1>3, <1>5, <2>2, <2>4, <2>5
  <2>7. TextsOf(heap', <<clock + 1, body>>) = TextsOf(heap, body)
    <3>1. clock + 1 \in Nat /\ clock + 1 > 0
      BY <1>3
    <3> QED
      BY <1>5, <2>2, <2>4, <2>5, <3>1
  <2> QED
    BY <2>2, <2>6, <2>7
<1>8. CASE BuildInner
  BY <1>8 DEF BuildInner
<1>9. CASE BuildOuter
  BY <1>9 DEF BuildOuter
<1>10. ASSUME NEW a, NEW s, Annotate(a, s) PROVE lossy' = FALSE
  BY <1>10 DEF Annotate
<1>11. ASSUME NEW a, NEW ok, Lower(a, ok) PROVE lossy' = FALSE
  BY <1>11 DEF Lower
<1>12. ASSUME NEW r, Free(r) PROVE lossy' = FALSE
  BY <1>12 DEF Free
<1>13. CASE UNCHANGED vars
  BY <1>13 DEF vars
<1> QED
  BY <1>6, <1>7, <1>8, <1>9, <1>10, <1>11, <1>12, <1>13 DEF Next
\* ast_new, ast_clone_deep, ast_free and the checker's rewritings: however trees are built,
\* cloned, annotated, lowered, desugared and freed, a loop the checker walks twice included,
\* no tree still held reaches freed memory and ast_free never frees twice.
THEOREM TreesNeverDangle == Spec => []NoDangling
<1>1. Init => Inv
  BY InvInit
<1>2. Inv /\ [Next]_vars => Inv'
  BY InvNext
<1>3. Inv => NoDangling
  BY InvFreedOnce
<1> QED
  BY <1>1, <1>2, <1>3, PTL DEF Spec

\* Nor is anything lost: ast_free releases each allocation no tree holds.  The hypothesis
\* is that build_foreach_desugar meets each loop once; where the checker walks the loop
\* again, the tree of the first walk is lost, and TreesNeverDangle is all that holds.
THEOREM TreesFreedOnce == ASSUME CheckedAgain = FALSE PROVE Spec => []FreedOnce
<1>1. Init => Inv
  BY InvInit
<1>2. Inv /\ [Next]_vars => Inv'
  BY InvNext
<1>3. Inv => FreedOnce
  BY InvFreedOnce
<1> QED
  BY <1>1, <1>2, <1>3, PTL DEF Spec


\* ast_clone_deep and build_foreach_desugar: a clone carries every text of its source, so
\* checking it again rebuilds what was left out.  The hypothesis is that no lowered operator
\* is cloned; the operands of one are below lowered, which the clone clears.
THEOREM ClonesComplete == ASSUME CheckedAgain = FALSE PROVE Spec => []CloneComplete
<1> DEFINE Whole == Inv /\ Sealed(heap) /\ lossy = FALSE
<1>1. Init => Whole
  <2>1. Init => Sealed(heap) /\ lossy = FALSE
    BY DEF Init, Sealed
  <2> QED
    BY <2>1, InvInit
<1>2. Whole /\ [Next]_vars => Whole'
  BY InvNext, SealedNext, LossyNext
<1>3. Whole => CloneComplete
  BY DEF CloneComplete
<1> QED
  BY <1>1, <1>2, <1>3, PTL DEF Spec
=============================================================================
