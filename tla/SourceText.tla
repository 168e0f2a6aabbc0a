----------------------------- MODULE SourceText -----------------------------
(***************************************************************************)
(* A source file as the parser meets it: a program is composed as a tree,  *)
(* written down, and then edited token by token.  The properties have the  *)
(* parser read the whole file after each step (parse is what `ls check`,   *)
(* the compiler and the editor integration do first).                      *)
(***************************************************************************)
EXTENDS Parser

-----------------------------------------------------------------------------
(***************************************************************************)
(* A reference for the grammar of Parser: how a syntax tree is written.    *)
(* Text(t) is the token sequence of a tree, with the parentheses and       *)
(* semicolons that the precedence table and the documented statement rules *)
(* require and no others, so parse(Text(t)) must give t back.              *)
(***************************************************************************)
CONSTANT ParenthesiseCasts              \* write f((x as int)) for f(x as int)

T(k) == Tok(k, k, 0)
Id(x) == Tok("IDENT", x, 0)
NL == T("NL")                           \* a line break, removed by Lines

RECURSIVE Write(_, _), WriteType(_), WriteStmt(_)

Separated(k, parts) ==
  FlattenSeq([i \in DOMAIN parts |-> IF i = 1 THEN parts[i] ELSE <<T(k)>> \o parts[i]])
Commas(parts) == Separated("COMMA", parts)

Each(Op(_), s) == [i \in DOMAIN s |-> Op(s[i])]

Between(open, body, close) == <<T(open)>> \o body \o <<T(close)>>

Names(v) == Each(LAMBDA n : <<Id(n[1])>>, v)

(***************************************************************************)
(* Types.                                                                  *)
(***************************************************************************)
TypeList(ts) == Between("LPAREN", Commas(Each(WriteType, ts)), "RPAREN")

Arrow(t) == IF t = NULL THEN <<>> ELSE <<T("ARROW")>> \o WriteType(t)

RefMark(mut) == IF mut THEN <<T("AMP"), T("BANG")>> ELSE <<T("AMP")>>

WriteType(t) ==
  CASE t[1] = "prim" -> <<T(t[2])>>
    [] t[1] = "ptr" -> <<T("STAR")>> \o WriteType(t[2])
    [] t[1] = "ref" -> RefMark(t[2]) \o WriteType(t[3])
    [] t[1] = "slice" -> RefMark(t[2]) \o <<T("ARRAY")>> \o TypeList(<<t[3]>>)
    [] t[1] \in {"ARRAY", "SIMD"} ->
         <<T(t[1]), T("LPAREN")>> \o WriteType(t[2]) \o <<T("COMMA"), Tok("INT_LIT", t[3], 0), T("RPAREN")>>
    [] t[1] = "fnty" -> <<T("FN")>> \o TypeList(t[2]) \o Arrow(t[3])
    [] t[1] = "blockty" -> <<T("BLOCK")>> \o TypeList(t[2]) \o Arrow(t[3])
    [] t[1] = "named" ->
         <<Id(t[2][1])>> \o FlattenSeq([i \in 1 .. Len(t[2]) - 1 |-> <<T("DOT"), Id(t[2][i + 1])>>])
           \o (IF t[3] = <<>> THEN <<>> ELSE TypeList(t[3]))

(***************************************************************************)
(* Expressions.  Level is how tightly a node binds; Write(t, ctx) puts     *)
(* parentheses around a node that binds less tightly than its place asks.  *)
(***************************************************************************)
Level(t) ==
  CASE t[1] = "closure" -> PREC_NONE
    [] t[1] = "assign" -> PREC_ASSIGNMENT
    [] t[1] = "range" -> IF t[3] = NULL THEN PREC_NONE ELSE PREC_COMPARISON
    [] t[1] = "bin" -> InfixPrec(t[2])
    [] t[1] \in {"unary", "mutborrow", "pre", "bench", "cast"} -> PREC_UNARY
    [] OTHER -> PREC_CALL

Grouped(toks) == Between("LPAREN", toks, "RPAREN")

(* A first argument that begins like a type would be read as a list of     *)
(* type arguments when another call follows; a cast to a built-in type     *)
(* makes the list look like type arguments when a member follows.          *)
GroupedIf(cond, toks) == IF cond THEN Grouped(toks) ELSE toks
LikeTypeArgs(t, toks) ==
  MayBeTypeArgs(InitParser(toks \o <<T("EOF")>>)) \/ (ParenthesiseCasts /\ t[1] = "cast")
GroupedArg(t, toks) == GroupedIf(LikeTypeArgs(t, toks), toks)
WriteArg(t) == GroupedArg(t, Write(t, PREC_NONE))

Args(ts) == Between("LPAREN", Commas(Each(WriteArg, ts)), "RPAREN")

Exprs(ts) == Commas(Each(LAMBDA e : Write(e, PREC_NONE), ts))

Inits(fs) == Between("LBRACE", Commas(Each(LAMBDA f : <<Id(f[2]), T("COLON")>> \o Write(f[3], PREC_ASSIGNMENT + 1), fs)),
                     "RBRACE")

(* What stands between a statement written x and the next one, written y.  *)
Break(x, y, isVar) ==
  IF \/ y[1].k = "LBRACE" \/ x = <<T("RETURN")>>
     \/ InfixPrec(y[1].k) > 0 /\ ~isVar
     \/ y[1].k = "IDENT" /\ \A i \in DOMAIN x : x[i].k \in {"STAR", "AMP", "BANG", "IDENT"}
  THEN <<T("SEMI"), NL>> ELSE <<NL>>

JoinStmts(ss, trees) ==
  FlattenSeq([i \in DOMAIN ss |-> IF i = Len(ss) THEN ss[i]
                                 ELSE ss[i] \o Break(ss[i], ss[i + 1], trees[i + 1][1] = "var")])

WriteBlock(b) == JoinStmts(Each(WriteStmt, b[2]), b[2])

Braces(b) == Between("LBRACE", WriteBlock(b), "RBRACE")

Alternatives(t) == IF t[1] = "orpat" THEN <<t[2], t[3]>> ELSE <<t>>
WritePattern(t) ==
  Separated("PIPE", Each(LAMBDA x : Write(x, PREC_BITXOR + 1), Alternatives(t)))

Arms(as) ==
  FlattenSeq(Each(LAMBDA a : WritePattern(a[2]) \o <<T("FAT_ARROW")>>
                               \o (IF a[3][1] = "block" THEN Braces(a[3]) ELSE Write(a[3], PREC_NONE))
                               \o <<T("COMMA"), NL>>, as))

(* A lone identifier before ':' would be the name of a field.              *)
Key(toks) == GroupedIf(Len(toks) = 1, toks)
Entry(m) == Key(Write(m[2], PREC_NONE)) \o <<T("COLON")>> \o Write(m[3], PREC_NONE)

Holes(parts, exprs) ==
  FlattenSeq([i \in DOMAIN parts |->
    (IF parts[i] = "" THEN <<>> ELSE <<Tok("FSTRING_TEXT", parts[i], 0)>>)
      \o (IF i > Len(exprs) THEN <<>>
          ELSE <<T("LBRACE")>> \o Write(exprs[i][2], PREC_NONE)
                 \o <<IF exprs[i][3] = "" THEN T("RBRACE") ELSE Tok("FSTRING_SPEC", exprs[i][3], 0)>>)])

UnaryOperand(op, toks) == GroupedIf(op = "AMP" /\ toks[1].k = "BANG", toks)   \* not &!

Node(t) ==
  LET Left(e) == Write(e, PREC_CALL)
  IN CASE t[1] = "id" -> <<Id(t[2])>> \o (IF t[3] = <<>> THEN <<>> ELSE TypeList(t[3]))
       [] t[1] = "int" -> <<Tok("INT_LIT", t[2], 0)>>
       [] t[1] = "str" -> <<Tok("STRING_LIT", t[2], 0)>>
       [] t[1] = "bool" -> <<T(t[2])>>
       [] t[1] = "nil" -> <<T("NIL")>>
       [] t[1] = "bin" -> Write(t[3], Level(t)) \o <<T(t[2])>> \o Write(t[4], Level(t) + 1)
       [] t[1] = "assign" -> Write(t[3], PREC_ASSIGNMENT + 1) \o <<T(t[2])>> \o Write(t[4], PREC_ASSIGNMENT)
       [] t[1] = "range" -> (IF t[2] = NULL THEN <<>> ELSE Write(t[2], PREC_COMPARISON)) \o <<T("DOTDOT")>>
                              \o (IF t[3] = NULL THEN <<>> ELSE Write(t[3], PREC_COMPARISON + 1))
       [] t[1] = "unary" -> <<T(t[2])>> \o UnaryOperand(t[2], Write(t[3], PREC_UNARY))
       [] t[1] = "mutborrow" -> <<T("AMP"), T("BANG")>> \o Write(t[2], PREC_UNARY)
       [] t[1] = "pre" -> <<T(t[2])>> \o Write(t[3], PREC_UNARY)
       [] t[1] = "cast" -> Left(t[2]) \o <<T("AS")>> \o WriteType(t[3])
       [] t[1] = "call" -> Left(t[2]) \o (IF t[3] = <<>> THEN <<>> ELSE TypeList(t[3])) \o Args(t[4])
       [] t[1] = "index" -> Left(t[2]) \o Between("LBRACKET", Exprs(t[3]), "RBRACKET")
       [] t[1] = "field" -> Left(t[2]) \o <<T("DOT"), Id(t[3])>>
       [] t[1] = "unwrap" -> Left(t[2]) \o <<T("BANG")>>
       [] t[1] = "arr" -> Between("LBRACKET", Exprs(t[2]), "RBRACKET")
       [] t[1] = "map" -> Grouped(Between("LBRACE",
                            Commas(Each(Entry, t[2])), "RBRACE"))
       [] t[1] = "new" -> <<Id(t[3][1])>> \o (IF t[4] = <<>> THEN <<>> ELSE TypeList(t[4])) \o Inits(t[5])
       [] t[1] = "sizeof" -> <<Id("sizeof")>> \o TypeList(<<t[2]>>)
       [] t[1] = "fstr" -> Between("FSTRING_START", Holes(t[2], t[3]), "FSTRING_END")
       [] t[1] = "closure" -> Between("PIPE", Commas(Each(LAMBDA b : <<Id(b[2][1])>>, t[3])), "PIPE")
                                \o Write(t[5][2][1][2], PREC_NONE)
       [] t[1] = "match" -> <<T("MATCH")>> \o Write(t[2], PREC_NONE) \o Between("LBRACE", Arms(t[3]), "RBRACE")

Write(t, ctx) ==
  GroupedIf(Level(t) < ctx \/ (t[1] = "range" /\ t[3] = NULL), Node(t))

(***************************************************************************)
(* Statements and declarations.                                            *)
(***************************************************************************)

(* A condition before an empty block would be read as a struct literal.    *)
Cond(e, b) == GroupedIf(b[2] = <<>>, Write(e, PREC_NONE))

Default(e) == IF e = NULL THEN <<>> ELSE <<T("ASSIGN")>> \o Write(e, PREC_ASSIGNMENT + 1)

Param(p) == WriteType(p[2]) \o <<Id(p[3][1])>> \o Default(p[4])

Sig(s) ==
  LET self == CASE s[2] = 1 -> <<T("AMP"), T("SELF")>>
                [] s[2] = 2 -> <<T("AMP"), T("BANG"), T("SELF")>>
                [] OTHER -> <<>>
      comma == IF self /= <<>> /\ s[3] /= <<>> THEN <<T("COMMA")>> ELSE <<>>
  IN Grouped(self \o comma \o Commas(Each(Param, s[3]))) \o Arrow(s[4])

Plus(v) == FlattenSeq([i \in DOMAIN v |-> <<IF i = 1 THEN T("COLON") ELSE T("PLUS"), Id(v[i][1])>>])

TypeParams(tps) ==
  IF tps = <<>> THEN <<>> ELSE Grouped(Commas(Each(LAMBDA tp : <<Id(tp[2][1])>> \o Plus(tp[3]), tps)))

Where(ws) == IF ws = <<>> THEN <<>>
             ELSE <<Id("where")>> \o Commas(Each(LAMBDA w : <<Id(w[2][1])>> \o Plus(w[3]), ws))

Def(f) ==
  LET name == CASE f[2] = <<"__drop">> -> <<T("TILDE")>>
                [] f[2][1] = "$op" -> <<T(f[2][2])>>
                [] OTHER -> <<Id(f[2][1])>>
  IN <<T("FN")>> \o name \o TypeParams(f[3]) \o Sig(f[4]) \o Where(f[5])
       \o (IF f[6] = NULL THEN <<>> ELSE Braces(f[6]))

Method(m) == (IF m[2] THEN <<T("STATIC")>> ELSE <<>>) \o Def(m[3]) \o <<NL>>

Methods(ms) == Between("LBRACE", FlattenSeq(Each(Method, ms)), "RBRACE")

Derive(v) == IF v = <<>> THEN <<>> ELSE <<T("AT"), Id("derive")>> \o Grouped(Commas(Names(v)))

Field(f) == (IF f[2] THEN <<Id("private")>> ELSE <<>>) \o WriteType(f[3]) \o <<Id(f[4][1])>> \o Default(f[5]) \o <<NL>>

Variant(v) ==
  <<Id(v[2][1])>>
    \o (IF v[3] = <<>> THEN <<>>
        ELSE Grouped(Commas(Each(LAMBDA p : WriteType(p[2]) \o (IF p[3] = NULL THEN <<>> ELSE <<Id(p[3][1])>>), v[3]))))
    \o <<NL>>

WriteStmt(t) ==
  CASE t[1] = "exprstmt" -> Write(t[2], PREC_ASSIGNMENT)
    [] t[1] = "assign" -> Node(t)
    [] t[1] = "var" -> WriteType(t[2]) \o <<Id(t[3][1])>> \o (IF t[4] = NULL THEN <<>> ELSE <<T("ASSIGN")>> \o Write(t[4], PREC_NONE))
    [] t[1] = "return" -> <<T("RETURN")>> \o (IF t[2] = NULL THEN <<>> ELSE Write(t[2], PREC_NONE))
    [] t[1] \in {"BREAK", "CONTINUE"} -> <<T(t[1])>>
    [] t[1] = "block" -> Braces(t)
    [] t[1] = "if" -> <<T("IF")>> \o Cond(t[2], t[3]) \o Braces(t[3])
                        \o (IF t[4] = NULL THEN <<>> ELSE <<T("ELSE")>> \o WriteStmt(t[4]))
    [] t[1] = "while" -> <<T("WHILE")>> \o Cond(t[2], t[3]) \o Braces(t[3])
    [] t[1] = "for" -> <<T("FOR"), Id(t[2][1]), T("IN")>> \o Cond(t[3], t[4]) \o Braces(t[4])
    [] t[1] = "forc" -> <<T("FOR")>> \o Grouped(WriteStmt(t[2]) \o <<T("SEMI")>> \o Write(t[3], PREC_NONE)
                                                   \o <<T("SEMI")>> \o WriteStmt(t[4])) \o Braces(t[5])
    [] t[1] = "fn" -> Def(t)
    [] t[1] = "struct" -> Derive(t[5]) \o <<T("STRUCT"), Id(t[2][1])>> \o TypeParams(t[3])
                            \o Between("LBRACE", FlattenSeq(Each(Field, t[4])), "RBRACE")
    [] t[1] = "enum" -> Derive(t[4]) \o <<T("ENUM"), Id(t[2][1])>>
                          \o Between("LBRACE", FlattenSeq(Each(Variant, t[3])), "RBRACE")
    [] t[1] = "trait" -> <<T("TRAIT"), Id(t[2][1])>> \o Methods(t[3])
    [] t[1] = "impl" -> <<T("IMPL"), Id(t[3][1])>> \o (IF t[4] = <<>> THEN <<>> ELSE Grouped(Commas(Names(t[4]))))
                          \o (IF t[2] = <<"">> THEN <<>> ELSE <<T("COLON"), Id(t[2][1])>>) \o Methods(t[5])
    [] t[1] = "alias" -> <<T("TYPE_ALIAS"), Id(t[2][1]), T("ASSIGN")>> \o WriteType(t[3])
    [] t[1] = "import" -> <<T("IMPORT"), Id(t[2][1])>> \o (IF t[3] = NULL THEN <<>> ELSE <<T("AS"), Id(t[3][1])>>)
    [] t[1] = "ctif" -> <<T("COMPTIME"), T("IF")>> \o Write(t[2], PREC_NONE) \o Braces(t[3])
    [] t[1] = "ctfor" -> <<T("COMPTIME"), T("FOR"), Id(t[2][1]), T("IN"), Id(t[3])>> \o TypeList(<<t[4]>>) \o Braces(t[5])

(* Line breaks become line numbers.                                        *)
Lines(toks) ==
  LET line(i) == 1 + Len(SelectSeq(SubSeq(toks, 1, i), LAMBDA x : x.k = "NL"))
  IN SelectSeq([i \in DOMAIN toks |-> [toks[i] EXCEPT !.ln = line(i)]], LAMBDA x : x.k /= "NL")

(* The tokens of a program given as a list of declarations.                *)
Ended(toks) == Append(toks, Tok("EOF", "", IF toks = <<>> THEN 1 ELSE Last(toks).ln))
Text(decls) == Ended(Lines(WriteBlock(<<"block", decls>>)))

-----------------------------------------------------------------------------
(* The file.                                                               *)
CONSTANTS Leaves,                       \* the operands expressions are built from
          Decls,                        \* whole declarations, each a list of trees
          Files,                        \* files given as tokens
          MaxSteps,                     \* operators composed and edits made, together
          EditLen,                      \* only files this short are edited
          EditKinds,                    \* tokens an edit may insert
          Plain                         \* names whose occurrences are counted

VARIABLES expr,                         \* the expression composed so far
          grown,                        \* how many operators it has
          decls,                        \* the program written, as trees; <<>> before
          toks,                         \* the file
          edits                         \* how often it was edited

vars == <<expr, grown, decls, toks, edits>>

A == <<"id", "a", <<>>>>
Named(n) == <<"named", <<n>>, <<>>>>
IntType == <<"prim", "INT">>

UnaryOps == {"MINUS", "STAR", "BANG", "TILDE", "AMP"}
BinaryOps == {"OR", "AND", "EQ", "LT", "PIPE", "CARET", "AMP", "RSHIFT", "PLUS", "STAR"}

(* One more operator around e, with x as its other operand.                *)
Around(e, x) ==
     {<<"unary", op, e>> : op \in UnaryOps}
  \cup {<<"bin", op, e, x>> : op \in BinaryOps} \cup {<<"bin", op, x, e>> : op \in BinaryOps}
  \cup {<<"assign", "ASSIGN", e, x>>, <<"assign", "PLUS_ASSIGN", x, e>>, <<"mutborrow", e>>,
        <<"pre", "TRY", e>>, <<"cast", e, IntType>>, <<"cast", e, Named("T")>>, <<"unwrap", e>>,
        <<"field", e, "m">>, <<"call", e, <<>>, <<x>>>>, <<"call", x, <<>>, <<e, x>>>>,
        <<"call", <<"field", x, "m">>, <<IntType>>, <<e>>>>, <<"index", e, <<x>>>>, <<"index", x, <<e, x>>>>,
        <<"range", e, x>>, <<"range", x, e>>, <<"range", NULL, e>>, <<"range", e, NULL>>, <<"arr", <<e, x>>>>,
        <<"map", <<<<"pair", e, x>>>>>>, <<"new", TRUE, <<"S">>, <<>>, <<<<"init", "f", e>>, <<"init", "g", x>>>>>>,
        <<"new", TRUE, <<"S">>, <<IntType>>, <<<<"init", "f", e>>>>>>,
        <<"closure", "bar", <<<<"bparam", <<"p">>>>>>, NULL, <<"block", <<<<"return", e>>>>>>, <<>>>>,
        <<"fstr", <<"text", "">>, <<<<"hole", e, "">>>>>>, <<"fstr", <<"", "text">>, <<<<"hole", e, "spec">>>>>>,
        <<"match", e, <<<<"arm", x, x>>>>>>, <<"match", x, <<<<"arm", <<"orpat", e, x>>, e>>>>>>}

Stmt(e) == IF e[1] = "assign" THEN e ELSE <<"exprstmt", e>>
Block(e) == <<"block", <<Stmt(e)>>>>
Var(ty) == <<"var", ty, <<"y">>, NULL>>

(* The programs around an expression e.                                    *)
Programs(e) ==
  {<<Stmt(e)>>, <<Stmt(e), Stmt(A)>>, <<Stmt(e), Var(<<"ptr", Named("T")>>)>>, <<Stmt(e), Var(<<"ptr", IntType>>)>>,
   <<Stmt(e), Var(<<"ref", TRUE, Named("T")>>)>>, <<Stmt(e), Var(<<"slice", FALSE, IntType>>)>>,
   <<Stmt(e), Var(Named("T"))>>, <<Stmt(A), Stmt(e)>>, <<Stmt(e), <<"block", <<>>>>>>,
   <<<<"var", <<"named", <<"u", "T">>, <<IntType>>>>, <<"y">>, e>>, Stmt(e)>>,
   <<<<"if", e, Block(e), <<"if", A, Block(A), NULL>>>>>>, <<<<"while", e, <<"block", <<>>>>>>, <<"BREAK">>>>,
   <<<<"for", <<"x">>, e, Block(A)>>>>, <<<<"forc", Var(IntType), e, Stmt(e), Block(A)>>>>,
   <<<<"return", NULL>>, Stmt(e)>>, <<<<"return", e>>, Stmt(A)>>}

Init == /\ expr \in Leaves /\ grown = 0
        /\ decls = <<>> /\ toks = <<>> /\ edits = 0

Compose == /\ toks = <<>> /\ grown < MaxSteps
           /\ \E x \in Leaves : expr' \in Around(expr, x)
           /\ grown' = grown + 1
           /\ UNCHANGED <<decls, toks, edits>>

WriteDown(ds) == /\ decls' = ds /\ toks' = Text(ds)

WriteExpr == /\ toks = <<>>
             /\ \E ds \in Programs(expr) : WriteDown(ds)
             /\ UNCHANGED <<expr, grown, edits>>

WriteDecls == /\ toks = <<>> /\ grown = 0
              /\ \E ds \in Decls : WriteDown(ds)
              /\ UNCHANGED <<expr, grown, edits>>

WriteFile == /\ toks = <<>> /\ grown = 0
             /\ toks' \in Files
             /\ UNCHANGED <<expr, grown, decls, edits>>

Edit(ts) == /\ toks' = ts
              /\ edits' = edits + 1
              /\ UNCHANGED <<expr, grown, decls>>

MayEdit == toks /= <<>> /\ grown + edits < MaxSteps /\ (edits = 0 \/ Len(toks) <= EditLen)

Delete == MayEdit /\ \E i \in 1 .. Len(toks) - 1 : Edit(RemoveAt(toks, i))

Insert == MayEdit /\ \E i \in 1 .. Len(toks), k \in EditKinds : 
            Edit(InsertAt(toks, i, [(IF k = "IDENT" THEN Id("a") ELSE T(k)) EXCEPT !.ln = toks[i].ln]))

(* Everything from token i on moves up to the line of the token before.    *)
JoinLines ==
  /\ MayEdit
  /\ \E i \in 2 .. Len(toks) :
       /\ toks[i].ln > toks[i - 1].ln
       /\ LET up == toks[i].ln - toks[i - 1].ln
          IN Edit([j \in DOMAIN toks |-> IF j < i THEN toks[j] ELSE [toks[j] EXCEPT !.ln = @ - up]])

Next == Compose \/ WriteExpr \/ WriteDecls \/ WriteFile \/ Delete \/ Insert \/ JoinLines

Spec == Init /\ [][Next]_vars

-----------------------------------------------------------------------------
Occurrences(x, seq) == Len(SelectSeq(seq, LAMBDA y : y = x))
SameOccurrences(texts, ts) == \A x \in Plain : Occurrences(x, texts) = Occurrences(x, ts)
Complete(r, ts) == /\ HoleFree(r.t)
                   /\ SameOccurrences(Texts(r.t) \o r.p.lost, [i \in DOMAIN ts |-> ts[i].v])

(* A file whose tree is not known beforehand: given as tokens, or edited.  *)
OtherFile == toks' # toks /\ decls' = decls

(* Every program, written with only the parentheses the precedence table   *)
(* asks for and one statement a line, is read back as the same tree: the   *)
(* Pratt loop, the statement-boundary rules for `*` and `&` and the type,  *)
(* literal and generic-call lookaheads agree with the documented grammar.  *)
RoundTrip == [][decls' # decls => parse(toks').t = <<"program", decls'>>]_vars

(* Whatever the tokens are, every loop of the parser makes progress: the   *)
(* recovery after a failed statement, member or field never repeats the    *)
(* same step for ever.                                                     *)
Terminates == [][OtherFile => ~parse(toks').p.spin]_vars

(* A file without an error message lost nothing but what `lost` names: the *)
(* default values of an extern function's parameters and the segments of   *)
(* an import path that overflow its buffer, both findings (NoSilentLoss).  *)
(* Every other operand, type, name and body is present in the tree, and    *)
(* each name occurs in it as often as it was written.                      *)
NothingDropped == [][OtherFile => \A r \in {parse(toks')} : r.p.err \/ Complete(r, toks')]_vars

(* What a reader of the documentation expects: nothing is thrown away      *)
(* without a message.  The code breaks it at the two places above.         *)
NoSilentLoss == [][OtherFile => \A r \in {parse(toks')} : r.p.err \/ r.p.lost = <<>>]_vars
=============================================================================
