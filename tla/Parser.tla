------------------------------- MODULE Parser -------------------------------
(***************************************************************************)
(* The grammar of src/src/parser_type.c, parser_decl.c, parser_expr.c and  *)
(* parser_stmt.c: one operator per parse function, from a parser to        *)
(* [p, t], the parser after it and the node (NULL where the code returns   *)
(* NULL).  A node is a tuple that starts with its kind; names are          *)
(* one-element tuples.  Positions and memory management are left out.      *)
(***************************************************************************)
EXTENDS ParserCore, FiniteSets

CONSTANTS UpperNames,                   \* identifiers that start with A..Z
          AutoCallNames,                \* identifiers that end with ? or !
          PathBuf                       \* sizeof(path_buf), 256

PREC_NONE == 0
PREC_ASSIGNMENT == 1
PREC_COMPARISON == 5
PREC_BITXOR == 7
PREC_UNARY == 12
PREC_CALL == 13

TypeKeywords == {"INT", "I8", "I16", "I32", "I64", "U8", "U16", "U32", "U64", "F32", "F64", "F16", "BF16",
                 "BOOL", "CHAR", "VOID", "OBJECT", "ARRAY", "SIMD"}

(* TOKEN_FN .. TOKEN_TRY: words refused as the name of a parameter.        *)
Reserved == {"FN", "RETURN", "IF", "ELSE", "WHILE", "FOR", "IN", "MATCH", "STRUCT", "ENUM", "IMPL", "MODULE",
             "IMPORT", "LOAD", "SELF", "STATIC", "DO", "END", "BREAK", "CONTINUE", "EXTERN", "AS", "FROM",
             "PUB", "NEW", "TRY"}

OverloadOps == {"PLUS", "MINUS", "STAR", "SLASH", "PERCENT", "EQ", "NEQ", "LT", "GT", "LEQ", "GEQ"}

IsUpper(tok) == tok.k = "IDENT" /\ tok.v \in UpperNames

EmptyBlock == <<"block", <<>>>>

RECURSIVE parse_expr_prec(_, _), parse_type(_), parse_block(_), parse_statement(_)

Expr(p) == parse_expr_prec(p, PREC_NONE)

(* if (match_tok(k)) part, else NULL.                                      *)
Optional(p, k, Part(_)) == IF Check(p, k) THEN Part(advance(p)) ELSE Result(p, NULL)

(* The kinds up to the ')' that closes a '(' already passed, or EOF: the   *)
(* parser there, the kinds that are not parentheses, and those not nested. *)
ParenScan(p) ==
  LET RECURSIVE Scan(_, _, _, _)
      Scan(q, d, kinds, top) ==
        LET k == Cur(q).k
        IN CASE k = "EOF" \/ (k = "RPAREN" /\ d = 1) -> [p |-> q, kinds |-> kinds, top |-> top]
             [] k = "LPAREN" -> Scan(advance(q), d + 1, kinds, top)
             [] k = "RPAREN" /\ d > 1 -> Scan(advance(q), d - 1, kinds, top)
             [] OTHER -> Scan(advance(q), d, kinds \cup {k}, IF d = 1 THEN top \cup {k} ELSE top)
  IN Scan(p, 1, {}, {})

(***************************************************************************)
(* Types (parser_type.c).                                                  *)
(***************************************************************************)
Wrap(r, Node(_)) == IF r.t = NULL THEN r ELSE Result(r.p, Node(r.t))

(* &T, &!T, and the slice &array(T), which has no size.                    *)
ReferenceType(p) ==
  LET a == advance(p)
      mut == Check(a, "BANG")
      b == match_tok(a, "BANG")
      elem == parse_type(advance(advance(b)))
  IN IF ~Check(b, "ARRAY") THEN Wrap(parse_type(b), LAMBDA t : <<"ref", mut, t>>)
     ELSE IF ~Check(advance(b), "LPAREN") THEN Result(error_at(advance(b)), NULL)
     ELSE IF elem.t = NULL THEN elem
     ELSE IF Check(elem.p, "RPAREN") THEN Result(advance(elem.p), <<"slice", mut, elem.t>>)
     ELSE Result(error_at(elem.p), NULL)

(* array(T, N) and Simd(T, N): N is a positive integer literal.            *)
SizedType(p, kind) ==
  LET elem == parse_type(consume(advance(p), "LPAREN"))
      size == consume(elem.p, "COMMA")
  IN IF elem.t = NULL THEN elem
     ELSE IF ~Check(size, "INT_LIT") THEN Result(error_at(size), NULL)
     ELSE IF Cur(size).v = "0" THEN Result(error_at(advance(size)), NULL)
     ELSE Result(consume(advance(size), "RPAREN"), <<kind, elem.t, Cur(size).v>>)

WithReturnGuard(p, guard, Part(_)) ==
  LET r == Part([p EXCEPT !.inret = guard]) IN [r EXCEPT !.p.inret = p.inret]

(* Block(types) -> ret: refused where a type alias is required, skipping   *)
(* its parentheses and its result.                                         *)
BlockType(p) ==
  LET a == advance(error_at(p))
      open == ParenScan(advance(a)).p
      skipped == IF ~Check(a, "LPAREN") THEN a ELSE match_tok(open, "RPAREN")
      ps == ListUnless(consume(advance(p), "LPAREN"), "RPAREN",
                       LAMBDA q : WithReturnGuard(q, FALSE, parse_type))
      ret == Optional(consume(ps.p, "RPAREN"), "ARROW", LAMBDA q : WithReturnGuard(q, TRUE, parse_type))
  IN IF p.inret
     THEN Result(IF Check(skipped, "ARROW") THEN parse_type(advance(skipped)).p ELSE skipped, NULL)
     ELSE Result(ret.p, <<"blockty", ps.t, ret.t>>)

FnType(p) ==
  LET ps == ListUnless(consume(advance(p), "LPAREN"), "RPAREN", parse_type)
      ret == Optional(consume(ps.p, "RPAREN"), "ARROW", parse_type)
  IN Result(ret.p, <<"fnty", ps.t, ret.t>>)

TypeArgOrSync(p) ==
  LET r == parse_type(p) IN IF r.t = NULL THEN Result(synchronize(r.p), NULL) ELSE r

(* Name, mod.Name, Name(args): the segments of the path and the arguments. *)
NamedType(p) ==
  LET RECURSIVE Path(_, _)
      Path(q, segs) ==
        IF ~Check(q, "DOT") THEN Result(q, segs)
        ELSE LET n == Name(advance(q))
             IN IF n.t = NULL THEN Result(n.p, NULL) ELSE Path(n.p, segs \o n.t)
      path == Path(advance(p), <<Cur(p).v>>)
      args == ListUnless(advance(path.p), "RPAREN", TypeArgOrSync)
  IN IF path.t = NULL THEN path
     ELSE IF Check(path.p, "LPAREN") THEN Result(consume(args.p, "RPAREN"), <<"named", path.t, args.t>>)
     ELSE Result(path.p, <<"named", path.t, <<>>>>)

parse_type_inner(p) ==
  LET k == Cur(p).k
  IN CASE k = "STAR" -> Wrap(parse_type(advance(p)), LAMBDA t : <<"ptr", t>>)
       [] k = "AMP" -> ReferenceType(p)
       [] k \in {"ARRAY", "SIMD"} -> SizedType(p, k)
       [] k = "LBRACKET" -> LET e == parse_type(advance(p))
                            IN IF e.t = NULL THEN e
                               ELSE Result(consume(e.p, "RBRACKET"), <<"ARRAY", e.t, "0">>)
       [] k = "BLOCK" -> BlockType(p)
       [] k = "FN" -> FnType(p)
       [] k \in TypeKeywords \ {"ARRAY", "SIMD"} -> Result(advance(p), <<"prim", k>>)
       [] k = "IDENT" -> NamedType(p)
       [] OTHER -> Result(error_at(p), NULL)

parse_type(p) == Guarded(p, parse_type_inner, LAMBDA q : Result(q, NULL))

(***************************************************************************)
(* Declarations (parser_decl.c).                                           *)
(***************************************************************************)
LiteralKinds == {"INT_LIT", "FLOAT_LIT", "STRING_LIT", "CHAR_LIT", "TRUE", "FALSE"}

(* After `Type(args)`: a variable name on the same line, ended by '=', ';',*)
(* '}', the end of the file or a new line.                                 *)
DeclTail(p, line) ==
  /\ Check(p, "IDENT") /\ Cur(p).ln = line
  /\ LET after == Peek(p, 1)
     IN after.k \in {"ASSIGN", "SEMI", "EOF", "RBRACE"} \/ after.ln /= Cur(p).ln

(* mod.Type x, a.b.Type x, mod.Type(args) x: no literal among the args.    *)
QualifiedDecl(p) ==
  LET RECURSIVE Chain(_)
      Chain(q) ==
        LET seg == advance(q)
            next == advance(seg)
            args == ParenScan(advance(next))
        IN /\ Check(q, "DOT") /\ Check(seg, "IDENT")
           /\ CASE Check(next, "IDENT") /\ Cur(next).ln = Cur(p).ln -> TRUE
                [] Check(next, "LPAREN") -> /\ Check(args.p, "RPAREN")
                                            /\ args.kinds /= {} /\ args.kinds \cap LiteralKinds = {}
                                            /\ DeclTail(advance(args.p), Cur(p).ln)
                [] OTHER -> Chain(next)
  IN Chain(advance(p))

GenericDecl(p) ==
  LET args == ParenScan(advance(advance(p)))
  IN Check(args.p, "RPAREN") /\ DeclTail(advance(args.p), Cur(p).ln)

starts_var_decl(p) ==
  LET RECURSIVE Starts(_)
      Starts(q) ==
        LET next == Peek(q, 1).k
        IN CASE CheckIn(q, TypeKeywords) -> TRUE
             [] Check(q, "AMP") -> Starts(match_tok(advance(q), "BANG"))
             [] Check(q, "STAR") -> next \in TypeKeywords \/ (next = "IDENT" /\ Peek(q, 2).k = "IDENT")
             [] Check(q, "IDENT") -> \/ next = "IDENT"
                                     \/ next = "DOT" /\ QualifiedDecl(q)
                                     \/ next = "LPAREN" /\ GenericDecl(q)
             [] OTHER -> FALSE
  IN Starts(p)

TypedVar(p) ==
  LET ty == parse_type(p)
      n  == Name(ty.p)
      init == Optional(n.p, "ASSIGN", Expr)
  IN IF ty.t = NULL THEN ty
     ELSE IF n.t = NULL THEN n
     ELSE Result(init.p, <<"var", ty.t, n.t, init.t>>)

parse_var_decl(p) ==
  LET v == TypedVar(p) IN IF v.t = NULL THEN v ELSE Result(skip_semicolons(v.p), v.t)

is_literal_default(e) ==
  \/ e[1] \in {"int", "float", "str", "bool", "nil", "arr", "new"}
  \/ e[1] = "unary" /\ e[3][1] \in {"int", "float"}

DefaultValue_lost(p) ==                 \* mutant: the value is read and not kept
  IF Check(p, "ASSIGN") THEN Result(parse_expr_prec(advance(p), PREC_ASSIGNMENT).p, NULL) ELSE Result(p, NULL)

(* Optional `= value` of a parameter or a field: a literal only.           *)
DefaultValue(p) ==
  LET e == parse_expr_prec(advance(p), PREC_ASSIGNMENT)
  IN IF ~Check(p, "ASSIGN") THEN Result(p, NULL)
     ELSE IF e.t = NULL \/ is_literal_default(e.t) THEN e
     ELSE Result(error_at(e.p), NULL)

ParamName(p) ==
  CASE CheckIn(p, {"IDENT", "SELF"}) -> Result(advance(p), <<Cur(p).v>>)
    [] CheckIn(p, Reserved \ {"SELF"}) -> Result(advance(error_at(p)), <<"_">>)
    [] OTHER -> Result(p, <<"_">>)

(* The parameters up to ')'; a list that fails on a type is NULL.          *)
parse_param_list(p) ==
  LET RECURSIVE Loop(_, _)
      Loop(q, acc) ==
        LET ty == parse_type(q)
            n  == ParamName(ty.p)
            d  == DefaultValue(n.p)
            s  == Append(acc, <<"param", ty.t, n.t, d.t>>)
        IN CASE Check(q, "ELLIPSIS") -> Result(advance(q), <<"params", acc, TRUE>>)
             [] ~Check(q, "ELLIPSIS") /\ ty.t = NULL -> ty
             [] OTHER -> IF Check(d.p, "COMMA") THEN Loop(advance(d.p), s)
                         ELSE Result(d.p, <<"params", s, FALSE>>)
  IN IF Check(p, "RPAREN") THEN Result(p, <<"params", <<>>, FALSE>>) ELSE Loop(p, <<>>)

(* Leading &self (1) or &!self (2), with the ',' before another parameter. *)
SelfBorrow(p) ==
  LET kind == CASE Check(p, "AMP") /\ Peek(p, 1).k = "SELF" -> 1
                [] Check(p, "AMP") /\ Peek(p, 1).k = "BANG" /\ Peek(p, 2).k = "SELF" -> 2
                [] OTHER -> 0
      a == IF kind = 1 THEN advance(advance(p)) ELSE advance(advance(advance(p)))
  IN IF kind = 0 THEN Result(p, 0)
     ELSE Result(IF Check(a, "RPAREN") THEN a ELSE consume(a, "COMMA"), kind)

ReturnType(p) == Optional(p, "ARROW", LAMBDA q : WithReturnGuard(q, TRUE, parse_type))

(* ( [&self,] params ) [-> type], after the '(': [self, params, ret], or   *)
(* NULL when the parameter list fails.                                     *)
Signature(p) ==
  LET self == SelfBorrow(p)
      ps  == parse_param_list(self.p)
      ret == ReturnType(consume(ps.p, "RPAREN"))
  IN IF ps.t = NULL THEN ps ELSE Result(ret.p, <<"sig", self.t, ps.t[2], ret.t>>)

parse_fn_signature(p) ==
  LET n == Name(p)
      sig == Signature(consume(n.p, "LPAREN"))
  IN IF n.t = NULL THEN n ELSE Wrap(sig, LAMBDA s : <<"fn", n.t, <<>>, s, <<>>, NULL>>)

Bounds(p) == DoWhile(p, "PLUS", Name)

(* T or T: Trait + Trait.                                                  *)
TypeParam(p) ==
  LET n == Name(p)
      b == Bounds(advance(n.p))
  IN IF n.t = NULL THEN n
     ELSE IF Check(n.p, "COLON") THEN Result(b.p, <<"tparam", n.t, b.t>>)
     ELSE Result(n.p, <<"tparam", n.t, <<>>>>)

UpperTypeParam(p) == IF IsUpper(Cur(p)) THEN TypeParam(p) ELSE Result(error_at(p), NULL)

parse_where_bounds(p) ==
  LET Item(q) == LET n == Name(q)
                     b == Bounds(consume(n.p, "COLON"))
                 IN IF n.t = NULL THEN n ELSE Result(b.p, <<"where", n.t, b.t>>)
  IN IF Check(p, "IDENT") /\ Cur(p).v = "where" THEN DoWhile(advance(p), "COMMA", Item)
     ELSE Result(p, <<>>)

(* The name of a function; operators and ~ only in interface methods.      *)
FnName(p, allowOperator) ==
  CASE Check(p, "IDENT") -> IF Cur(p).v \in {"__drop", "__clone"} THEN Result(error_at(advance(p)), NULL)
                            ELSE Result(advance(p), <<Cur(p).v>>)
    [] Check(p, "NEW") -> Result(advance(p), <<"new">>)
    [] allowOperator /\ Check(p, "TILDE") -> Result(advance(p), <<"__drop">>)
    [] allowOperator /\ CheckIn(p, OverloadOps) -> Result(advance(p), <<"$op", Cur(p).k>>)
    [] OTHER -> Result(error_at(p), NULL)

(* def name(T, U)(params): '(' Upper then ',' ')' or ':' is a list of type *)
(* parameters.                                                             *)
FnTypeParams(p) ==
  LET tps == DoWhile(advance(p), "COMMA", TypeParam)
  IN IF Check(p, "LPAREN") /\ IsUpper(Peek(p, 1)) /\ Peek(p, 2).k \in {"COMMA", "RPAREN", "COLON"}
     THEN Result(consume(tps.p, "RPAREN"), tps.t)
     ELSE Result(p, <<>>)

parse_fn_decl(p, allowOperator) ==
  LET n == FnName(p, allowOperator)
      tps == FnTypeParams(n.p)
      sig == Signature(consume(tps.p, "LPAREN"))
      wh  == parse_where_bounds(sig.p)
      body == parse_block(wh.p)
  IN IF n.t = NULL THEN n
     ELSE IF sig.t = NULL THEN sig
     ELSE Result(body.p, <<"fn", n.t, tps.t, sig.t, wh.t, body.t>>)

(* One field, its separators and the rule that two fields on one line need *)
(* one.                                                                    *)
StructField(p) ==
  LET RECURSIVE Separators(_)
      Separators(q) == IF CheckIn(q, {"COMMA", "SEMI"}) THEN Separators(advance(q)) ELSE q
      private == Check(p, "IDENT") /\ Cur(p).v = "private"
      ty  == WithReturnGuard(IF private THEN advance(p) ELSE p, TRUE, parse_type)
      n   == Name(ty.p)
      d   == DefaultValue(n.p)
      sep == Separators(d.p)
      glued == ~CheckIn(sep, {"RBRACE", "EOF"}) /\ sep.cur = d.p.cur /\ Cur(sep).ln <= Prev(d.p).ln
  IN IF ty.t = NULL THEN Result(recover_in_body(ty.p), NULL)
     ELSE IF n.t = NULL THEN Result(recover_in_body(n.p), NULL)
     ELSE Result(IF glued THEN error_at(sep) ELSE sep, <<"sfield", private, ty.t, n.t, d.t>>)

StructTypeParams(p) ==
  LET tps == DoWhile(advance(p), "COMMA", UpperTypeParam)
  IN IF ~Check(p, "LPAREN") THEN Result(p, <<>>)
     ELSE IF IsUpper(Cur(advance(p))) THEN Result(consume(tps.p, "RPAREN"), tps.t)
     ELSE Result(error_at(advance(p)), <<>>)

parse_struct_decl(p) ==
  LET n == Name(p)
      tps == StructTypeParams(n.p)
      fs  == WhileOpen(consume(tps.p, "LBRACE"), "RBRACE", StructField)
  IN IF n.t = NULL THEN n ELSE Result(consume(fs.p, "RBRACE"), <<"struct", n.t, tps.t, fs.t, <<>>>>)

EnumVariant(p) ==
  LET n == Name(p)
      Payload(q) == LET ty == TypeArgOrSync(q)
                        pn == IF Check(ty.p, "IDENT") THEN Name(ty.p) ELSE Result(ty.p, NULL)
                    IN IF ty.t = NULL THEN ty ELSE Result(pn.p, <<"payload", ty.t, pn.t>>)
      ps == ListUnless(advance(n.p), "RPAREN", Payload)
      pl == IF Check(n.p, "LPAREN") THEN Result(consume(ps.p, "RPAREN"), ps.t) ELSE Result(n.p, <<>>)
  IN IF n.t = NULL THEN Result(recover_in_body(n.p), NULL)
     ELSE Result(skip_semicolons(match_tok(pl.p, "COMMA")), <<"variant", n.t, pl.t>>)

parse_enum_decl(p) ==
  LET n  == Name(p)
      vs == WhileOpen(skip_semicolons(consume(n.p, "LBRACE")), "RBRACE", EnumVariant)
  IN IF n.t = NULL THEN n ELSE Result(consume(vs.p, "RBRACE"), <<"enum", n.t, vs.t, <<>>>>)

(* [static] def ..., a member of an interface or of a methods block.       *)
Member(p, Def(_)) ==
  LET static == Check(p, "STATIC")
      a == match_tok(p, "STATIC")
      f == Def(advance(a))
  IN IF Check(a, "FN") THEN Wrap(f, LAMBDA m : <<"method", static, m>>) ELSE Result(error_at(a), NULL)

parse_one_trait_sig(p) ==
  LET m == Member(p, parse_fn_signature)
  IN IF m.t = NULL THEN m ELSE Result(match_tok(m.p, "SEMI"), m.t)

parse_trait_decl(p) ==
  LET n == Name(p)
      sigs == parse_body_items(consume(n.p, "LBRACE"), parse_one_trait_sig)
  IN IF n.t = NULL THEN n ELSE Result(consume(sigs.p, "RBRACE"), <<"trait", n.t, sigs.t>>)

parse_receiver_type_params(p) ==
  LET ps == ListUnless(advance(p), "RPAREN", Name)
  IN IF Check(p, "LPAREN") THEN Result(consume(ps.p, "RPAREN"), ps.t) ELSE Result(p, <<>>)

MethodsBody(p, allowOperator) ==
  LET ms == parse_body_items(consume(p, "LBRACE"),
                             LAMBDA q : Member(q, LAMBDA r : parse_fn_decl(r, allowOperator)))
  IN Result(consume(ms.p, "RBRACE"), ms.t)

ForTargets == {"IDENT", "INT", "I64", "F64", "BOOL", "CHAR"}
MethodTargets == ForTargets \cup {"I8", "I16", "I32", "U8", "U16", "U32", "U64", "F32"}

(* methods Interface for Type, methods Type: Interface, methods Type.      *)
parse_impl_decl(p) ==
  LET forForm == Check(p, "IDENT") /\ Peek(p, 1).k = "FOR"
      target  == IF forForm THEN advance(advance(p)) ELSE p
      tps     == parse_receiver_type_params(advance(target))
      trait   == Name(advance(tps.p))
      Done(ms, tr) == Result(ms.p, <<"impl", tr, <<Cur(target).v>>, tps.t, ms.t>>)
  IN IF Check(p, "LPAREN") \/ ~CheckIn(target, IF forForm THEN ForTargets ELSE MethodTargets)
     THEN Result(error_at(target), NULL)
     ELSE IF forForm THEN Done(MethodsBody(tps.p, TRUE), <<Cur(p).v>>)
     ELSE IF ~Check(tps.p, "COLON") THEN Done(MethodsBody(tps.p, FALSE), <<"">>)
     ELSE IF trait.t = NULL THEN trait ELSE Done(MethodsBody(trait.p, TRUE), trait.t)

parse_type_alias_decl(p) ==
  LET n == Name(p)
      ty == WithReturnGuard(consume(n.p, "ASSIGN"), FALSE, parse_type)
      q == skip_semicolons(ty.p)
  IN IF n.t = NULL THEN n
     ELSE IF ty.t = NULL THEN Result(q, NULL) ELSE Result(q, <<"alias", n.t, ty.t>>)

parse_module_decl(p) ==
  LET n == Name(p) IN IF n.t = NULL THEN n ELSE Result(skip_semicolons(n.p), <<"module", n.t>>)

ImportSegment == {"IDENT", "ARRAY"}

(* A segment goes into path_buf when it fits, and is skipped otherwise.  A *)
(* first segment that was skipped leaves a dot before the next.            *)
Segment(q, x, dot) ==
  IF q.t.len + dot + Len(x) < PathBuf - 1
  THEN Result(advance(q.p), [len |-> q.t.len + dot + Len(x), segs |-> Append(q.t.segs, x)])
  ELSE Result([advance(q.p) EXCEPT !.lost = Append(@, x)], q.t)

parse_import_decl(p) ==
  LET RECURSIVE Path(_)
      Path(r) == LET a == [r EXCEPT !.p = advance(r.p)]
                 IN CASE ~Check(r.p, "DOT") -> r
                      [] Check(r.p, "DOT") /\ CheckIn(a.p, ImportSegment) -> Path(Segment(a, Cur(a.p).v, 1))
                      [] OTHER -> a
      whole == Path(Segment(Result(p, [len |-> 0, segs |-> <<>>]), Cur(p).v, 0))
      path == Result(whole.p, whole.t.segs)
      as   == advance(path.p)
      alias == CASE Check(path.p, "AS") /\ Check(as, "IDENT") -> Name(as)
                 [] Check(path.p, "AS") /\ ~Check(as, "IDENT") -> Result(as, NULL)
                 [] OTHER -> Result(path.p, NULL)
  IN IF CheckIn(p, ImportSegment) THEN Result(skip_semicolons(alias.p), <<"import", path.t, alias.t>>)
     ELSE Result(error_at(p), NULL)

parse_load_lib(p) ==
  LET n == Name(p)
      q == consume(consume(consume(n.p, "ASSIGN"), "LOAD"), "LPAREN")
  IN IF n.t = NULL THEN n
     ELSE IF ~Check(q, "STRING_LIT") THEN Result(error_at(q), NULL)
     ELSE Result(skip_semicolons(consume(advance(q), "RPAREN")), <<"lib", n.t, Cur(q).v>>)

(* The list without its default values: parse_param_list with out_defaults *)
(* NULL reads them and keeps none.                                         *)
WithoutDefaults(ps) ==
  IF ps.t = NULL THEN ps
  ELSE LET list == ps.t[2]
           given == SelectSeq(list, LAMBDA x : HoleFree(x[4]))
       IN Result([ps.p EXCEPT !.lost = @ \o FlattenSeq([i \in DOMAIN given |-> Texts(given[i][4])])],
                 <<"params", [i \in DOMAIN list |-> [list[i] EXCEPT ![4] = NULL]], ps.t[3]>>)

parse_extern_fn_body(p) ==
  LET n   == Name(p)
      ps  == WithoutDefaults(parse_param_list(consume(n.p, "LPAREN")))
      ret == ReturnType(consume(ps.p, "RPAREN"))
      lib == Optional(ret.p, "FROM", Name)
  IN IF n.t = NULL THEN n
     ELSE IF ps.t = NULL THEN ps
     ELSE Result(skip_semicolons(lib.p), <<"externfn", n.t, ps.t, ret.t, lib.t>>)

(* extern struct: a field that fails ends the whole declaration.           *)
parse_extern_struct(p) ==
  LET RECURSIVE Fields(_, _)
      Fields(q0, acc) ==
        LET q  == skip_semicolons(q0)
            ty == parse_type(q)
            n  == Name(ty.p)
        IN IF CheckIn(q0, {"RBRACE", "EOF"}) \/ Check(q, "RBRACE") THEN Result(q, <<"externstruct", acc>>)
           ELSE IF ty.t = NULL THEN ty
           ELSE IF n.t = NULL THEN n
           ELSE Fields(skip_semicolons(n.p), Append(acc, <<"sfield", FALSE, ty.t, n.t, NULL>>))
      name == Name(advance(p))
      fs == Fields(consume(name.p, "LBRACE"), <<>>)
  IN IF name.t = NULL THEN name
     ELSE IF fs.t = NULL THEN fs
     ELSE Result(skip_semicolons(consume(fs.p, "RBRACE")), <<"externstruct", name.t, fs.t[2]>>)

(* extern { ... }: a declaration that fails is dropped, other tokens are   *)
(* skipped one by one.                                                     *)
parse_extern_block(p) ==
  LET Body(q0) == LET q == skip_semicolons(q0)
                  IN CASE Check(q, "RBRACE") -> Result(q, NULL)
                       [] Check(q, "STRUCT") -> parse_extern_struct(q)
                       [] Check(q, "FN") -> parse_extern_fn_body(advance(q))
                       [] OTHER -> Result(advance(error_at(q)), NULL)
      ds == WhileOpen(consume(p, "LBRACE"), "RBRACE", Body)
  IN Result(skip_semicolons(consume(ds.p, "RBRACE")), <<"externblock", ds.t>>)

(***************************************************************************)
(* Expressions (parser_expr.c): prefix handlers.                           *)
(***************************************************************************)

(* `field: value, ...` up to and with the '}'.                             *)
FieldInits(p) ==
  LET RECURSIVE Loop(_, _)
      Loop(q, acc) ==
        LET n == consume(q, "IDENT")
            v == parse_expr_prec(consume(n, "COLON"), PREC_ASSIGNMENT)
            s == Append(acc, <<"init", Prev(n).v, v.t>>)
        IN IF CheckIn(q, {"RBRACE", "EOF"}) THEN Result(q, acc)
           ELSE IF Check(v.p, "COMMA") THEN Loop(advance(v.p), s) ELSE Result(v.p, s)
      inits == Loop(p, <<>>)
  IN Result(consume(inits.p, "RBRACE"), inits.t)

(* After a '{': an empty literal or `field :`.                             *)
LooksLikeFields(p) == Check(p, "RBRACE") \/ (Check(p, "IDENT") /\ Peek(p, 1).k = "COLON")

(* new Name and new Name{...} allocate; the other literals are values.     *)
NewNode(onStack, path, targs, inits) == <<"new", onStack, path, targs, inits>>

prefix_new_expr(p) ==
  LET n == consume(p, "IDENT")
      inits == FieldInits(advance(n))
  IN IF Check(n, "LBRACE") THEN Result(inits.p, NewNode(FALSE, <<Prev(n).v>>, <<>>, inits.t))
     ELSE Result(n, NewNode(FALSE, <<Prev(n).v>>, <<>>, <<>>))

AutoCall(p, node, name) ==
  IF ~Check(p, "LPAREN") /\ name \in AutoCallNames THEN Result(p, <<"call", node, <<>>, <<>>>>)
  ELSE Result(p, node)

(* IDENT (.IDENT)+ '{' that looks like fields: the path and the parser at  *)
(* the '{', or an empty path.                                              *)
QualifiedLiteral(p) ==
  LET RECURSIVE Path(_, _)
      Path(q, segs) ==
        IF Check(q, "DOT") THEN LET a == advance(q)
                                IN IF Check(a, "IDENT") THEN Path(advance(a), Append(segs, Cur(a).v))
                                   ELSE Result(q, <<>>)
        ELSE IF Check(q, "LBRACE") /\ LooksLikeFields(advance(q)) THEN Result(q, segs)
        ELSE Result(q, <<>>)
  IN Path(p, <<Prev(p).v>>)

(* (type, ...) of a generic literal or of a parameterized type.            *)
TypeArgs(p) ==
  LET ts == ListUnless(advance(p), "RPAREN", TypeArgOrSync) IN Result(consume(ts.p, "RPAREN"), ts.t)

prefix_ident(p) ==
  LET name  == Prev(p).v
      plain == FieldInits(advance(p))
      qual  == QualifiedLiteral(p)
      qinit == FieldInits(advance(qual.p))
      scan  == ParenScan(advance(p))
      after == advance(scan.p)
      closed == Check(p, "LPAREN") /\ Check(scan.p, "RPAREN")
      targs == TypeArgs(p)
      ginit == FieldInits(consume(targs.p, "LBRACE"))
  IN CASE Check(p, "LBRACE") /\ LooksLikeFields(advance(p))
            -> Result(plain.p, NewNode(TRUE, <<name>>, <<>>, plain.t))
       [] Check(p, "DOT") /\ qual.t /= <<>>
            -> Result(qinit.p, NewNode(TRUE, qual.t, <<>>, qinit.t))
       [] closed /\ Check(after, "LBRACE") /\ LooksLikeFields(advance(after))
            -> Result(ginit.p, NewNode(TRUE, <<name>>, targs.t, ginit.t))
       [] closed /\ Check(after, "DOT") /\ scan.top \cap TypeKeywords /= {}
            -> Result(targs.p, <<"id", name, targs.t>>)
       [] OTHER -> AutoCall(IF Check(p, "LBRACE") THEN [p EXCEPT !.prev = p.cur] ELSE p,
                            <<"id", name, <<>>>>, name)

(* f"...": text parts and {expr[:spec]}; a part before every expression    *)
(* and one after the last.                                                 *)
prefix_fstring(p) ==
  LET Pad(parts, exprs) == IF Len(parts) = Len(exprs) THEN Append(parts, "") ELSE parts
      Done(q, parts, exprs) == Result(q, <<"fstr", Pad(parts, exprs), exprs>>)
      RECURSIVE Loop(_, _, _)
      Loop(q, parts, exprs) ==
        LET e == Expr(advance(q))
            spec == Check(e.p, "FSTRING_SPEC")
        IN CASE Check(q, "FSTRING_TEXT") -> Loop(advance(q), Append(parts, Cur(q).v), exprs)
             [] Check(q, "LBRACE") ->
                  IF e.t = NULL THEN Done(error_at(e.p), Pad(parts, exprs), exprs)
                  ELSE Loop(IF spec THEN advance(e.p) ELSE consume(e.p, "RBRACE"), Pad(parts, exprs),
                            Append(exprs, <<"hole", e.t, IF spec THEN Cur(e.p).v ELSE "">>))
             [] Check(q, "FSTRING_END") -> Done(advance(q), parts, exprs)
             [] OTHER -> Done(error_at(q), parts, exprs)
  IN Loop(p, <<>>, <<>>)

prefix_grouping(p) == LET e == Expr(p) IN Result(consume(e.p, "RPAREN"), e.t)

Operand(p) == parse_expr_prec(p, PREC_UNARY)

UnaryNode(p, op) == LET e == Operand(p) IN Result(e.p, <<"unary", op, e.t>>)

prefix_addr(p) ==
  LET e == Operand(advance(p))
  IN IF Check(p, "BANG") THEN Result(e.p, <<"mutborrow", e.t>>) ELSE UnaryNode(p, "AMP")

prefix_at_bench(p) ==
  LET n == consume(p, "LPAREN")
      count == IF Cur(n).v = "0" THEN error_at(advance(n)) ELSE advance(n)
      e == Operand(consume(count, "RPAREN"))
  IN IF Check(n, "INT_LIT") THEN Result(e.p, <<"bench", Cur(n).v, e.t>>)
     ELSE Result(error_at(n), <<"bench", "0", NULL>>)

(* A closure: how it is written, its parameters, result, body and moved    *)
(* captures.                                                               *)
ClosureNode(form, params, ret, body, moves) == <<"closure", form, params, ret, body, moves>>

ReturnBlock(e) == <<"block", <<<<"return", e>>>>>>

(* The parameters between the bars, when the bar was not a '||'.           *)
BarParams(p, withParams) ==
  LET ps == ListUnless(p, "PIPE", LAMBDA q : Wrap(Name(q), LAMBDA n : <<"bparam", n>>))
  IN IF withParams THEN Result(consume(ps.p, "PIPE"), ps.t) ELSE Result(p, <<>>)

parse_ruby_closure_after_bar(p, withParams) ==
  LET ps == BarParams(p, withParams)
      blk == parse_block(ps.p)
      e == Expr(ps.p)
  IN IF Check(ps.p, "LBRACE") THEN Result(blk.p, ClosureNode("bar", ps.t, NULL, blk.t, <<>>))
     ELSE Wrap(e, LAMBDA t : ClosureNode("bar", ps.t, NULL, ReturnBlock(t), <<>>))

prefix_closure(p) ==
  LET Param(q) == LET ty == parse_type(q)
                      n == ParamName(ty.p)
                  IN IF ty.t = NULL THEN ty ELSE Result(n.p, <<"param", ty.t, n.t, NULL>>)
      ps  == ListUnless(consume(p, "LPAREN"), "RPAREN", Param)
      ret == Optional(consume(ps.p, "RPAREN"), "ARROW", parse_type)
      blk == parse_block(ret.p)
  IN Result(blk.p, ClosureNode("def", ps.t, ret.t, blk.t, <<>>))

(* bits[w:name][w:0xV][w:_]: recognised at the start of a pattern only.    *)
parser_at_bits_keyword(p) == Check(p, "IDENT") /\ Cur(p).v = "bits" /\ Peek(p, 1).k = "LBRACKET"

parse_bit_pattern_seq(p) ==
  LET RECURSIVE Fields(_, _)
      Fields(q, acc) ==
        LET w == advance(q)
            f == consume(advance(w), "COLON")
            ok == CheckIn(f, {"INT_LIT", "UNDERSCORE", "IDENT"})
            close == IF ok THEN advance(f) ELSE error_at(f)
        IN IF ~Check(q, "LBRACKET") THEN Result(q, acc)
           ELSE IF ~Check(w, "INT_LIT") THEN Result(error_at(w), acc)
           ELSE Fields(consume(close, "RBRACKET"),
                       Append(acc, <<"bit", Cur(w).v, IF ok THEN Cur(f).v ELSE "">>))
      fs == Fields(advance(p), <<>>)
  IN Result(fs.p, <<"bits", fs.t>>)

(* One pattern; '|' separates alternatives, so it binds at PREC_BITXOR.    *)
MatchPattern(p) ==
  LET One(q) == IF parser_at_bits_keyword(q) THEN parse_bit_pattern_seq(q)
                ELSE parse_expr_prec(q, PREC_BITXOR)
      RECURSIVE More(_)
      More(r) == LET rhs == One(advance(r.p))
                 IN IF Check(r.p, "PIPE") THEN More(Result(rhs.p, <<"orpat", r.t, rhs.t>>)) ELSE r
  IN More(One(p))

BlockOrExpr(p) == IF Check(p, "LBRACE") THEN parse_block(p) ELSE Expr(p)

MatchArm(p) ==
  LET pat == MatchPattern(p)
      body == BlockOrExpr(consume(pat.p, "FAT_ARROW"))
  IN Result(match_tok(body.p, "COMMA"), <<"arm", pat.t, body.t>>)

prefix_match(p) ==
  LET subject == Expr(p)
      arms == WhileOpen(consume(subject.p, "LBRACE"), "RBRACE", MatchArm)
  IN Result(consume(arms.p, "RBRACE"), <<"match", subject.t, arms.t>>)

prefix_symbol(p) ==
  IF Check(p, "IDENT") THEN Result(advance(p), <<"str", Cur(p).v>>) ELSE Result(error_at(p), NULL)

RangeBoundAbsent == {"RBRACKET", "RPAREN", "COMMA", "SEMI", "EOF", "LBRACE", "RBRACE"}

(* .. and what follows it; either end may be missing.                      *)
RangeFrom(p, left) ==
  LET e == parse_expr_prec(p, PREC_COMPARISON)
  IN IF CheckIn(p, RangeBoundAbsent) THEN Result(p, <<"range", left, NULL>>)
     ELSE Wrap(e, LAMBDA t : <<"range", left, t>>)

(* {field: v} is a struct literal of the expected type, {k: v} a map.      *)
prefix_map_lit(p) ==
  LET inits == FieldInits(p)
      Pair(q) == LET k == Expr(q)
                     v == Expr(advance(k.p))
                 IN IF Check(q, "RBRACE") THEN Result(q, NULL)
                    ELSE IF k.t = NULL THEN k
                    ELSE IF ~Check(k.p, "COLON") THEN Result(error_at(k.p), NULL)
                    ELSE Wrap(v, LAMBDA t : <<"pair", k.t, t>>)
      pairs == ListUnless(p, "RBRACE", Pair)
  IN IF Check(p, "IDENT") /\ Peek(p, 1).k = "COLON"
     THEN Result(inits.p, NewNode(TRUE, <<"">>, <<>>, inits.t))
     ELSE Result(consume(pairs.p, "RBRACE"), <<"map", pairs.t>>)

(* [move a, b] and the closure that must follow.                           *)
prefix_capture_spec(p) ==
  LET names == DoWhile(advance(p), "COMMA", Name)
      failed == names.t = <<>> \/ Prev(names.p).k = "COMMA"
      q == consume(names.p, "RBRACKET")
      c == parse_ruby_closure_after_bar(advance(q), Check(q, "PIPE"))
  IN IF failed THEN Result(names.p, NULL)
     ELSE IF CheckIn(q, {"PIPE", "OR"}) THEN Wrap(c, LAMBDA t : [t EXCEPT ![6] = names.t])
     ELSE Result(error_at(q), NULL)

prefix_array_lit(p) ==
  LET es == ListUnless(p, "RBRACKET", Expr)
  IN IF Check(p, "IDENT") /\ Cur(p).v = "move" THEN prefix_capture_spec(p)
     ELSE Result(consume(es.p, "RBRACKET"), <<"arr", es.t>>)

(* The prefix column of rules[], for the token just consumed; an integer   *)
(* literal that does not fit 64 bits is an error without panic.            *)
Prefix(p) ==
  LET k == Prev(p).k
      v == Prev(p).v
  IN CASE k = "INT_LIT" -> IF v = "huge" THEN Result(error_no_panic(p), <<"int", "0">>)
                           ELSE Result(p, <<"int", v>>)
       [] k = "FLOAT_LIT" -> Result(p, <<"float", v>>)
       [] k \in {"STRING_LIT", "RAWSTRING_LIT", "RAWSTRING3_LIT"} -> Result(p, <<"str", v>>)
       [] k = "CHAR_LIT" -> Result(p, <<"int", v>>)
       [] k \in {"TRUE", "FALSE"} -> Result(p, <<"bool", k>>)
       [] k = "NIL" -> Result(p, <<"nil">>)
       [] k = "FSTRING_START" -> prefix_fstring(p)
       [] k \in {"IDENT", "SELF"} -> prefix_ident(p)
       [] k \in {"UNDERSCORE", "AT_PRINT", "AT_INTRINSIC"} -> Result(p, <<"id", v, <<>>>>)
       [] k = "LPAREN" -> prefix_grouping(p)
       [] k = "LBRACKET" -> prefix_array_lit(p)
       [] k = "LBRACE" -> prefix_map_lit(p)
       [] k \in {"MINUS", "STAR", "BANG", "TILDE"} -> UnaryNode(p, k)
       [] k = "AMP" -> prefix_addr(p)
       [] k \in {"PIPE", "OR"} -> parse_ruby_closure_after_bar(p, k = "PIPE")
       [] k = "DOTDOT" -> RangeFrom(p, NULL)
       [] k = "FN" -> prefix_closure(p)
       [] k = "MATCH" -> prefix_match(p)
       [] k = "COLON" -> prefix_symbol(p)
       [] k = "NEW" -> prefix_new_expr(p)
       [] k \in {"TRY", "AT_TIME"} -> LET e == Operand(p) IN Result(e.p, <<"pre", k, e.t>>)
       [] k = "AT_BENCH" -> prefix_at_bench(p)
       [] OTHER -> Result(error_at(p), NULL)

(***************************************************************************)
(* Expressions: infix handlers and the Pratt loop.                         *)
(***************************************************************************)
InfixLevels ==                          \* the infix column of rules[]
  << {"ASSIGN", "PLUS_ASSIGN", "MINUS_ASSIGN", "STAR_ASSIGN", "SLASH_ASSIGN"}, {"OR"}, {"AND"},
     {"EQ", "NEQ"}, {"DOTDOT", "LT", "GT", "LEQ", "GEQ"}, {"PIPE"}, {"CARET"}, {"AMP"},
     {"LSHIFT", "RSHIFT"}, {"PLUS", "MINUS"}, {"STAR", "SLASH", "PERCENT"}, {},
     {"LPAREN", "LBRACKET", "DOT", "AS", "BANG"} >>

InfixPrec(k) == IF \E i \in DOMAIN InfixLevels : k \in InfixLevels[i]
                THEN CHOOSE i \in DOMAIN InfixLevels : k \in InfixLevels[i] ELSE PREC_NONE

(* Left-associative: the right operand binds tighter than the operator.    *)
infix_binary_real(p, op, left) ==
  Wrap(parse_expr_prec(p, InfixPrec(op)), LAMBDA r : <<"bin", op, left, r>>)

infix_assign(p, op, left) == Wrap(Expr(p), LAMBDA r : <<"assign", op, left, r>>)

(* '{' followed by '|' or '||' after a call.                               *)
AtTrailingClosure(p) == Check(p, "LBRACE") /\ Peek(p, 1).k \in {"PIPE", "OR"}

(* (types)(args), or (types) { |x| ... }: the '(' is already passed.       *)
MayBeTypeArgs(p) == CheckIn(p, TypeKeywords \cup {"STAR", "AMP"}) \/ IsUpper(Cur(p))

ConfirmedTypeArgs(p) ==
  LET end == ParenScan(p).p
      after == advance(end)
  IN Check(end, "RPAREN") /\ (Check(after, "LPAREN") \/ AtTrailingClosure(after))

(* The lookahead restores the scanner and `current`, not `previous`.       *)
AfterLookahead(p) ==
  LET end == ParenScan(p).p
  IN IF MayBeTypeArgs(p) THEN [p EXCEPT !.prev = IF Check(end, "RPAREN") THEN end.cur ELSE end.prev] ELSE p

(* { |x| stmts } after the arguments: a single expression is returned.     *)
TrailingClosure(p) ==
  LET bar == advance(p)
      ps == BarParams(advance(bar), Check(bar, "PIPE"))
      Stmt(q) == LET r == parse_statement(q)
                 IN IF r.t = NULL THEN r ELSE Result(skip_semicolons(r.p), r.t)
      ss == parse_body_items(skip_semicolons(ps.p), Stmt)
      body == IF Len(ss.t) = 1 /\ ss.t[1][1] = "exprstmt" THEN ReturnBlock(ss.t[1][2]) ELSE <<"block", ss.t>>
  IN Result(consume(ss.p, "RBRACE"), ClosureNode("bar", ps.t, NULL, body, <<>>))

(* Arguments up to and with the ')', then a trailing closure if there is   *)
(* one.                                                                    *)
CallTail(p, callee, targs, skipArgs) ==
  LET list == ListUnless(p, "RPAREN", Expr)
      args == IF skipArgs THEN Result(p, <<>>) ELSE Result(consume(list.p, "RPAREN"), list.t)
      tc == TrailingClosure(args.p)
  IN IF AtTrailingClosure(args.p) THEN Result(tc.p, <<"call", callee, targs, Append(args.t, tc.t)>>)
     ELSE Result(args.p, <<"call", callee, targs, args.t>>)

infix_call(p, left) ==
  LET ty == parse_type(p)
      ts == DoWhile(p, "COMMA", parse_type)
      after == consume(ts.p, "RPAREN")
      typeOp == left[1] = "id" /\ left[2] \in {"sizeof", "__type_name"}
      callable == left[1] \in {"id", "field"} /\ ~typeOp
  IN CASE typeOp -> Result(consume(ty.p, "RPAREN"), <<left[2], ty.t>>)
       [] callable /\ MayBeTypeArgs(p) /\ ConfirmedTypeArgs(p)
            -> IF AtTrailingClosure(after) THEN CallTail(after, left, ts.t, TRUE)
               ELSE CallTail(consume(after, "LPAREN"), left, ts.t, FALSE)
       [] OTHER -> CallTail(IF callable THEN AfterLookahead(p) ELSE p, left, <<>>, FALSE)

infix_index(p, left) ==
  LET RECURSIVE Indices(_, _)
      Indices(q, acc) == LET e == Expr(q)
                         IN IF Check(e.p, "COMMA") THEN Indices(advance(e.p), Append(acc, e.t))
                            ELSE Result(e.p, Append(acc, e.t))
      is == Indices(p, <<>>)
  IN Result(consume(is.p, "RBRACKET"), <<"index", left, is.t>>)

FieldNames == {"IDENT", "SELF", "ARRAY", "NEW", "TYPE_ALIAS"}

(* left.name, the comptime left.(handle), and lib.call(:fn, args).         *)
infix_field(p, left) ==
  LET handle == Name(advance(p))
      name == Cur(p).v
      args == ListUnless(advance(advance(p)), "RPAREN", Expr)
      ffi == IF args.t /= <<>> /\ args.t[1][1] = "str" THEN <<"ffi", left, args.t[1][2], Tail(args.t)>>
             ELSE <<"ffi", left, "?", args.t>>
  IN CASE Check(p, "LPAREN") -> IF handle.t = NULL THEN handle
                                ELSE Result(consume(handle.p, "RPAREN"), <<"ctfield", left, handle.t>>)
       [] ~CheckIn(p, FieldNames \cup {"LPAREN"}) -> Result(error_at(p), NULL)
       [] CheckIn(p, FieldNames) -> IF name = "call" /\ Check(advance(p), "LPAREN")
                                    THEN Result(consume(args.p, "RPAREN"), ffi)
                                    ELSE AutoCall(advance(p), <<"field", left, name>>, name)

infix_cast(p, left) == LET ty == parse_type(p) IN Result(ty.p, <<"cast", left, ty.t>>)

Infix(p, left) ==
  LET op == Prev(p).k
  IN CASE op = "LPAREN" -> infix_call(p, left)
       [] op = "LBRACKET" -> infix_index(p, left)
       [] op = "DOT" -> infix_field(p, left)
       [] op = "AS" -> infix_cast(p, left)
       [] op = "BANG" -> Result(p, <<"unwrap", left>>)
       [] op = "DOTDOT" -> RangeFrom(p, left)
       [] op \in InfixLevels[1] -> infix_assign(p, op, left)
       [] OTHER -> infix_binary_real(p, op, left)

NewLine(p) == Cur(p).ln > Prev(p).ln

StarStartsDeclAnyLine(p, atBoundary) == \* mutant: the line of the name is not looked at
  \/ Peek(p, 1).k \in TypeKeywords
  \/ Peek(p, 1).k = "IDENT" /\ (atBoundary \/ NewLine(p)) /\ Peek(p, 2).k = "IDENT"

(* A '*' after an operand that starts the next statement, a pointer        *)
(* declaration, rather than multiplying.                                   *)
StarStartsDecl(p, atBoundary) ==
  \/ Peek(p, 1).k \in TypeKeywords
  \/ /\ Peek(p, 1).k = "IDENT" /\ (atBoundary \/ NewLine(p))
     /\ Peek(p, 2).k = "IDENT" /\ Peek(p, 2).ln = Cur(p).ln

(* The same for '&' and a borrow declaration on a new line.                *)
AmpStartsDecl(p) ==
  LET at == IF Peek(p, 1).k = "BANG" THEN 2 ELSE 1
  IN /\ NewLine(p)
     /\ \/ Peek(p, at).k = "ARRAY"
        \/ Peek(p, at).k \in TypeKeywords \cup {"IDENT"} /\ Peek(p, at + 1).k = "IDENT"

parse_expr_prec_inner(p, minPrec) ==
  LET atBoundary == p.boundary
      RECURSIVE Loop(_)
      Loop(r) ==
        IF \/ r.t = NULL
           \/ InfixPrec(Cur(r.p).k) <= minPrec
           \/ Check(r.p, "STAR") /\ StarStartsDecl(r.p, atBoundary)
           \/ Check(r.p, "AMP") /\ AmpStartsDecl(r.p)
        THEN r
        ELSE Loop(Infix(advance(r.p), r.t))
  IN Loop(Prefix(advance([p EXCEPT !.boundary = FALSE])))

parse_expr_prec(p, minPrec) ==
  Guarded(p, LAMBDA q : parse_expr_prec_inner(q, minPrec), LAMBDA q : Result(q, NULL))

(***************************************************************************)
(* Statements (parser_stmt.c).                                             *)
(***************************************************************************)
parse_if_stmt(p) ==
  LET RECURSIVE If(_)
      If(q) ==
        LET cond == Expr(q)
            then == parse_block(cond.p)
            else == advance(then.p)
            alt  == IF ~Check(then.p, "ELSE") THEN Result(then.p, NULL)
                    ELSE IF Check(else, "IF") THEN If(advance(else))
                    ELSE parse_block(else)
        IN Result(alt.p, <<"if", cond.t, then.t, alt.t>>)
  IN If(p)

parse_while_stmt(p) ==
  LET cond == Expr(p)
      body == parse_block(cond.p)
  IN Result(body.p, <<"while", cond.t, body.t>>)

ExprStmt(r) == Wrap(r, LAMBDA e : IF e[1] = "assign" THEN e ELSE <<"exprstmt", e>>)

(* One clause of a C-style for: no semicolon is consumed.                  *)
parse_for_clause_stmt(p) == IF starts_var_decl(p) THEN TypedVar(p) ELSE ExprStmt(Expr(p))

(* A ';' before the ')' that closes the clause list.                       *)
is_c_style_for(p) ==
  LET scan == ParenScan(p) IN "SEMI" \in scan.top

parse_for_stmt(p) ==
  LET paren == Check(p, "LPAREN")
      q == match_tok(p, "LPAREN")
      Clause(r, close, Part(_)) == IF Check(r, close) THEN Result(r, NULL) ELSE Part(r)
      init == Clause(q, "SEMI", parse_for_clause_stmt)
      cond == Clause(consume(init.p, "SEMI"), "SEMI", Expr)
      upd  == Clause(consume(cond.p, "SEMI"), "RPAREN", parse_for_clause_stmt)
      cbody == parse_block(consume(upd.p, "RPAREN"))
      var  == Name(q)
      iter == Expr(consume(var.p, "IN"))
      body == parse_block(IF paren THEN consume(iter.p, "RPAREN") ELSE iter.p)
  IN IF paren /\ is_c_style_for(q) THEN Result(cbody.p, <<"forc", init.t, cond.t, upd.t, cbody.t>>)
     ELSE IF var.t = NULL THEN var
     ELSE Result(body.p, <<"for", var.t, iter.t, body.t>>)

parse_return_stmt(p) ==
  LET v == IF CheckIn(p, {"SEMI", "RBRACE", "EOF"}) THEN Result(p, NULL) ELSE Expr(p)
  IN Result(skip_semicolons(v.p), <<"return", v.t>>)

NestedDecls == {"fn", "struct", "enum", "impl", "trait", "module"}

(* { stmts }: a nested definition is reported and dropped.                 *)
parse_block_inner(p) ==
  LET Stmt(q) == LET r == parse_statement(q)
                 IN IF r.t = NULL THEN Result(recover_in_body(r.p), NULL)
                    ELSE IF r.t[1] \in NestedDecls THEN Result(error_at(r.p), NULL)
                    ELSE Result(skip_semicolons(r.p), r.t)
      ss == WhileOpen(skip_semicolons(advance(p)), "RBRACE", Stmt)
  IN IF Check(p, "LBRACE") THEN Result(consume(ss.p, "RBRACE"), <<"block", ss.t>>)
     ELSE Result(error_at(p), EmptyBlock)

parse_block(p) == Guarded(p, parse_block_inner, LAMBDA q : Result(recover_in_body(q), EmptyBlock))

(* comptime for x in fields(T) / variants(T) { }.                          *)
ComptimeFor(p) ==
  LET var == Name(p)
      q == consume(var.p, "IN")
      over == parse_type(consume(advance(q), "LPAREN"))
      body == parse_block(consume(over.p, "RPAREN"))
  IN IF var.t = NULL THEN var
     ELSE IF ~Check(q, "IDENT") \/ Cur(q).v \notin {"fields", "variants"} THEN Result(error_at(q), NULL)
     ELSE Result(body.p, <<"ctfor", var.t, Cur(q).v, over.t, body.t>>)

(* comptime match e { handle(binder) => body }.                            *)
ComptimeMatch(p) ==
  LET subject == Expr(p)
      h == Name(consume(subject.p, "LBRACE"))
      b == Name(advance(h.p))
      binder == IF ~Check(h.p, "LPAREN") THEN h
                ELSE IF b.t = NULL THEN b ELSE Result(consume(b.p, "RPAREN"), b.t)
      body == BlockOrExpr(consume(binder.p, "FAT_ARROW"))
  IN IF h.t = NULL \/ binder.t = NULL THEN Result(binder.p, NULL)
     ELSE Result(consume(match_tok(body.p, "COMMA"), "RBRACE"),
                 <<"ctmatch", subject.t, h.t, IF Check(h.p, "LPAREN") THEN b.t ELSE NULL, body.t>>)

(* comptime type name = expr, or = comptime { ... }.                       *)
ComptimeConst(p) ==
  LET ty == parse_type(p)
      n == Name(ty.p)
      q == consume(n.p, "ASSIGN")
      blk == parse_block(advance(q))
      v == IF Check(q, "COMPTIME") THEN Result(blk.p, <<"ctblock", blk.t>>) ELSE Expr(q)
  IN IF ty.t = NULL THEN Result(error_at(ty.p), NULL)
     ELSE IF n.t = NULL THEN n
     ELSE IF Check(q, "COMPTIME") /\ ~Check(advance(q), "LBRACE") THEN Result(error_at(advance(q)), NULL)
     ELSE Result(skip_semicolons(v.p), <<"ctconst", ty.t, n.t, v.t>>)

parse_comptime_stmt(p) ==
  LET RECURSIVE Comptime(_)
      ComptimeIf(q) ==
        LET cond == Expr(q)
            then == parse_block(cond.p)
            else == advance(then.p)
            alt == IF ~Check(then.p, "ELSE") THEN Result(then.p, NULL)
                   ELSE IF Check(else, "COMPTIME") THEN Comptime(advance(else))
                   ELSE parse_block(else)
        IN Result(alt.p, <<"ctif", cond.t, then.t, alt.t>>)
      Comptime(q) == CASE Check(q, "FOR") -> ComptimeFor(advance(q))
                       [] Check(q, "IF") -> ComptimeIf(advance(q))
                       [] Check(q, "MATCH") -> ComptimeMatch(advance(q))
                       [] OTHER -> ComptimeConst(q)
  IN Comptime(p)

(* @derive(Trait, ...) on the struct or enum that follows.                 *)
Attribute(p) ==
  LET attr == Name(p)
      names == ListUnless(advance(attr.p), "RPAREN", Name)
      list == IF Check(attr.p, "LPAREN") THEN Result(consume(names.p, "RPAREN"), names.t)
              ELSE Result(attr.p, <<>>)
      decl == parse_statement(list.p)
  IN IF attr.t = NULL THEN attr
     ELSE IF attr.t /= <<"derive">> THEN Result(error_at(decl.p), decl.t)
     ELSE IF decl.t = NULL THEN decl
     ELSE IF decl.t[1] = "struct" THEN Result(decl.p, [decl.t EXCEPT ![5] = list.t])
     ELSE IF decl.t[1] = "enum" THEN Result(decl.p, [decl.t EXCEPT ![4] = list.t])
     ELSE Result(error_at(decl.p), decl.t)

parse_statement(p0) ==
  LET p == skip_semicolons(p0)
      k == Cur(p).k
      q == advance(p)
      e == Expr([p EXCEPT !.boundary = TRUE])
  IN CASE k = "AT" -> Attribute(q)
       [] k = "FN" /\ Check(q, "IDENT") -> parse_fn_decl(q, FALSE)
       [] k = "STRUCT" -> parse_struct_decl(q)
       [] k = "ENUM" -> parse_enum_decl(q)
       [] k = "IMPL" -> parse_impl_decl(q)
       [] k = "TRAIT" -> parse_trait_decl(q)
       [] k = "MODULE" -> parse_module_decl(q)
       [] k = "IMPORT" -> parse_import_decl(q)
       [] k = "TYPE_ALIAS" -> parse_type_alias_decl(q)
       [] k = "LIB" -> parse_load_lib(q)
       [] k = "EXTERN" -> CASE Check(q, "LBRACE") -> parse_extern_block(q)
                            [] Check(q, "STRUCT") -> parse_extern_struct(q)
                            [] OTHER -> parse_extern_fn_body(consume(q, "FN"))
       [] k = "IF" -> parse_if_stmt(q)
       [] k = "WHILE" -> parse_while_stmt(q)
       [] k = "FOR" -> parse_for_stmt(q)
       [] k = "COMPTIME" -> parse_comptime_stmt(q)
       [] k = "RETURN" -> parse_return_stmt(q)
       [] k \in {"BREAK", "CONTINUE"} -> Result(skip_semicolons(q), <<k>>)
       [] k = "LBRACE" -> parse_block(p)
       [] OTHER -> IF k /= "FN" /\ starts_var_decl(p) THEN parse_var_decl(p)
                   ELSE IF e.t = NULL THEN e
                   ELSE Result(skip_semicolons(e.p), ExprStmt(e).t)

(* parse(): the whole file.  The program is dropped when anything failed.  *)
parse(toks) ==
  LET Decl(q) == LET r == parse_statement(q)
                 IN Result(skip_semicolons(IF r.t = NULL THEN synchronize(r.p) ELSE r.p), r.t)
      ds == WhileOpen(skip_semicolons(InitParser(toks)), "EOF", Decl)
  IN Result(ds.p, IF ds.p.err THEN NULL ELSE <<"program", ds.t>>)
=============================================================================
