----------------------------- MODULE ParserCore -----------------------------
(***************************************************************************)
(* The syntax tree of src/src/ast.h, and the token-stream primitives of    *)
(* src/src/parser.c.                                                       *)
(*                                                                         *)
(* A token is [k, v, ln]: its kind (the TOKEN_ name), its lexeme where the *)
(* parser looks at it, and its line.  The parser is a record: the token    *)
(* sequence the scanner delivers, the indices of `current` and `previous`  *)
(* in it, panic_mode, had_error, the nesting depth, and the two mode flags *)
(* stmt_boundary and in_return_type.  A lookahead that saves and restores  *)
(* the scanner works on a copy of this record.                             *)
(*                                                                         *)
(* `spin` is not in the code: it becomes TRUE when one iteration of a body *)
(* loop leaves the whole parser as it found it, that is, when the C loop   *)
(* never ends.  Nor is `lost`: the texts the code throws away without an   *)
(* error message.                                                          *)
(***************************************************************************)
EXTENDS Naturals, Sequences, SequencesExt

-----------------------------------------------------------------------------
(***************************************************************************)
(* The shape of the syntax tree of src/src/ast.h.                          *)
(*                                                                         *)
(* A node is a tuple: its kind, then its children in the order of Schema.  *)
(* Each child is described by one letter:                                  *)
(*   n  a node that must be there      o  a node that may be missing       *)
(*   l  a list of nodes                s  a text                           *)
(*   w  a list of texts (a name)       m  a name that may be missing       *)
(*   v  a list of names                d  a flag                           *)
(***************************************************************************)
NULL == <<"NULL">>

(* TypeNode.                                                               *)
TypeSchema ==
  [prim |-> <<"s">>, ptr |-> <<"n">>, ref |-> <<"d", "n">>, slice |-> <<"d", "n">>, ARRAY |-> <<"n", "s">>,
   SIMD |-> <<"n", "s">>, fnty |-> <<"l", "o">>, blockty |-> <<"l", "o">>, named |-> <<"w", "l">>]

(* The expressions of AstNode.                                             *)
ExprSchema ==
  [int |-> <<"s">>, float |-> <<"s">>, str |-> <<"s">>, bool |-> <<"d">>, nil |-> <<>>,
   fstr |-> <<"w", "l">>, hole |-> <<"n", "s">>, arr |-> <<"l">>, map |-> <<"l">>, pair |-> <<"n", "n">>,
   id |-> <<"s", "l">>, unary |-> <<"s", "n">>, mutborrow |-> <<"n">>, bin |-> <<"s", "n", "n">>,
   call |-> <<"n", "l", "l">>, index |-> <<"n", "l">>, field |-> <<"n", "s">>,
   closure |-> <<"d", "l", "o", "n", "v">>, bparam |-> <<"w">>, match |-> <<"n", "l">>, arm |-> <<"n", "n">>,
   orpat |-> <<"n", "n">>, bits |-> <<"l">>, bit |-> <<"s", "s">>, cast |-> <<"n", "n">>,
   sizeof |-> <<"n">>, __type_name |-> <<"n">>, pre |-> <<"d", "n">>, bench |-> <<"s", "n">>,
   unwrap |-> <<"n">>, range |-> <<"o", "o">>, new |-> <<"d", "w", "l", "l">>, init |-> <<"s", "n">>,
   ffi |-> <<"n", "s", "l">>, ctfield |-> <<"n", "w">>, ctblock |-> <<"n">>]

(* Its statements.                                                         *)
StmtSchema ==
  [var |-> <<"n", "w", "o">>, assign |-> <<"s", "n", "n">>, return |-> <<"o">>, BREAK |-> <<>>,
   CONTINUE |-> <<>>, if |-> <<"n", "n", "o">>, while |-> <<"n", "n">>, for |-> <<"w", "n", "n">>,
   forc |-> <<"o", "o", "o", "n">>, block |-> <<"l">>, exprstmt |-> <<"n">>,
   ctfor |-> <<"w", "d", "n", "n">>, ctif |-> <<"n", "n", "o">>, ctmatch |-> <<"n", "w", "m", "n">>,
   ctconst |-> <<"n", "w", "n">>, lib |-> <<"w", "s">>]

(* And its declarations.                                                   *)
DeclSchema ==
  [program |-> <<"l">>, fn |-> <<"w", "l", "n", "l", "o">>, sig |-> <<"d", "l", "o">>,
   param |-> <<"n", "w", "o">>, params |-> <<"l", "d">>, tparam |-> <<"w", "v">>, where |-> <<"w", "v">>,
   struct |-> <<"w", "l", "l", "v">>, sfield |-> <<"d", "n", "w", "o">>, enum |-> <<"w", "l", "v">>,
   variant |-> <<"w", "l">>, payload |-> <<"n", "m">>, trait |-> <<"w", "l">>,
   impl |-> <<"w", "w", "v", "l">>, method |-> <<"d", "n">>, module |-> <<"w">>, import |-> <<"w", "m">>,
   alias |-> <<"w", "n">>, externfn |-> <<"w", "n", "o", "m">>, externstruct |-> <<"w", "l">>,
   externblock |-> <<"l">>]

Kinds(schema) == DOMAIN schema

Schema(kind) == CASE kind \in Kinds(TypeSchema) -> TypeSchema[kind]
                  [] kind \in Kinds(ExprSchema) -> ExprSchema[kind]
                  [] kind \in Kinds(StmtSchema) -> StmtSchema[kind]
                  [] kind \in Kinds(DeclSchema) -> DeclSchema[kind]

(* The nodes below a node that must be present, and those that may be.     *)
ChildNodes(t) ==
  LET code == Schema(t[1])
      Of(i) == CASE code[i] = "n" -> <<t[i + 1]>>
                 [] code[i] = "l" -> t[i + 1]
                 [] code[i] = "o" -> IF t[i + 1] = NULL THEN <<>> ELSE <<t[i + 1]>>
                 [] OTHER -> <<>>
  IN FlattenSeq([i \in DOMAIN code |-> Of(i)])

(* The texts a node holds itself.                                          *)
OwnTexts(t) ==
  LET code == Schema(t[1])
      Of(i) == CASE code[i] = "s" -> <<t[i + 1]>>
                 [] code[i] = "w" -> t[i + 1]
                 [] code[i] = "v" -> FlattenSeq(t[i + 1])
                 [] code[i] = "m" -> IF t[i + 1] = NULL THEN <<>> ELSE t[i + 1]
                 [] OTHER -> <<>>
  IN FlattenSeq([i \in DOMAIN code |-> Of(i)])

RECURSIVE HoleFree(_), Texts(_)

(* No child that must be there is missing, at any depth.                   *)
HoleFree(t) == t /= NULL /\ \A i \in DOMAIN ChildNodes(t) : HoleFree(ChildNodes(t)[i])

Texts(t) ==
  LET kids == ChildNodes(t) IN OwnTexts(t) \o FlattenSeq([i \in DOMAIN kids |-> Texts(kids[i])])

-----------------------------------------------------------------------------
(* The parser's record and its primitives.                                 *)
CONSTANT MaxParseDepth                  \* LS_MAX_PARSE_DEPTH

ASSUME DepthAssumption == MaxParseDepth \in Nat \ {0}

Tok(k, v, ln) == [k |-> k, v |-> v, ln |-> ln]

(* What a parse function returns: the parser after it, and the node.       *)
Result(p, node) == [p |-> p, t |-> node]

Cur(p)  == p.toks[p.cur]
Prev(p) == p.toks[p.prev]

Check(p, k) == Cur(p).k = k
CheckIn(p, K) == Cur(p).k \in K

(* scanner_next on a copy of the scanner: the n-th token after `current`,  *)
(* error tokens included; past the end the scanner repeats EOF.            *)
Peek(p, n) == IF p.cur + n <= Len(p.toks) THEN p.toks[p.cur + n] ELSE p.toks[Len(p.toks)]

error_at(p) == IF p.panic THEN p ELSE [p EXCEPT !.panic = TRUE, !.err = TRUE]

error_no_panic(p) == IF p.panic THEN p ELSE [p EXCEPT !.err = TRUE]

(* advance: error tokens of the scanner are reported and skipped.          *)
advance(p) ==
  LET after == {i \in p.cur + 1 .. Len(p.toks) : p.toks[i].k /= "ERROR"}
      next  == IF after = {} THEN Len(p.toks) ELSE CHOOSE i \in after : \A j \in after : i <= j
  IN [p EXCEPT !.prev = p.cur, !.cur = next, !.err = @ \/ next > p.cur + 1]

consume(p, k) == IF Check(p, k) THEN advance(p) ELSE error_at(p)

match_tok(p, k) == IF Check(p, k) THEN advance(p) ELSE p

skip_semicolons(p) ==
  LET RECURSIVE Skip(_)
      Skip(q) == IF Check(q, "SEMI") THEN Skip(advance(q)) ELSE q
  IN Skip(p)

SyncKinds == {"FN", "STRUCT", "ENUM", "IMPL", "TRAIT", "IF", "WHILE", "FOR", "RETURN", "MODULE",
              "IMPORT", "EXTERN", "RBRACE"}

synchronize(p) ==
  LET RECURSIVE Sync(_)
      Sync(q) == IF \/ Check(q, "EOF") \/ Prev(q).k = "SEMI" \/ CheckIn(q, SyncKinds)
                 THEN q ELSE Sync(advance(q))
  IN Sync([p EXCEPT !.panic = FALSE])

recover_no_skip(p) == synchronize(p)    \* mutant: no forced progress

recover_in_body(p) ==
  LET q == synchronize(p)
  IN IF q.cur = p.cur /\ ~CheckIn(q, {"EOF", "RBRACE"}) THEN advance(q) ELSE q

(***************************************************************************)
(* Shapes of loops that recur in the grammar.  Each returns the list of    *)
(* the nodes collected.                                                    *)
(***************************************************************************)

(* do { item } while (match_tok(sep)), left at the first NULL item.        *)
DoWhile(p, sep, Item(_)) ==
  LET RECURSIVE Loop(_, _)
      Loop(q, acc) ==
        LET r == Item(q)
        IN IF r.t = NULL THEN Result(r.p, acc)
           ELSE IF Check(r.p, sep) THEN Loop(advance(r.p), Append(acc, r.t))
           ELSE Result(r.p, Append(acc, r.t))
  IN Loop(p, <<>>)

(* The same when the list may be empty: if (!check(close)) do ... .        *)
ListUnless(p, close, Item(_)) ==
  IF Check(p, close) THEN Result(p, <<>>) ELSE DoWhile(p, "COMMA", Item)

(* while (!check(close) && !check(EOF)): Body parses one member and does   *)
(* its own recovery; a NULL member is dropped.  An iteration that changes  *)
(* nothing repeats for ever.                                               *)
WhileOpen(p, close, Body(_)) ==
  LET RECURSIVE Loop(_, _)
      Loop(q, acc) ==
        IF CheckIn(q, {close, "EOF"}) \/ q.spin THEN Result(q, acc)
        ELSE LET r == Body(q)
                 s == IF r.t = NULL THEN acc ELSE Append(acc, r.t)
             IN IF r.p = q THEN Result([q EXCEPT !.spin = TRUE], s) ELSE Loop(r.p, s)
  IN Loop(p, <<>>)

(* parse_body_items: recover_in_body after a member that failed.           *)
parse_body_items(p, Member(_)) ==
  WhileOpen(p, "RBRACE", LAMBDA q : LET r == Member(q)
                                    IN IF r.t = NULL THEN Result(recover_in_body(r.p), NULL) ELSE r)

(* parse_depth_enter and the guard around a recursive entry point: the     *)
(* inner parser one level deeper, or Refused at the limit.                 *)
Guarded(p, Inner(_), Refused(_)) ==
  IF p.depth >= MaxParseDepth THEN Refused(error_at(p))
  ELSE LET r == Inner([p EXCEPT !.depth = @ + 1]) IN [r EXCEPT !.p.depth = @ - 1]

(* An identifier, or the error and NULL.                                   *)
Name(p) == IF Check(p, "IDENT") THEN Result(advance(p), <<Cur(p).v>>) ELSE Result(error_at(p), NULL)

(* The parser at the first token.                                          *)
InitParser(toks) ==
  advance([toks |-> <<Tok("BOF", "", 0)>> \o toks, cur |-> 1, prev |-> 1, panic |-> FALSE, err |-> FALSE,
           depth |-> 0, boundary |-> FALSE, inret |-> FALSE, spin |-> FALSE, lost |-> <<>>])
=============================================================================
