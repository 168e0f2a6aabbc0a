------------------------------ MODULE MCParser ------------------------------
(* Small expressions and one declaration of each kind for SourceText.      *)
EXTENDS SourceText

MCLeaves == {A, <<"id", "K", <<>>>>}
\* Finding: the member of a call whose argument is a cast.
MCCastLeaves == {<<"call", A, <<>>, <<<<"cast", A, IntType>>>>>>}
MCUpper == {"K", "S", "T", "E", "I"}
MCPlain == {"a", "m", "f", "g", "x", "y", "p", "S", "E", "I", "q", "deep"}

Body == <<"block", <<<<"return", A>>>>>>
ParamQ == <<"param", IntType, <<"q">>, NULL>>
Fn(name, tps, sig, wh, body) == <<"fn", name, tps, sig, wh, body>>
Sig0(self, ps, ret) == <<"sig", self, ps, ret>>
Bound == <<<<"I">>, <<"E">>>>

MCDecls ==
  { <<Fn(<<"f">>, <<>>, Sig0(0, <<ParamQ, <<"param", <<"ref", TRUE, Named("T")>>, <<"g">>, <<"int", "a">>>>>>, IntType),
         <<>>, Body), Stmt(A)>>,
    <<Fn(<<"f">>, <<<<"tparam", <<"T">>, Bound>>>>, Sig0(0, <<ParamQ>>, NULL), <<<<"where", <<"T">>, Bound>>>>, Body)>>,
    <<<<"struct", <<"S">>, <<<<"tparam", <<"T">>, <<>>>>>>,
        <<<<"sfield", TRUE, IntType, <<"f">>, <<"int", "a">>>>, <<"sfield", FALSE, <<"ARRAY", IntType, "4">>, <<"g">>, NULL>>>>,
        <<<<"I">>, <<"E">>>>>>>>,
    <<<<"enum", <<"E">>, <<<<"variant", <<"x">>, <<>>>>,
        <<"variant", <<"y">>, <<<<"payload", IntType, NULL>>, <<"payload", Named("T"), <<"q">>>>>>>>>>, <<>>>>>>,
    <<<<"trait", <<"I">>, <<<<"method", FALSE, Fn(<<"m">>, <<>>, Sig0(1, <<ParamQ>>, IntType), <<>>, NULL)>>>>>>>>,
    <<<<"impl", <<"">>, <<"S">>, <<<<"T">>>>,
        <<<<"method", TRUE, Fn(<<"f">>, <<>>, Sig0(0, <<>>, NULL), <<>>, Body)>>,
          <<"method", FALSE, Fn(<<"g">>, <<>>, Sig0(2, <<>>, NULL), <<>>, Body)>>>>>>>>,
    <<<<"impl", <<"I">>, <<"S">>, <<>>,
        <<<<"method", FALSE, Fn(<<"$op", "PLUS">>, <<>>, Sig0(1, <<ParamQ>>, NULL), <<>>, Body)>>,
          <<"method", FALSE, Fn(<<"__drop">>, <<>>, Sig0(2, <<>>, NULL), <<>>, Body)>>>>>>>>,
    <<<<"alias", <<"x">>, <<"blockty", <<IntType>>, <<"fnty", <<>>, NULL>>>>>>, <<"import", <<"x">>, <<"y">>>>,
      <<"import", <<"x">>, NULL>>>>,
    <<<<"ctif", A, Body, NULL>>, <<"ctfor", <<"x">>, "fields", Named("T"), Body>>>> }

Words == MCPlain \cup {"T", "K", "call", "sizeof", "move", "bits"}

File(w) == Append(Lines([i \in DOMAIN w |-> IF w[i] \in Words THEN Id(w[i]) ELSE T(w[i])]), Tok("EOF", "", 9))

MCFiles == { File(f) : f \in
  { <<"EXTERN", "LBRACE", "STRUCT", "S", "LBRACE", "INT", "f", "RBRACE", "FN", "f", "LPAREN", "INT", "q", "COMMA",
      "ELLIPSIS", "RPAREN", "ARROW", "INT", "FROM", "x", "RBRACE">>,
    <<"EXTERN", "STRUCT", "S", "LBRACE", "INT", "f", "SEMI", "RBRACE", "LIB", "x", "ASSIGN", "LOAD", "LPAREN",
      "STRING_LIT", "RPAREN", "NL", "MODULE", "x", "EXTERN", "FN", "f", "LPAREN", "RPAREN">>,
    <<"MATCH", "a", "LBRACE", "bits", "LBRACKET", "INT_LIT", "COLON", "x", "RBRACKET", "FAT_ARROW", "a", "COMMA",
      "UNDERSCORE", "FAT_ARROW", "LBRACKET", "move", "a", "RBRACKET", "PIPE", "p", "PIPE", "p", "RBRACE">>,
    <<"f", "LPAREN", "a", "RPAREN", "LBRACE", "PIPE", "p", "PIPE", "p", "NL", "a", "RBRACE", "NL", "x", "ASSIGN",
      "FN", "LPAREN", "INT", "q", "RPAREN", "ARROW", "INT", "LBRACE", "RETURN", "q", "RBRACE">>,
    <<"COMPTIME", "MATCH", "a", "LBRACE", "x", "LPAREN", "y", "RPAREN", "FAT_ARROW", "a", "RBRACE", "NL",
      "COMPTIME", "INT", "f", "ASSIGN", "COMPTIME", "LBRACE", "RETURN", "a", "RBRACE">>,
    <<"NEW", "S", "LBRACE", "f", "COLON", "a", "RBRACE", "NL", "AT_BENCH", "LPAREN", "INT_LIT", "RPAREN", "f", "NL",
      "x", "DOT", "call", "LPAREN", "COLON", "f", "COMMA", "a", "RPAREN">>,
    <<"OR", "a", "DOT", "LPAREN", "x", "RPAREN", "NL", "sizeof", "LPAREN", "S", "RPAREN", "NL", "IMPL", "I", "FOR",
      "S", "LBRACE", "RBRACE", "NL", "COMPTIME", "IF", "a", "LBRACE", "a", "RBRACE", "ELSE", "LBRACE", "RBRACE">>,
    <<"IMPORT", "x", "DOT", "y", "DOT", "deep", "DOT", "m", "AS", "g", "NL", "IMPORT", "deep", "DOT", "deep">>,
    <<"EXTERN", "FN", "f", "LPAREN", "INT", "q", "ASSIGN", "LBRACKET", "a", "COMMA", "x", "RBRACKET", "COMMA", "INT",
      "p", "ASSIGN", "MINUS", "INT_LIT", "RPAREN">> } }

MCEditKinds == {"IDENT", "COMMA", "LBRACE", "RBRACE", "RPAREN", "STAR", "FN", "MATCH", "INT"}
=============================================================================
