----------------------------- MODULE MCScanner -----------------------------
EXTENDS ScanText

T(k) == [k |-> k, ln |-> 0]
L(text, ts, wt) == [text |-> text, toks |-> ts, wt |-> wt]

\* Lexemes and their tokens; ln counts the line breaks inside the lexeme.
MCLexemes ==
    { L(<<"g">>, <<T("IDENTIFIER")>>, 3),
      L(<<"g", "!">>, <<T("IDENTIFIER")>>, 5),
      L(<<"g", "!", "=", "g">>, <<T("IDENTIFIER"), T("NEQ"), T("IDENTIFIER")>>, 5),
      L(<<"return">>, <<T("RETURN")>>, 5),
      L(<<"0", "x", "b", "1">>, <<T("INT_LIT")>>, 5),
      L(<<"7", ".", ".", "7">>, <<T("INT_LIT"), T("DOTDOT"), T("INT_LIT")>>, 5),
      L(<<"7", ".", "7", "e", "-", "0">>, <<T("FLOAT_LIT")>>, 5),
      L(<<"'", BS, "'", "'">>, <<T("CHAR_LIT")>>, 5),
      L(<<DQ, "#", "end", BS, DQ, DQ>>, <<T("STRING_LIT")>>, 3),
      L(<<DQ, NL, DQ>>, <<[k |-> "STRING_LIT", ln |-> 1]>>, 5),
      L(<<"r", DQ, BS, DQ>>, <<T("RAWSTRING_LIT")>>, 5),
      L(<<"r", "'", "'", "'", DQ, "'", NL, "'", "'", "'">>,
        <<[k |-> "RAWSTRING3_LIT", ln |-> 1]>>, 5),
      L(<<"/", "*", "#", "end", "/", "*", "*", "/", DQ, "*", "/">>, <<>>, 3),
      L(<<"/", "/", DQ, NL>>, <<>>, 5),
      L(<<"f", DQ, "g", LC, "g", ":", "7", RC, DQ>>,
        <<T("FSTRING_START"), T("FSTRING_TEXT"), T("LBRACE"), T("IDENTIFIER"),
          T("FSTRING_SPEC"), T("FSTRING_END")>>, 5),
      L(<<"f", DQ, LC, "g", LC, "g", ":", "7", RC, RC, "#", NL, DQ>>,
        <<T("FSTRING_START"), T("LBRACE"), T("IDENTIFIER"), T("LBRACE"),
          T("IDENTIFIER"), T("COLON"), T("INT_LIT"), T("RBRACE"), T("RBRACE"),
          [k |-> "FSTRING_TEXT", ln |-> 1], [k |-> "FSTRING_END", ln |-> 1]>>, 5),
      L(<<"@", "print", "(", ")">>, <<T("AT_PRINT"), T("LPAREN"), T("RPAREN")>>, 5),
      L(<<"@", "name">>, <<T("AT"), T("IDENTIFIER")>>, 5),
      L(<<".", ".", ".", "-", ">", "=", ">">>,
        <<T("ELLIPSIS"), T("ARROW"), T("FAT_ARROW")>>, 5) }

\* Openings and loose symbols.
MCFragments ==
    { <<DQ>>, <<BS>>, <<"'">>, <<"r", DQ>>, <<"r", "'", "'", "'">>,
      <<"/", "*">>, <<"*", "/">>, <<"#">>, <<"#", "else">>, <<"#", "name">>,
      <<"#", "if">>, <<LC>>, <<RC>>, <<":">>, <<"0", "x">>, <<"7", "e">>,
      <<NL>>, <<"@">>, <<"$">>, <<"x">> }

\* The same, with an f-string left open.
MCFragmentsF == MCFragments \cup {<<"f", DQ>>}
=============================================================================
