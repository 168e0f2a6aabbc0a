------------------------------ MODULE MCGenerics ------------------------------
(***************************************************************************)
(* The programs of the generics run.  Groups whose name starts with        *)
(* "defect" are the forms of the README's findings.                        *)
(***************************************************************************)
EXTENDS Generics

CONSTANT Groups

St(n, fs) == [k |-> "struct", n |-> n, fields |-> fs]
En(n, fs) == [k |-> "enum", n |-> n, fields |-> fs]
Tm(n, tp, fs) == [k |-> "template", n |-> n, tp |-> tp, fields |-> fs]
Im(n, tp, ms) == [k |-> "impl", n |-> n, tp |-> tp, methods |-> ms]
De(n, body) == [k |-> "destroy", n |-> n, body |-> body]
Fn(n, sig, body) == [k |-> "fn", n |-> n, sig |-> sig, body |-> body]
Gf(n, tp, sig, body) == [k |-> "gfn", n |-> n, tp |-> tp, sig |-> sig, body |-> body]
Me(n, sig, body) == [n |-> n, u |-> "", sig |-> sig, body |-> body]
Ml(n, u, sig, body) == [n |-> n, u |-> u, sig |-> sig, body |-> body]

U_(t) == [k |-> "use", t |-> t]
Call(t, m) == [k |-> "call", t |-> t, m |-> m]
MCall(t, m, u) == [k |-> "mcall", t |-> t, m |-> m, u |-> u]
GCall(f, u) == [k |-> "gcall", f |-> f, t |-> u]
Wrong_ == [k |-> "bad"]

-----------------------------------------------------------------------------
(* has_drop: a resource, an enum, structs and instances around it, in       *)
(* every order the source may declare them.                                 *)

Names(d) == IF d.k \in {"struct", "enum", "template"} THEN UNION {Range(e) : e \in Range(d.fields)}
            ELSE IF d.k = "fn" THEN UNION {Range(e) : e \in Range(d.sig)} ELSE {}
\* a type is named after it is declared; an enum may name itself
Ordered(p) == \A i, j \in DOMAIN p :
  p[j].k \in {"struct", "enum", "template"} /\ p[j].n \in Names(p[i])
    => j < i \/ (j = i /\ p[j].k = "enum")
Orders(ds) == {p \in {[i \in DOMAIN ds |-> ds[f[i]]] : f \in Permutations(DOMAIN ds)} : Ordered(p)}

Main(body) == Fn("main", <<>>, body)

Drops ==
  UNION {{p \o <<De("R", <<>>), Main(<<U_(<<"Option", "H", "W">>)>>)>> :
            p \in Orders(<<Tm("H", "T", <<h>>), St("R", <<<<"int">>>>), En("E", <<e>>), St("W", <<w>>)>>)} :
           h \in {<<"T">>, <<"ptr", "T">>, <<"Option", "T">>},
           e \in {<<"R">>, <<"Option", "R">>, <<"H", "E">>, <<"ptr", "R">>, <<"E">>},
           w \in {<<"E">>, <<"H", "E">>, <<"array", "R">>, <<"Option", "Option", "E">>}}

-----------------------------------------------------------------------------
(* Calls: two templates whose methods, destructor and method-level template *)
(* use one another, under equal and different parameter names.              *)

Bodies(p) == {<<>>, <<Call(<<"B", p>>, "g")>>, <<Call(<<"A", p>>, "f")>>,
              <<U_(<<"B", "A", "int">>), MCall(<<"A", "int">>, "m", <<p>>)>>}

Calls ==
  {<<Tm("A", "T", <<<<"T">>, <<"ptr", "B", "T">>>>), Tm("B", tp, <<<<tp>>>>),
     Im("B", tp, <<Me("g", <<<<tp>>>>, g)>>), De("B", d),
     Im("A", "T", <<Me("f", <<>>, f), Ml("m", "U", <<<<"A", "U">>>>, m), Me("mk", <<<<"B", "T">>>>, <<>>)>>),
     Main(<<Call(<<"A", "int">>, "f"), U_(<<"Option", "A", "int">>), MCall(<<"A", "A", "int">>, "m", <<"int">>)>>),
     Fn("other", <<>>, <<Call(<<"A", "B", "int">>, "mk"), Call(<<"A", "B", "int">>, "f")>>)>> :
     tp \in {"T", "V"}, g \in {<<>>, <<U_(<<"A", "int">>), Call(<<"A", "int">>, "f")>>},
     d \in {<<>>, <<Call(<<"A", "int">>, "f")>>},
     f \in Bodies("T"), m \in {<<>>, <<U_(<<"B", "U">>), Call(<<"A", "U">>, "f")>>, <<Call(<<"B", "T">>, "g")>>}}

-----------------------------------------------------------------------------
(* Generic functions, recursive and mutually recursive, called from two     *)
(* plain functions: each scope instantiates them again.                     *)

FnBodies == {<<>>, <<GCall("f", <<"T">>)>>, <<GCall("g", <<"T">>)>>, <<GCall("g", <<"int">>), U_(<<"T">>)>>,
             <<Call(<<"A", "T">>, "f")>>}

Functions_ ==
  {<<Tm("A", tp, <<<<tp>>>>), Im("A", tp, <<Me("f", <<>>, <<GCall("g", <<tp>>)>>)>>),
     Gf("f", "T", <<<<"A", "T">>>>, fb), Gf("g", "T", <<>>, gb),
     Main(<<GCall("f", <<"int">>), GCall("f", <<"int">>), GCall("g", <<"Option", "int">>)>>),
     Fn("other", <<<<"A", "int">>>>, <<GCall("f", <<"int">>), GCall("f", <<"A", "int">>)>>)>> :
     tp \in {"T", "V"}, fb \in FnBodies, gb \in FnBodies}

-----------------------------------------------------------------------------
(* Programs with something wrong in them: an ill-typed statement, a type    *)
(* that does not exist, a method that does not exist or whose signature     *)
(* cannot be resolved, a template that contains itself without end.         *)

Wrongs == {<<>>, <<Wrong_>>, <<U_(<<"Zed">>)>>, <<U_(<<"Zed", "int">>)>>, <<Call(<<"A", "int">>, "none")>>,
           <<Call(<<"A", "int">>, "lost")>>, <<MCall(<<"A", "int">>, "m", <<"Zed">>)>>,
           <<GCall("f", <<"Zed">>)>>, <<Call(<<"Zed">>, "f")>>, <<U_(<<"A", "ptr", "Zed">>)>>,
           <<GCall("f", <<"array", "Zed">>)>>}

Faults ==
  {<<Tm("A", "T", <<<<"T">>, af>>), Gf("f", "T", <<>>, <<>>),
     Im("A", "T", <<Me("f", <<>>, fb), Me("lost", <<<<"Zed">>>>, <<>>), Ml("m", "U", <<>>, <<>>)>>),
     De("A", db), Main(mb \o <<MCall(<<"A", "int">>, "m", <<"int">>)>>)>> :
     af \in {<<"int">>, <<"Zed">>, <<"array", "Zed">>, <<"ptr", "A", "A", "T">>}, fb \in Wrongs, db \in Wrongs,
     mb \in {<<>>, <<Call(<<"A", "int">>, "f")>>}}

\* an instance met before its methods, registered by the first call; a destructor without a block
Late == {<<Tm("A", "T", <<<<"T">>>>), St("H", <<<<"A", "int">>>>), Im("A", "T", <<Me("f", <<>>, <<>>)>>),
           De("A", <<>>), Main(<<Call(<<"A", "int">>, "f")>>)>>,
         <<Tm("A", "T", <<<<"T">>>>), De("A", <<>>), Im("A", "T", <<>>), Main(<<U_(<<"A", "int">>)>>)>>}

\* hooks checked with the instance, whatever is called on it
Hooks == {<<Tm("A", "T", <<<<"T">>>>), Tm("B", "T", <<<<"T">>>>),
            Im("B", "T", <<Me("g", <<<<"T">>>>, <<>>), Me("__clone", <<>>, <<Call(<<"B", "T">>, "g")>>)>>),
            Im("A", "T", <<Me(hook, <<<<"T">>>>, body)>>), Main(<<U_(<<"A", "int">>), U_(<<"B", "A", "int">>)>>)>> :
            hook \in {"__clone", "__from_list", "f"}, body \in {<<>>, <<Wrong_>>, <<Call(<<"B", "T">>, "g")>>}}

-----------------------------------------------------------------------------
A_ == Tm("A", "T", <<<<"T">>>>)
B_ == Tm("B", "T", <<<<"T">>>>)

Defects(g) ==
  CASE g = "defect_array" ->
         {<<St("R", <<<<"int">>>>), En("E", <<<<"R">>>>), St("W", <<<<"array", "E">>>>), De("R", <<>>), Main(<<>>)>>}
    [] g = "defect_late_methods" ->
         {<<A_, St("H", <<<<"A", "int">>>>), Im("A", "T", <<Me("f", <<>>, <<>>)>>), De("A", <<>>),
            Main(<<U_(<<"A", "int">>)>>)>>}
    [] g = "defect_silent" ->
         {<<A_, B_, Im("B", "T", <<Me("g", <<>>, <<>>)>>), De("B", <<Wrong_>>),
            Im("A", "T", <<Me("mk", <<<<"B", "T">>>>, <<>>)>>), Main(<<U_(<<"A", "int">>)>>)>>}
    [] g = "defect_signature" ->
         {<<A_, Im("A", "T", <<Me("f", <<<<"ptr", "Zed">>>>, <<>>)>>), Main(<<Call(<<"A", "int">>, "f")>>)>>}
    [] g = "defect_conflict" ->
         {<<A_, B_, Im("B", "T", <<Me("g", <<>>, <<>>)>>), De("B", <<Call(<<"A", "T">>, "f")>>),
            Im("A", "T", <<Me("mk", <<<<"B", "T">>>>, <<>>), Me("f", <<>>, <<>>)>>), Main(<<U_(<<"A", "int">>)>>)>>}
    [] g = "defect_alias" ->
         {<<A_, B_, Im("A", "T", <<Me("f", <<>>, <<U_(<<"U">>)>>)>>),
            Im("B", "T", <<Ml("m", "U", <<>>, <<Call(<<"A", "T">>, "f")>>)>>),
            Main(<<MCall(<<"B", "int">>, "m", <<"int">>)>>)>>}
    [] g = "defect_block_name" ->
         {<<A_, Im("A", "W", <<Me("f", <<<<"W">>>>, <<U_(<<"W">>)>>)>>), Main(<<Call(<<"A", "int">>, "f")>>)>>}
    [] g = "defect_method_recursion" ->
         {<<A_, Im("A", "T", <<Me("f", <<>>, <<Call(<<"A", "A", "T">>, "f")>>)>>), Main(<<Call(<<"A", "int">>, "f")>>)>>}
    [] g = "defect_template_recursion" ->
         {<<A_, Im("A", "T", <<Ml("m", "U", <<>>, <<MCall(<<"A", "T">>, "m", <<"U">>)>>)>>),
            Main(<<MCall(<<"A", "int">>, "m", <<"int">>)>>)>>}
    [] g = "defect_function_recursion" ->
         {<<A_, Gf("f", "T", <<>>, <<GCall("f", <<"A", "T">>)>>), Main(<<GCall("f", <<"int">>)>>)>>}
    [] OTHER -> {}

Group(g) ==
  CASE g = "drops" -> Drops
    [] g = "calls" -> Calls
    [] g = "functions" -> Functions_
    [] g = "faults" -> Faults \cup Late \cup Hooks
    [] OTHER -> Defects(g)

MCPrograms == UNION {Group(g) : g \in Groups}
=============================================================================
