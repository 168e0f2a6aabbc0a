------------------------------ MODULE MCMatch -------------------------------
(***************************************************************************)
(* The functions and matches of the match run: a match, try or unwrap in each position *)
(* a statement can use it, with every pair of arm bodies.  Groups whose    *)
(* name starts with "defect" are the forms of the README's findings.  A    *)
(* behaviour either runs one function or selects an arm of one match.      *)
(***************************************************************************)
EXTENDS MatchRun, MatchSel

CONSTANT Groups

Pod == [k |-> "pod"]
None == [k |-> "none"]
Lit == [k |-> "lit"]
V(x) == [k |-> "var", x |-> x]
Call(ty, args) == [k |-> "call", ty |-> ty, args |-> args]
Mk == Call("owned", <<>>)
MkE == Call("enum", <<>>)
MkEwith == Call("enum", <<Mk>>)
Ctor(v, e) == [k |-> "ctor", v |-> v, arg |-> e]
Try(e) == [k |-> "try", e |-> e]
Unwrap(e) == [k |-> "unwrap", e |-> e]
Blk(ss, t) == [k |-> "block", stmts |-> ss, tail |-> t]
St(s) == [k |-> "stmt", s |-> s]
Do(e) == [s |-> "expr", e |-> e]
Decl(x, e) == [s |-> "decl", x |-> x, e |-> e]
Ret(e) == [s |-> "ret", e |-> e]
If(t, e) == [s |-> "if", c |-> Pod, t |-> t, e |-> e]
IfUse(t, e) == [s |-> "if", c |-> Call("pod", <<Mk>>), t |-> t, e |-> e]
While(b) == [s |-> "while", c |-> Pod, b |-> b]
WhileUse(b) == [s |-> "while", c |-> Call("pod", <<Mk>>), b |-> b]
Break == [s |-> "break"]
Continue == [s |-> "continue"]
Seq_(ss) == [s |-> "block", b |-> ss]
Skip == Seq_(<<>>)
Arm(v, b, e) == [v |-> v, bind |-> b, body |-> e]
Match(ty, e, arms) == [k |-> "match", ty |-> ty, subj |-> e, arms |-> arms]

Show(e) == Do(Call("pod", <<e>>))
Done == Blk(<<If(Skip, Skip)>>, None)         \* yields nothing

-----------------------------------------------------------------------------
(* Bodies of an arm that binds b, in a function with an owned local o. *)

Plain ==
    {V("b"), V("o"), Lit, Mk, Call("owned", <<V("b")>>), Unwrap(MkE), Try(MkE),
     Blk(<<Decl("y", Mk)>>, V("y")), Blk(<<Show(V("b"))>>, V("b")),
     Blk(<<Show(Mk), Decl("y", V("b"))>>, V("y")), Blk(<<Do(MkE)>>, V("o"))}

Escapes ==
    {Blk(<<If(Ret(Ctor(1, V("b"))), Skip)>>, Mk), Blk(<<If(Ret(Ctor(2, V("o"))), Skip)>>, V("b")),
     Blk(<<If(Ret(Ctor(1, Mk)), Skip)>>, V("b")),
     Blk(<<If(Skip, Seq_(<<Decl("y", Mk), Ret(Ctor(1, V("y")))>>)), Show(Mk)>>, V("b")),
     Blk(<<IfUse(Ret(MkE), Ret(MkEwith))>>, Mk),
     Blk(<<Decl("y", Try(MkE)), Do(Try(MkEwith))>>, V("y")),
     Blk(<<While(Seq_(<<Decl("y", Mk), If(Break, Continue)>>))>>, V("b")),
     Blk(<<WhileUse(Seq_(<<Do(Match("void", MkE, <<Arm(1, "c", St(Break)), Arm(2, "_", St(Continue))>>))>>))>>, V("o"))}

Nested ==
    {Match("owned", MkE, <<Arm(1, "c", V("c")), Arm(2, "c", V("b"))>>),
     Match("owned", Ctor(1, V("b")), <<Arm(1, "c", V("c")), Arm(0, "_", Blk(<<If(Ret(MkE), Skip)>>, V("o")))>>),
     Blk(<<Decl("y", Match("owned", MkEwith, <<Arm(2, "c", Try(MkE)), Arm(0, "_", V("o"))>>))>>, V("y"))}

Bodies == Plain \union Escapes \union Nested

Subjects == {MkE, MkEwith, V("r"), Ctor(2, Mk)}

(* The statements a match of owned result can stand in. *)
Using(m) ==
    {<<Decl("x", m), Show(V("x")), Ret(Ctor(1, V("x")))>>,
     <<Do(m), Ret(MkE)>>, <<Ret(Ctor(2, m))>>, <<Show(m), Ret(V("r"))>>}

Fn(ss) == <<Decl("o", Mk), Decl("r", MkE)>> \o ss

Two(e, f, g) == Match("owned", e, <<Arm(1, "b", f), Arm(2, "b", g)>>)

Pairs ==
    UNION {Using(Two(e, f, g)) : e \in Subjects, f \in Bodies, g \in {V("b"), Mk}}
    \union UNION {Using(Two(MkE, f, g)) : f \in Bodies, g \in Escapes}

Wild ==
    UNION {Using(Match("owned", e, <<Arm(2, "b", f), Arm(0, "_", g)>>))
           : e \in Subjects, f \in Bodies,
             g \in {V("o"), Mk, Blk(<<Decl("z", Mk)>>, V("z")), Blk(<<IfUse(Ret(MkE), Skip)>>, Lit)}}

(* A match for its effects, whose arms may return, on its own or in a loop *)
(* that they leave or repeat. *)
Effects ==
    {Blk(<<>>, Call("pod", <<V("b")>>)), Blk(<<Ret(Ctor(1, V("b")))>>, None),
     Blk(<<Decl("y", Mk), Ret(Ctor(2, V("y")))>>, None), Blk(<<Do(Try(MkE)), If(Skip, Skip)>>, None),
     Blk(<<Decl("y", V("b")), IfUse(Ret(MkE), Skip)>>, None)}

Voids ==
    Effects \union
    {Blk(<<Break>>, None), Blk(<<Continue>>, None), Blk(<<If(Break, Show(V("b")))>>, None),
     Blk(<<Decl("y", V("b")), If(Ret(MkE), Continue)>>, None)}

Statements ==
    {<<Do(Match("void", e, <<Arm(1, "b", f), Arm(2, "b", g)>>)), Show(Mk), Ret(V("r"))>>
     : e \in Subjects, f \in Effects, g \in Effects}

Loops ==
    {<<While(Seq_(<<Decl("w", Mk), Do(Match("void", e, <<Arm(1, "b", f), Arm(2, "b", g)>>)), Show(Mk)>>)),
       Ret(Ctor(1, V("o")))>>
     : e \in {MkE, MkEwith}, f \in Voids, g \in Voids}

Unwraps ==
    {<<Decl("x", Unwrap(V("r"))), Ret(Ctor(1, V("x")))>>,
     <<Decl("x", Try(MkEwith)), Show(Try(Ctor(2, V("x")))), Ret(MkE)>>,
     <<Decl("q", V("r")), Decl("x", Unwrap(V("q"))), Show(V("x")), Do(Try(MkE)), Ret(MkE)>>,
     <<Show(Unwrap(MkEwith)), Ret(V("r"))>>}

-----------------------------------------------------------------------------
(* `try' of a named variable: nothing marks the variable moved. *)
TryNamed == {<<Decl("x", Try(V("r"))), Ret(MkE)>>}

(* An arm whose tail borrows a temporary: the temporary is taken for the   *)
(* result. *)
TailTemp == {<<Decl("x", Two(MkE, Call("owned", <<Mk>>), V("b"))), Ret(MkE)>>}

(* A return inside a loop of an arm, then another way out of the arm. *)
LoopReturn ==
    {<<Do(Match("void", MkE, <<Arm(1, "_", Blk(<<While(Ret(MkE)), Ret(MkE)>>, None)),
                                 Arm(2, "_", Done)>>)), Ret(MkE)>>}

-----------------------------------------------------------------------------
(* Matches whose arms are selected: up to three arms of a type's patterns. *)

MCEnum == <<[x |-> "A", n |-> 0], [x |-> "B", n |-> 1], [x |-> "C", n |-> 2]>>

Wild_ == [p |-> "wild"]
Lit_(p, v) == [p |-> p, v |-> v]
Name_(t, v) == [p |-> "name", t |-> t, v |-> v]
Or_(l, r) == [p |-> "or", l |-> l, r |-> r]
Var_(x, bs) == [p |-> "variant", x |-> x, bs |-> bs]
Bits_(items) == [p |-> "bits", items |-> items]
Arms_(ps, ty) == [i \in DOMAIN ps |-> [pat |-> ps[i], ty |-> ty]]

Distinct(S, n) == {ps \in [1 .. n -> S] : \A i, j \in 1 .. n : ps[i] = ps[j] => i = j}
OneToThree(S) == Distinct(S, 1) \union Distinct(S, 2) \union Distinct(S, 3)

(* With and without a wildcard arm at the end, with and without a value. *)
Ended(t, P) ==
    UNION {{[t |-> t, arms |-> Arms_(ps, ty)], [t |-> t, arms |-> Arms_(Append(ps, Wild_), ty)]}
           : ps \in P, ty \in {"void", "Str"}}

EnumPats ==
    {Var_("A", <<>>), Var_("B", <<"x">>), Var_("C", <<"x", "y">>), Var_("C", <<"_", "y">>),
     Var_("B", <<>>), Var_("D", <<>>), Or_(Var_("A", <<>>), Var_("A", <<>>))}

OnePerVariant(ps) == \A i, j \in DOMAIN ps : i # j /\ ps[i].p = "variant" /\ ps[j].p = "variant"
                                               => ps[i].x # ps[j].x

EnumMatches == Ended("enum", {ps \in OneToThree(EnumPats) : OnePerVariant(ps)})

(* Literals that fit the subject, each used once. *)
High(t) == 2^(N!type_int_bits(t) - 1) - 1
IntPats(t) ==
    LET lit == IF t = "char" THEN "char" ELSE "int"
    IN {Lit_(lit, 0), Lit_(lit, High(t)), Or_(Lit_(lit, 1), Lit_(lit, 2))}
       \union IF t = "i8" THEN {} ELSE {Or_(Or_(Lit_(lit, 4), Lit_(lit, 5)), Lit_(lit, 6))}
IntMatches ==
    UNION {Ended(t, OneToThree(IntPats(t))) : t \in {"i8", "u8", "int", "u32", "i64", "char"}}

(* Patterns that are not literals, of the subject's own width. *)
ChainMatches ==
    Ended("int", OneToThree({Lit_("neg", -1), Lit_("int", 0), Name_("int", 0), Name_("u32", 5),
                             Or_(Lit_("neg", -2), Name_("int", 3)), Lit_("bool", 1)}))
    \union Ended("u8", OneToThree({Name_("u8", 0), Name_("i8", 1), Or_(Name_("u8", 2), Name_("u8", 0))}))
    \union Ended("i64", OneToThree({Name_("i64", -1), Name_("i64", 2)}))
    \union Ended("bool", OneToThree({Lit_("bool", 0), Lit_("bool", 1), Name_("bool", 1), Or_(Lit_("bool", 0), Lit_("bool", 1))}))
    \union Ended("f64", OneToThree({Lit_("flt", 0), Lit_("flt", 2), Name_("f64", 0), Lit_("bool", 0)}))

(* Bit fields: every way to cut three bits, and cuts of the wide types on  *)
(* both sides of the width at which a binder becomes an i64. *)
Item(w, val, x) == [w |-> w, val |-> val, x |-> x]
Items(w, x) == {Item(w, -1, ""), Item(w, -1, x), Item(w, 0, ""), Item(w, 2^w - 1, "")}
Cut(ws) ==
    CASE Len(ws) = 1 -> {<<a>> : a \in Items(ws[1], "p")}
      [] Len(ws) = 2 -> {<<a, b>> : a \in Items(ws[1], "p"), b \in Items(ws[2], "q")}
      [] OTHER -> {<<a, b, c>> : a \in Items(ws[1], "p"), b \in Items(ws[2], "q"), c \in Items(ws[3], "r")}
Cuts(S) == {Bits_(items) : items \in UNION {Cut(ws) : ws \in S}}

BitMatches ==
    LET narrow == Cuts({<<1, 1, 1>>, <<1, 2>>, <<2, 1>>, <<3>>})
        bad == {Bits_(<<Item(2, -1, "p")>>), Bits_(<<Item(3, 8, "")>>), Bits_(<<Item(0, -1, ""), Item(3, -1, "p")>>),
                Lit_("int", 0), Or_(Bits_(<<Item(3, 0, "")>>), Lit_("int", 1))}
        void(S) == {[t |-> t, arms |-> Arms_(ps, "void")] : t \in {"u8", "i8"}, ps \in S}
    IN void({<<x, y>> : x \in narrow, y \in Cuts({<<1, 2>>, <<3>>}) \union bad})
       \union void({<<Or_(x, y), Wild_>> : x \in Cuts({<<2, 1>>}), y \in Cuts({<<1, 2>>})})
       \union {[t |-> t, arms |-> Arms_(<<x, Wild_>>, "Str")] :
                 t \in {"int", "u32"}, x \in Cuts({<<Bits32>>, <<1, Bits32 - 1>>, <<3, Bits32 - 4, 1>>})}
       \union {[t |-> t, arms |-> Arms_(<<x, Wild_>>, "Str")] :
                 t \in {"i64", "u64", "char", "f64"}, x \in Cuts({<<1, Bits64 - 1>>, <<Bits32, Bits64 - Bits32>>, <<Bits64 - Bits32, Bits32>>})}

-----------------------------------------------------------------------------
(* Accepted matches that do not do what their arms say. *)
DefectMatches(g) ==
    CASE g = "defect_duplicate" -> {[t |-> "u8", arms |-> Arms_(<<Lit_("int", 0), Lit_("int", 0), Wild_>>, "void")]}
      [] g = "defect_wild_first" -> {[t |-> "enum", arms |-> Arms_(<<Wild_, Var_("A", <<>>)>>, "void")]}
      [] g = "defect_two_wild" -> {[t |-> "int", arms |-> Arms_(<<Wild_, Wild_>>, "void")]}
      [] g = "defect_or_wild" -> {[t |-> "int", arms |-> Arms_(<<Or_(Lit_("int", 1), Wild_)>>, "Str")]}
      [] g = "defect_truncated" -> {[t |-> "u8", arms |-> Arms_(<<Lit_("int", 8), Wild_>>, "void")]}
      [] g = "defect_chain_width" -> {[t |-> "i64", arms |-> Arms_(<<Lit_("neg", -1), Wild_>>, "void")]}
      [] g = "defect_bits_value" -> {[t |-> "u8", arms |-> Arms_(<<Bits_(<<Item(3, 1, "")>>)>>, "Str")]}
      [] g = "defect_bits_sign" -> {[t |-> "u64", arms |-> Arms_(<<Bits_(<<Item(Bits64, -1, "p")>>)>>, "void")]}
      [] OTHER -> {}

MatchGroup(g) ==
    CASE g = "enum_arms" -> EnumMatches
      [] g = "int_arms" -> IntMatches
      [] g = "chain_arms" -> ChainMatches
      [] g = "bit_arms" -> BitMatches
      [] OTHER -> DefectMatches(g)

MCMatches == UNION {MatchGroup(g) : g \in Groups}

-----------------------------------------------------------------------------
Group(g) ==
    CASE g = "pairs" -> Pairs
      [] g = "wild" -> Wild
      [] g = "statements" -> Statements
      [] g = "loops" -> Loops
      [] g = "unwraps" -> Unwraps
      [] g = "defect_try_named" -> TryNamed
      [] g = "defect_tail_temp" -> TailTemp
      [] g = "defect_loop_return" -> LoopReturn
      [] OTHER -> {}

MCFunctions == {Fn(ss) : ss \in UNION {Group(g) : g \in Groups}}

Off == [ph |-> "off"]

Init ==
    \/ MatchInit /\ sel = Off
    \/ /\ SelInit
       /\ fn = <<>> /\ k = <<>> /\ reg = <<>> /\ set = {} /\ heap = <<>>
       /\ iters = 0 /\ fault = {} /\ result = -1

Next == (MatchNext /\ UNCHANGED sel) \/ (SelNext /\ UNCHANGED vars)

Spec == Init /\ [][Next]_<<vars, sel>>
=============================================================================
