------------------------------ MODULE MatchSel ------------------------------
(***************************************************************************)
(* Which arm of a match runs: the checks of check_expr_match and the four  *)
(* lowerings of codegen_match.c (switch on a discriminant, switch on an    *)
(* integer, chain of comparisons, chain of bit-field tests), against the   *)
(* meaning a match has for its reader: the first arm whose pattern fits.   *)
(*                                                                         *)
(* A match is [t, arms]: the subject's type ("enum" or a scalar type) and  *)
(* arms [pat, ty], ty the type of the body.  A pattern is [p, ..]: "wild", *)
(* "variant" (x, bs), "int", "neg", "char", "bool", "flt" (v), "name" (a   *)
(* variable of type t holding v), "bits" (items [w, val, x]; val = -1 and  *)
(* x = "" when absent) or "or" (l, r).                                     *)
(***************************************************************************)
EXTENDS Integers, Sequences, SequencesExt

CONSTANTS
    Bits8, Bits16, Bits32, Bits64, Mant32, Mant64,
    Enum,      \* the enum's variants: a sequence of [x, n], n payloads
    OrCap,     \* alternatives of one pattern the walks hold: 64 in the code
    Matches    \* the matches to compile

ASSUME MatchSelAssumption == OrCap \in Nat

N == INSTANCE NumCheck

VARIABLE sel   \* [ph, m, code, arm, binds]: one match on its way through

-----------------------------------------------------------------------------
(* Alternatives *)

RECURSIVE Walk(_, _, _)
Walk(stk, out, max) ==
    IF stk = <<>> \/ Len(out) >= max THEN out
    ELSE LET cur == Last(stk) rest == Front(stk)
         IN IF cur.p # "or" THEN Walk(rest, Append(out, cur), max)
            ELSE IF Len(rest) + 2 <= OrCap THEN Walk(rest \o <<cur.r, cur.l>>, out, max)
            ELSE Walk(rest, out, max)

Leaves(pat) == Walk(<<pat>>, <<>>, OrCap)

(* The checker's walk of a scalar pattern only bounds its stack. *)
CheckedLeaves(pat) == Walk(<<pat>>, <<>>, 2 * OrCap)

RECURSIVE match_pattern_all_int_const(_)
match_pattern_all_int_const(pat) ==
    IF pat.p = "or" THEN match_pattern_all_int_const(pat.l) /\ match_pattern_all_int_const(pat.r)
    ELSE pat.p \in {"int", "char"}

RECURSIVE CollectInts(_, _)
CollectInts(pat, max) ==
    CASE max <= 0 -> <<>>
      [] max > 0 /\ pat.p = "or" ->
            LET l == CollectInts(pat.l, max) IN l \o CollectInts(pat.r, max - Len(l))
      [] OTHER -> <<pat.v>>

match_collect_int_vals(pat) == CollectInts(pat, OrCap)

RECURSIVE pattern_has_bit_seq(_)
pattern_has_bit_seq(pat) ==
    \/ pat.p = "bits"
    \/ pat.p = "or" /\ (pattern_has_bit_seq(pat.l) \/ pattern_has_bit_seq(pat.r))

HasBits(m) == \E i \in DOMAIN m.arms : pattern_has_bit_seq(m.arms[i].pat)

-----------------------------------------------------------------------------
(* The checker *)

Variant(x) == SelectInSeq(Enum, LAMBDA v : v.x = x)

enum_pattern_ok(pat) ==
    \/ pat.p = "wild"
    \/ pat.p = "variant" /\ Variant(pat.x) # 0 /\ Enum[Variant(pat.x)].n = Len(pat.bs)

enum_exhaustive(m) ==
    \/ \E i \in DOMAIN m.arms : m.arms[i].pat.p = "wild"
    \/ \A v \in DOMAIN Enum : \E i \in DOMAIN m.arms :
         m.arms[i].pat.p = "variant" /\ m.arms[i].pat.x = Enum[v].x

check_enum(m) ==
    enum_exhaustive(m) /\ \A i \in DOMAIN m.arms : enum_pattern_ok(m.arms[i].pat)

bit_pattern_type_bits(t) ==
    IF t = "enum" \/ t = "char" \/ ~N!type_is_integer(t) THEN 0 ELSE N!type_int_bits(t)

Total(items) == FoldLeft(LAMBDA a, it : a + it.w, 0, items)

check_bit_pattern_seq(items, bits) ==
    /\ \A i \in DOMAIN items : items[i].w \in 1 .. Bits64 /\ items[i].val < 2^items[i].w
    /\ Total(items) = bits

lsb_shift_lsb_first(items, i) == Total(SubSeq(items, 1, i - 1))

(* The shift the checker leaves in a field: the first field is on top. *)
lsb_shift(items, i) == Total(items) - Total(SubSeq(items, 1, i))

binder_type(w) == IF w = 1 THEN "bool" ELSE IF w < Bits32 THEN "int" ELSE "i64"

check_bits(m) ==
    /\ bit_pattern_type_bits(m.t) # 0
    /\ \A i \in DOMAIN m.arms :
         m.arms[i].pat.p # "wild" =>
           \A x \in Range(Leaves(m.arms[i].pat)) :
             x.p = "bits" /\ check_bit_pattern_seq(x.items, bit_pattern_type_bits(m.t))

leaf_type(x) ==
    CASE x.p \in {"int", "neg"} -> N!literal_type(x.v)
      [] x.p \in {"char", "bool"} -> x.p
      [] x.p = "flt" -> "f64"
      [] x.p = "name" -> x.t
      [] OTHER -> "none"

scalar_pattern_ok(x, t) ==
    \/ x.p = "wild"
    \/ leaf_type(x) # "none" /\ (leaf_type(x) = t \/ N!type_numeric_common(leaf_type(x), t) # "none")

check_scalar(m) ==
    LET all == UNION {Range(CheckedLeaves(m.arms[i].pat)) : i \in DOMAIN m.arms}
        saw == {x.v : x \in {y \in all : y.p = "bool"}}
    IN /\ N!type_is_numeric(m.t) \/ m.t = "bool"
       /\ \A x \in all : scalar_pattern_ok(x, m.t)
       /\ \/ m.arms = <<>> \/ m.arms[1].ty = "void"
          \/ \E x \in all : x.p = "wild"
          \/ m.t = "bool" /\ saw = {0, 1}

check_expr_match(m) ==
    /\ \A i, j \in DOMAIN m.arms : m.arms[i].ty = m.arms[j].ty
    /\ CASE m.t = "enum" -> check_enum(m)
         [] m.t # "enum" /\ HasBits(m) -> check_bits(m)
         [] OTHER -> check_scalar(m)

-----------------------------------------------------------------------------
(* The lowerings.  Code is [k, ...]; `ill' when the module would not pass  *)
(* LLVM's verifier: two equal cases, operands of different types, or       *)
(* instructions behind a terminator. *)

Width(t) == N!type_to_llvm(t)[2]

Wilds(m) == {i \in DOMAIN m.arms : m.arms[i].pat.p = "wild"}

Default(m, none) == IF Wilds(m) = {} THEN none ELSE CHOOSE i \in Wilds(m) : TRUE

Switch(cases, m, none) ==
    [k |-> "switch", cases |-> cases, def |-> Default(m, none),
     ill |-> \/ \E i, j \in Wilds(m) : i # j
             \/ \E i, j \in DOMAIN cases : i # j /\ cases[i].v = cases[j].v]

(* The cases of every arm but the wildcard, in the order of the arms. *)
Cases(m, vals(_)) ==
    FlattenSeq([i \in DOMAIN m.arms |->
        IF m.arms[i].pat.p = "wild" THEN <<>>
        ELSE [j \in DOMAIN vals(m.arms[i].pat) |-> [v |-> vals(m.arms[i].pat)[j], arm |-> i]]])

enum_switch(m) ==
    LET variant(pat) == <<Variant(pat.x)>> IN Switch(Cases(m, variant), m, -1)

int_switch(m) ==
    LET words(pat) == [j \in DOMAIN match_collect_int_vals(pat) |->
                         match_collect_int_vals(pat)[j] % 2^Width(m.t)]
    IN Switch(Cases(m, words), m, 0)

(* One test per arm; a wildcard arm ends the block the next would go in. *)
Chain(m, ill) ==
    [k |-> IF HasBits(m) THEN "bits" ELSE "chain",
     tests |-> [i \in DOMAIN m.arms |-> Leaves(m.arms[i].pat)],
     ill |-> ill \/ \E i \in Wilds(m) : i < Len(m.arms)]

leaf_llvm(x) ==
    CASE x.p \in {"int", "neg"} -> <<"i", IF leaf_type(x) = "i64" THEN Bits64 ELSE Bits32>>
      [] x.p = "wild" -> <<"none", 0>>
      [] OTHER -> N!type_to_llvm(leaf_type(x))

cond_chain(m) ==
    Chain(m, \E i \in DOMAIN m.arms : m.arms[i].pat.p # "wild" /\
               \E x \in Range(Leaves(m.arms[i].pat)) :
                 x.p # "wild" /\ leaf_llvm(x) # N!type_to_llvm(m.t))

bit_chain(m) == Chain(m, FALSE)

codegen_match_expr_impl(m) ==
    CASE m.t = "enum" -> enum_switch(m)
      [] m.t # "enum" /\ HasBits(m) -> bit_chain(m)
      [] m.t # "enum" /\ ~HasBits(m) /\ ~N!type_is_float(m.t)
         /\ (\A i \in DOMAIN m.arms \ Wilds(m) : match_pattern_all_int_const(m.arms[i].pat)) ->
            int_switch(m)
      [] OTHER -> cond_chain(m)

-----------------------------------------------------------------------------
(* The code at work on a subject.  A scalar subject is its value; an enum  *)
(* subject is the index of its variant. *)

Word(t, v) == IF N!type_is_float(t) THEN v ELSE v % 2^Width(t)

Field(items, i, word) == (word \div 2^lsb_shift(items, i)) % 2^items[i].w

bit_cond(items, word) ==
    \A i \in DOMAIN items : items[i].val >= 0 => Field(items, i, word) = items[i].val

Fits(x, t, word) ==
    IF x.p = "bits" THEN bit_cond(x.items, word) ELSE x.p # "wild" /\ Word(t, x.v) = word

TestFits(code, i, pat, t, word) ==
    pat.p = "wild" \/ \E x \in Range(code.tests[i]) : Fits(x, t, word)

RunArm(m, code, v) ==
    IF code.k = "switch"
    THEN LET at == SelectInSeq(code.cases, LAMBDA c : c.v = IF m.t = "enum" THEN v ELSE Word(m.t, v))
         IN IF at = 0 THEN code.def ELSE code.cases[at].arm
    ELSE SelectInSeq([i \in DOMAIN m.arms |-> TestFits(code, i, m.arms[i].pat, m.t, Word(m.t, v))],
                     LAMBDA b : b)

(* The binders come from the first alternative: the masked field, resized  *)
(* to the binder's type and read back with that type's sign. *)
cg_emit_bit_pattern_seq(items, t, word) ==
    LET named == {i \in DOMAIN items : items[i].x # ""}
        read(i) == LET bt == binder_type(items[i].w)
                       f == Field(items, i, word)
                   IN IF bt = "bool" THEN f ELSE N!AsSigned(f % 2^Width(bt), Width(bt))
    IN {<<items[i].x, read(i)>> : i \in named}

RunBinds(m, code, arm, v) ==
    IF arm <= 0 THEN {}
    ELSE LET pat == m.arms[arm].pat
         IN CASE pat.p = "variant" -> {<<pat.bs[b], <<v, b>>>> : b \in {c \in DOMAIN pat.bs : pat.bs[c] # "_"}}
              [] pattern_has_bit_seq(pat) ->
                   cg_emit_bit_pattern_seq(code.tests[arm][1].items, m.t, Word(m.t, v))
              [] OTHER -> {}

-----------------------------------------------------------------------------
(* What a match means *)

(* The bits of a word, from the most significant one down, and the number  *)
(* that a run of them spells. *)
BitsOf(word, w) == [i \in 1 .. w |-> (word \div 2^(w - i)) % 2]
Number(bits) == FoldLeft(LAMBDA a, b : 2 * a + b, 0, bits)
Slice(m, items, i, v) ==
    LET w == bit_pattern_type_bits(m.t)
        from == Total(SubSeq(items, 1, i - 1)) + 1
    IN Number(SubSeq(BitsOf(v % 2^w, w), from, from + items[i].w - 1))

RECURSIVE Means(_, _, _)
Means(m, pat, v) ==
    CASE pat.p = "wild" -> TRUE
      [] pat.p = "or" -> Means(m, pat.l, v) \/ Means(m, pat.r, v)
      [] pat.p = "variant" -> Enum[v].x = pat.x
      [] pat.p = "bits" -> \A i \in DOMAIN pat.items :
                             pat.items[i].val >= 0 => Slice(m, pat.items, i, v) = pat.items[i].val
      [] OTHER -> pat.v = v

RefArm(m, v) == SelectInSeq(m.arms, LAMBDA a : Means(m, a.pat, v))

RECURSIVE FirstSeq(_)
FirstSeq(pat) == IF pat.p = "or" THEN FirstSeq(pat.l) ELSE pat

RefBinds(m, v) ==
    IF RefArm(m, v) = 0 THEN {}
    ELSE LET pat == FirstSeq(m.arms[RefArm(m, v)].pat)
         IN CASE pat.p = "variant" -> {<<pat.bs[b], <<v, b>>>> : b \in {c \in DOMAIN pat.bs : pat.bs[c] # "_"}}
              [] pat.p = "bits" -> {<<pat.items[i].x, Slice(m, pat.items, i, v)>> :
                                      i \in {j \in DOMAIN pat.items : pat.items[j].x # ""}}
              [] OTHER -> {}

Values(t) ==
    CASE t = "enum" -> DOMAIN Enum
      [] t = "bool" -> {0, 1}
      [] t = "char" -> 0 .. 2^Bits8 - 1
      [] N!type_is_float(t) -> 0 .. 4
      [] N!type_is_signed(t) -> -(2^(N!type_int_bits(t) - 1)) .. 2^(N!type_int_bits(t) - 1) - 1
      [] OTHER -> 0 .. 2^N!type_int_bits(t) - 1

-----------------------------------------------------------------------------
NoCode == [k |-> "none"]

SelInit == \E m \in Matches : sel = [ph |-> "parsed", m |-> m, code |-> NoCode, arm |-> 0, v |-> 0, binds |-> {}]

CheckMatch ==
    /\ sel.ph = "parsed"
    /\ sel' = [sel EXCEPT !.ph = IF check_expr_match(sel.m) THEN "checked" ELSE "rejected"]

LowerMatch ==
    /\ sel.ph = "checked"
    /\ sel' = [sel EXCEPT !.ph = "lowered", !.code = codegen_match_expr_impl(sel.m)]

RunMatch ==
    /\ sel.ph = "lowered" /\ ~sel.code.ill
    /\ \E v \in Values(sel.m.t) :
         LET arm == RunArm(sel.m, sel.code, v)
         IN sel' = [sel EXCEPT !.ph = "ran", !.v = v, !.arm = arm,
                               !.binds = RunBinds(sel.m, sel.code, arm, v)]

SelNext == CheckMatch \/ LowerMatch \/ RunMatch

(* A match the checker accepts compiles, and runs for every subject the    *)
(* first arm that fits it, with each binder holding exactly its bits or    *)
(* payload; a match with a value never falls through all its arms. *)
ArmAgrees ==
    /\ sel.ph = "lowered" => ~sel.code.ill
    /\ sel.ph = "ran" =>
         /\ sel.arm = RefArm(sel.m, sel.v)
         /\ sel.binds = RefBinds(sel.m, sel.v)
         /\ sel.arm = 0 => \A i \in DOMAIN sel.m.arms : sel.m.arms[i].ty = "void"
=============================================================================
