------------------------------- MODULE Generics -------------------------------
(***************************************************************************)
(* Generic types, methods and functions in the checker: how a program's    *)
(* declarations are walked (forward pass, then check pass), how a type     *)
(* with an argument is instantiated, how the methods of the instance are   *)
(* registered, when a body is checked and queued for code generation, and  *)
(* how has_drop is settled over all types at the end.                      *)
(*                                                                         *)
(* The checker is a recursive program.  `stack' is its call stack, one     *)
(* frame for a type being resolved ("res"), a struct being instantiated    *)
(* ("inst"), the methods of an instance being registered ("impl"), a body  *)
(* being walked ("body") and a declared type being filled in ("decl");     *)
(* `ret' holds the type the last call returned.                            *)
(*                                                                         *)
(* A type is the path of its constructors, outermost first: Vec(S(int)) is *)
(* <<"Vec", "S", "int">>; every template has one parameter.  <<>> is NULL. *)
(***************************************************************************)
EXTENDS Naturals, Sequences, SequencesExt, FiniteSetsExt, TLC

CONSTANTS Programs,      \* the programs checked: sequences of declarations
          InstDepth,     \* LS_MAX_INST_DEPTH
          StackCap       \* frames the machine stack holds
ASSUME LimitsAssumption == InstDepth \in Nat \ {0} /\ StackCap \in Nat \ {0}

VARIABLES prog, phase, di,   \* the program, the pass and its declaration
          c,                 \* the Checker record
          stack, ret, log
vars == <<prog, phase, di, c, stack, ret, log>>

Null == <<>>
NoSub == <<>>                \* a substitution with no parameter
Eager == {"__drop", "__clone", "__from_list", "__from_pairs"}   \* generic_method_is_eager
Wraps == {"array", "ptr"}

Checker0 == [structs |-> <<>>, enums |-> <<>>, fields |-> <<>>, drop |-> <<>>,
             tmpl |-> <<>>, gfns |-> <<>>, impls |-> <<>>, lazy |-> <<>>, mlts |-> {},
             aliases |-> <<>>, silent |-> FALSE, had_error |-> FALSE,
             pending |-> <<>>, queue |-> <<>>, emitted |-> {}]

checker_error(k) == [k EXCEPT !.had_error = @ \/ ~k.silent]

----------------------------------------------------------------------------
(* Names: aliases, registered types, what owns heap.                       *)

register_type_alias(k, n, t) == [k EXCEPT !.aliases = Append(@, <<n, t>>)]

find_type_alias_outermost(k, n) ==
  LET hit == {i \in DOMAIN k.aliases : k.aliases[i][1] = n}
  IN  IF hit = {} THEN Null ELSE k.aliases[Min(hit)][2]

find_type_alias(k, n) ==
  LET hit == {i \in DOMAIN k.aliases : k.aliases[i][1] = n}
  IN  IF hit = {} THEN Null ELSE k.aliases[Max(hit)][2]

Known(k, t) == t \in Range(k.structs) \cup Range(k.enums)

\* a name without arguments: a type parameter, an alias, a struct or an enum
resolve_leaf(k, n, sub) ==
  IF n \in DOMAIN sub THEN sub[n]
  ELSE IF find_type_alias(k, n) # Null THEN find_type_alias(k, n)
  ELSE IF n = "int" \/ Known(k, <<n>>) THEN <<n>>
  ELSE Null

Elem(t) == IF Range(t) \subseteq {"array"} THEN Null
           ELSE LET i == Min({j \in DOMAIN t : t[j] # "array"}) IN SubSeq(t, i, Len(t))

Flagged(k, t) == t # Null /\ Known(k, t) /\ k.drop[t]

type_owns_heap_for_enum(k, t) == t # Null /\ Flagged(k, Elem(t))

register_struct_type(k, t) ==
  [k EXCEPT !.structs = Append(@, t), !.fields = @ @@ (t :> <<>>), !.drop = @ @@ (t :> FALSE)]

register_enum_type(k, t, own) ==
  [k EXCEPT !.enums = Append(@, t), !.fields = @ @@ (t :> <<>>), !.drop = @ @@ (t :> own)]

\* Option, the built-in enum template: one payload, its argument
instantiate_template(k, t) ==
  IF Known(k, t) THEN k
  ELSE [register_enum_type(k, t, type_owns_heap_for_enum(k, Tail(t)))
          EXCEPT !.fields[t] = <<Tail(t)>>]

IsTemplate(k, n) == n \in DOMAIN k.tmpl
Methods(k, t) == k.tmpl[Head(t)].methods
Registered(k, t) == IF t \in DOMAIN k.impls THEN k.impls[t] ELSE <<>>
HasMethod(k, t, m) == m \in Range(Registered(k, t))
MethodNamed(k, t, m) == Methods(k, t)[Min({i \in DOMAIN Methods(k, t) : Methods(k, t)[i].n = m})]

\* a second method of the same name is an error; a second __drop replaces the first
register_method(k, t, m) ==
  IF HasMethod(k, t, m)
  THEN IF m = "__drop" THEN k ELSE checker_error(k)
  ELSE [k EXCEPT !.impls = (t :> Append(Registered(k, t), m)) @@ @]

Sym(t, m, u) == <<t, m, u>>
register_lazy_generic_method(k, s) ==
  IF s \in DOMAIN k.lazy THEN k ELSE [k EXCEPT !.lazy = @ @@ (s :> 0)]
pending_generic_method_add_by_name(k, s) ==
  IF \E i \in DOMAIN k.pending : k.pending[i][2] = s[2] THEN k ELSE [k EXCEPT !.pending = Append(@, s)]
pending_generic_method_add(k, s) == [k EXCEPT !.pending = Append(@, s)]

----------------------------------------------------------------------------
(* Frames.                                                                 *)

Top == Last(stack)
Push(f) == /\ Len(stack) < StackCap
           /\ stack' = Append(stack, f)
PushOver(g, f) == /\ Len(stack) < StackCap
                  /\ stack' = Front(stack) \o <<g, f>>
Become(g) == stack' = Front(stack) \o <<g>>
Return(t) == stack' = Front(stack) /\ ret' = <<t>>
Leave == stack' = Front(stack) /\ ret' = <<>>

\* e is resolved from its leaf outwards: pre is left to apply to cur.  With a
\* substitution it is resolve_type_node_with_substitution, which is `direct'.
Res(k, e, sub) == [k |-> "res", e |-> e, pre |-> Front(e), cur |-> resolve_leaf(k, Last(e), sub),
                   direct |-> DOMAIN sub # {}]
Inst(t) == [k |-> "inst", t |-> t, i |-> 0, own |-> FALSE]
Impl(t) == [k |-> "impl", t |-> t, j |-> 0, s |-> 0, ok |-> TRUE, base |-> 0, sil |-> FALSE]
Body(s, env, ops, base, kind) ==
  [k |-> "body", sym |-> s, env |-> env, ops |-> ops, pc |-> 1, at |-> 0,
   rt |-> Null, defs |-> {}, base |-> base, kind |-> kind]
Decl(d) == [k |-> "decl", d |-> d, got |-> <<>>]

Uses(sig) == [i \in DOMAIN sig |-> [k |-> "use", t |-> sig[i]]]
inst_depth == Cardinality({i \in DOMAIN stack : stack[i].k = "inst"})
At(k) == stack # <<>> /\ Top.k = k
Idle == ret = <<>>

\* the parameters a method body may name: the struct's and the block's own name for it
EnvOf(k, t, u, arg) ==
  (k.tmpl[Head(t)].tp :> Tail(t)) @@ (k.tmpl[Head(t)].itp :> Tail(t))
    @@ (IF u = "" THEN NoSub ELSE u :> arg)

----------------------------------------------------------------------------
(* Resolving a type and instantiating a struct.                            *)

\* An unknown type makes an unknown type of every template around it; a pointer
\* or an array around it is a type again, of nothing.
ResolveFail ==
  /\ At("res") /\ Idle /\ Top.cur = Null /\ c' = checker_error(c)
  /\ LET wraps == {i \in DOMAIN Top.pre : Top.pre[i] \in Wraps} IN
     IF wraps = {} THEN Return(Null)
     ELSE /\ Become([Top EXCEPT !.pre = SubSeq(@, 1, Max(wraps) - 1), !.cur = <<Top.pre[Max(wraps)]>>])
          /\ UNCHANGED ret
  /\ UNCHANGED <<prog, phase, di, log>>

ResolveDone == /\ At("res") /\ Idle /\ Top.cur # Null /\ Top.pre = <<>>
               /\ Return(Top.cur)
               /\ UNCHANGED <<prog, phase, di, c, log>>

Applied == <<Last(Top.pre)>> \o Top.cur
Apply == Become([Top EXCEPT !.pre = Front(@), !.cur = Applied])

ResolveApply ==
  /\ At("res") /\ Idle /\ Top.cur # Null /\ Top.pre # <<>>
  /\ LET n == Last(Top.pre) IN
     \/ n \in Wraps /\ Apply /\ UNCHANGED <<c, ret>>
     \/ n = "Option" /\ Apply /\ c' = instantiate_template(c, Applied) /\ UNCHANGED ret
     \/ n \notin Wraps \cup {"Option"} /\ ~IsTemplate(c, n)
          /\ c' = checker_error(c) /\ Return(Null)
  /\ UNCHANGED <<prog, phase, di, log>>

\* Cache hit, too deep, or the shell registered before its fields are resolved.
\* resolve_type_node looks in the cache first; the direct resolver tests the depth
\* first, and when that fails has resolve_type_node try the same expression.
checker_instantiate_struct ==
  /\ At("res") /\ Idle /\ Top.cur # Null /\ Top.pre # <<>> /\ IsTemplate(c, Last(Top.pre))
  /\ LET hit  == Known(c, Applied)
         deep == inst_depth >= InstDepth
     IN  \/ hit /\ ~(deep /\ Top.direct) /\ Apply /\ UNCHANGED <<c, ret>>
         \/ deep /\ ~hit /\ ~Top.direct /\ c' = checker_error(c) /\ Return(Null)
         \/ /\ deep /\ Top.direct /\ c' = checker_error(c)
            /\ Push(Res(c, SubSeq(Top.e, Len(Top.pre), Len(Top.e)), NoSub)) /\ UNCHANGED ret
         \/ /\ ~deep /\ ~hit
            /\ c' = register_struct_type(c, Applied)
            /\ Push(Inst(Applied)) /\ UNCHANGED ret
  /\ UNCHANGED <<prog, phase, di, log>>

Instantiated == /\ At("res") /\ ~Idle
                /\ Become([Top EXCEPT !.pre = Front(@), !.cur = ret[1]]) /\ ret' = <<>>
                /\ UNCHANGED <<prog, phase, di, c, log>>

Template(t) == c.tmpl[Head(t)]

InstField == /\ At("inst") /\ Idle /\ Top.i < Len(Template(Top.t).fields)
             /\ Push(Res(c, Template(Top.t).fields[Top.i + 1], Template(Top.t).tp :> Tail(Top.t)))
             /\ UNCHANGED <<prog, phase, di, c, ret, log>>

\* a field that cannot be resolved is an error and becomes an int
InstFieldDone ==
  /\ At("inst") /\ ~Idle /\ Top.i < Len(Template(Top.t).fields)
  /\ LET ft == IF ret[1] = Null THEN <<"int">> ELSE ret[1]
         k  == IF ret[1] = Null THEN checker_error(c) ELSE c
     IN  /\ c' = [k EXCEPT !.fields[Top.t] = Append(@, ft)]
         /\ Become([Top EXCEPT !.i = @ + 1, !.own = @ \/ type_owns_heap_for_enum(c, ft)])
  /\ ret' = <<>> /\ UNCHANGED <<prog, phase, di, log>>

InstImpl ==
  /\ At("inst") /\ Idle /\ Top.i = Len(Template(Top.t).fields)
  /\ c' = [c EXCEPT !.drop[Top.t] = Top.own]
  /\ IF Template(Top.t).bound
     THEN PushOver([Top EXCEPT !.i = @ + 1], Impl(Top.t)) /\ UNCHANGED ret
     ELSE Return(Top.t)
  /\ UNCHANGED <<prog, phase, di, log>>

InstDone == /\ At("inst") /\ ~Idle /\ Top.i > Len(Template(Top.t).fields)
            /\ Return(Top.t) /\ UNCHANGED <<prog, phase, di, c, log>>

----------------------------------------------------------------------------
(* Registering the methods of an instance.                                 *)

HasDropMethod(t) == \E i \in DOMAIN Methods(c, t) : Methods(c, t)[i].n = "__drop"

ImplEnter ==
  /\ At("impl") /\ Idle /\ Top.j = 0
  /\ IF Registered(c, Top.t) # <<>>
     THEN /\ c' = [c EXCEPT !.drop[Top.t] = @ \/ HasDropMethod(Top.t)]
          /\ Return(Top.t)
     ELSE /\ LET tm == Template(Top.t)
                 k  == register_type_alias(c, tm.tp, Tail(Top.t))
             IN  c' = IF tm.itp = tm.tp THEN k ELSE register_type_alias(k, tm.itp, Tail(Top.t))
          /\ Become([Top EXCEPT !.j = 1, !.base = Len(c.aliases)])
          /\ UNCHANGED ret
  /\ UNCHANGED <<prog, phase, di, log>>

AtMethod == At("impl") /\ Top.j \in DOMAIN Methods(c, Top.t)
Method == Methods(c, Top.t)[Top.j]
NextMethod == [Top EXCEPT !.j = @ + 1, !.s = 0, !.ok = TRUE]

\* a method with its own parameter is kept as a template, under a placeholder
ImplTemplate ==
  /\ AtMethod /\ Idle /\ Method.u # ""
  /\ c' = [register_method(c, Top.t, Method.n) EXCEPT !.mlts = @ \cup {<<Top.t, Method.n>>}]
  /\ Become(NextMethod) /\ UNCHANGED <<prog, phase, di, ret, log>>

Marked == [c EXCEPT !.drop[Top.t] = @ \/ Method.n = "__drop"]

\* the signature's types are resolved with errors suppressed
ImplSig ==
  /\ AtMethod /\ Idle /\ Method.u = "" /\ Top.s < Len(Method.sig)
  /\ c' = [Marked EXCEPT !.silent = TRUE]
  /\ PushOver([Top EXCEPT !.sil = c.silent],
              Res(c, Method.sig[Top.s + 1], Template(Top.t).tp :> Tail(Top.t)))
  /\ UNCHANGED <<prog, phase, di, ret, log>>

restore_silent_missing(k, sil) == k
restore_silent(k, sil) == [k EXCEPT !.silent = sil]

ImplSigDone ==
  /\ AtMethod /\ ~Idle
  /\ Become([Top EXCEPT !.s = @ + 1, !.ok = @ /\ ret[1] # Null])
  /\ c' = restore_silent(c, Top.sil)
  /\ ret' = <<>> /\ UNCHANGED <<prog, phase, di, log>>

\* the body of a method of instance t, with the aliases its check runs under
check_and_queue_generic_method(k, t, m, kind) ==
  Body(Sym(t, m, Null), EnvOf(k, t, "", Null), MethodNamed(k, t, m).body, Len(k.aliases), kind)
WithAlias(k, t) == register_type_alias(k, k.tmpl[Head(t)].tp, Tail(t))

ImplMethod ==
  /\ AtMethod /\ Idle /\ Method.u = "" /\ Top.s = Len(Method.sig)
  /\ LET s == Sym(Top.t, Method.n, Null)
         k == register_method(Marked, Top.t, Method.n)
     IN  \/ ~Top.ok /\ Method.n \notin Eager /\ c' = Marked /\ Become(NextMethod)
         \/ /\ Method.n \in Eager
            /\ c' = WithAlias(k, Top.t)
            /\ PushOver(NextMethod, check_and_queue_generic_method(k, Top.t, Method.n, "eager"))
         \/ /\ Top.ok /\ Method.n \notin Eager
            /\ c' = register_lazy_generic_method(k, s) /\ Become(NextMethod)
  /\ UNCHANGED <<prog, phase, di, ret, log>>

ImplDone == /\ At("impl") /\ Idle /\ Top.j > Len(Methods(c, Top.t))
            /\ c' = [c EXCEPT !.aliases = SubSeq(@, 1, Top.base)]
            /\ Return(Top.t) /\ UNCHANGED <<prog, phase, di, log>>

----------------------------------------------------------------------------
(* Walking a body.                                                         *)

AtOp(kinds, at) == At("body") /\ Top.pc <= Len(Top.ops) /\ Top.ops[Top.pc].k \in kinds /\ Top.at = at
Op == Top.ops[Top.pc]
NextOp == [Top EXCEPT !.pc = @ + 1, !.at = 0]
Typed == {"use", "call", "mcall"}


\* the declared type of the variable, the receiver or the type argument
OpType == /\ AtOp(Typed \cup {"gcall"}, 0)
          /\ PushOver([Top EXCEPT !.at = 1], Res(c, Op.t, NoSub))
          /\ UNCHANGED <<prog, phase, di, c, ret, log>>

\* what the properties look at: a type expression, what it stood for and what it became
Logged(e, m, t, s) == log \cup {[e |-> e, m |-> m, env |-> Top.env, t |-> t, sym |-> s]}

Bad == /\ AtOp({"bad"}, 0) /\ c' = checker_error(c) /\ Become(NextOp)
       /\ log' = Logged(<<"bad">>, "", Null, Null) /\ UNCHANGED <<prog, phase, di, ret>>

Use == /\ AtOp({"use"}, 1) /\ ~Idle
       /\ Become(NextOp) /\ log' = Logged(Op.t, "", ret[1], Null)
       /\ ret' = <<>> /\ UNCHANGED <<prog, phase, di, c>>

\* an instance whose methods are not registered has them registered now
ensure_generic_struct_impls_local ==
  /\ AtOp({"call", "mcall"}, 1) /\ ~Idle /\ ret' = <<>>
  /\ log' = Logged(Op.t, Op.m, ret[1], IF Op.k = "call" THEN Sym(ret[1], Op.m, Null) ELSE Null)
  /\ LET t == ret[1]
         missing == t # Null /\ IsTemplate(c, Head(t)) /\ ~HasMethod(c, t, Op.m)
     IN  \/ t = Null /\ Become(NextOp)
         \/ /\ missing /\ Registered(c, t) = <<>> /\ Template(t).bound
            /\ PushOver([Top EXCEPT !.at = 2, !.rt = t], Impl(t))
         \/ /\ t # Null /\ ~(missing /\ Registered(c, t) = <<>> /\ Template(t).bound)
            /\ Become([Top EXCEPT !.at = 2, !.rt = t])
  /\ UNCHANGED <<prog, phase, di, c>>

NoSuchMethod == /\ AtOp({"call", "mcall"}, 2) /\ ~HasMethod(c, Top.rt, Op.m)
                /\ c' = checker_error(c) /\ Become(NextOp)
                /\ ret' = <<>> /\ UNCHANGED <<prog, phase, di, log>>

ensure_generic_method_instantiated(s) == c.lazy[s] = 0

\* a body is walked once: not again while it is being walked (1) nor when it is queued (2)
CallMethod ==
  /\ AtOp({"call"}, 2) /\ HasMethod(c, Top.rt, Op.m) /\ ret' = <<>>
  /\ LET s == Sym(Top.rt, Op.m, Null) IN
     \/ (s \in DOMAIN c.lazy => ~ensure_generic_method_instantiated(s)) /\ Become(NextOp) /\ UNCHANGED c
     \/ /\ s \in DOMAIN c.lazy /\ ensure_generic_method_instantiated(s)
        /\ c' = WithAlias([c EXCEPT !.lazy[s] = 1], Top.rt)
        /\ PushOver(NextOp, check_and_queue_generic_method(c, Top.rt, Op.m, "lazy"))
  /\ UNCHANGED <<prog, phase, di, log>>

MethodArg == /\ AtOp({"mcall"}, 2) /\ HasMethod(c, Top.rt, Op.m)
             /\ PushOver([Top EXCEPT !.at = 3], Res(c, Op.u, NoSub))
             /\ ret' = <<>> /\ UNCHANGED <<prog, phase, di, c, log>>

\* every call walks the template again and queues another copy
try_instantiate_method_level_generic ==
  /\ AtOp({"mcall"}, 3) /\ ~Idle /\ ret' = <<>>
  /\ \/ ret[1] = Null /\ Become(NextOp) /\ UNCHANGED c
     \/ /\ ret[1] # Null
        /\ LET m == MethodNamed(c, Top.rt, Op.m)
               k == register_type_alias(c, Template(Top.rt).itp, Tail(Top.rt))
           IN  /\ c' = register_type_alias(k, m.u, ret[1])
               /\ PushOver(NextOp, Body(Sym(Top.rt, Op.m, ret[1]), EnvOf(c, Top.rt, m.u, ret[1]),
                                        Uses(m.sig) \o m.body, Len(c.aliases), "ml"))
  /\ log' = Logged(Op.u, "", ret[1], Sym(Top.rt, Op.m, ret[1])) /\ UNCHANGED <<prog, phase, di>>

\* A generic function: reused when its name is in scope, else walked, its name
\* defined in the caller's scope once the signature is resolved.
GFnSym(f, u) == Sym(<<f>>, "gfn", u)
InScope(s) == \E i \in DOMAIN stack : stack[i].k = "body" /\ s \in stack[i].defs

CallGenericFn ==
  /\ AtOp({"gcall"}, 1) /\ ~Idle /\ ret' = <<>>
  /\ LET s == GFnSym(Op.f, ret[1]) IN
     \/ (ret[1] = Null \/ InScope(s)) /\ Become(NextOp) /\ UNCHANGED c
     \/ /\ ret[1] # Null /\ ~InScope(s)
        /\ LET g == c.gfns[Op.f] IN
           /\ c' = register_type_alias(c, g.tp, ret[1])
           /\ PushOver(NextOp, Body(s, g.tp :> ret[1], Uses(g.sig) \o <<[k |-> "define"]>> \o g.body,
                                    Len(c.aliases), "gfn"))
  /\ log' = Logged(Op.t, "", ret[1], GFnSym(Op.f, ret[1])) /\ UNCHANGED <<prog, phase, di>>

Define == /\ AtOp({"define"}, 0)
          /\ LET n == Len(stack) IN
             stack' = [stack EXCEPT ![n - 1].defs = @ \cup {Top.sym}, ![n].pc = @ + 1]
          /\ UNCHANGED <<prog, phase, di, c, ret, log>>

\* Aliases are restored.  A method body is queued unless an error was reported;
\* a method-level or function instance always is.
BodyDone ==
  /\ At("body") /\ Top.pc > Len(Top.ops)
  /\ LET k == [c EXCEPT !.aliases = SubSeq(@, 1, Top.base)] IN
     c' = CASE Top.kind = "eager" -> IF c.had_error THEN k ELSE pending_generic_method_add(k, Top.sym)
            [] Top.kind = "lazy"  -> IF c.had_error THEN [k EXCEPT !.lazy[Top.sym] = 0]
                                     ELSE [pending_generic_method_add(k, Top.sym) EXCEPT !.lazy[Top.sym] = 2]
            [] Top.kind \in {"ml", "gfn"} -> pending_generic_method_add(k, Top.sym)
            [] OTHER -> k
  /\ Leave /\ UNCHANGED <<prog, phase, di, log>>

----------------------------------------------------------------------------
(* The passes over the declarations.                                       *)

Between(p) == phase = p /\ stack = <<>> /\ Idle /\ di <= Len(prog)
D == prog[di]
Forward(kind) == Between("forward") /\ D.k = kind
Check(kind) == Between("check") /\ D.k = kind

\* a plain struct is registered after its fields, an enum before its payloads
StartType ==
  /\ \E kind \in {"struct", "enum"} : Forward(kind)
  /\ c' = IF D.k = "enum" THEN register_enum_type(c, <<D.n>>, FALSE) ELSE c
  /\ stack' = <<Decl(D)>> /\ di' = di + 1 /\ UNCHANGED <<prog, phase, ret, log>>

TypeField ==
  /\ At("decl") /\ Idle /\ Len(Top.got) < Len(Top.d.fields)
  /\ Push(Res(c, Top.d.fields[Len(Top.got) + 1], NoSub))
  /\ UNCHANGED <<prog, phase, di, c, ret, log>>
TypeFieldDone ==
  /\ At("decl") /\ ~Idle /\ Become([Top EXCEPT !.got = Append(@, ret[1])])
  /\ ret' = <<>> /\ UNCHANGED <<prog, phase, di, c, log>>

check_struct_decl(k, t, fs) ==
  [register_struct_type(k, t) EXCEPT
     !.fields[t] = fs, !.drop[t] = \E i \in DOMAIN fs : Flagged(k, fs[i])]
check_enum_decl(k, t, fs) ==
  [k EXCEPT !.fields[t] = fs,
            !.drop[t] = \E i \in DOMAIN fs : fs[i] = t \/ type_owns_heap_for_enum(k, fs[i])]

TypeDone ==
  /\ At("decl") /\ Idle /\ Len(Top.got) = Len(Top.d.fields)
  /\ c' = IF Top.d.k = "enum" THEN check_enum_decl(c, <<Top.d.n>>, Top.got)
          ELSE check_struct_decl(c, <<Top.d.n>>, Top.got)
  /\ Leave /\ UNCHANGED <<prog, phase, di, log>>

RegisterTemplate ==
  /\ \/ /\ Forward("template")
        /\ c' = [c EXCEPT !.tmpl = @ @@ (D.n :> [tp |-> D.tp, itp |-> D.tp, fields |-> D.fields,
                                               methods |-> <<>>, bound |-> FALSE])]
     \/ Forward("gfn") /\ c' = [c EXCEPT !.gfns = @ @@ (D.n :> D)]
  /\ di' = di + 1 /\ UNCHANGED <<prog, phase, stack, ret, log>>

FnSym(n) == Sym(<<n>>, "fn", Null)

\* the signatures in the forward pass, the bodies in the check pass
Function ==
  /\ \/ Forward("fn") /\ stack' = <<Body(FnSym(D.n), NoSub, Uses(D.sig), 0, "fn")>>
     \/ Check("fn") /\ stack' = <<Body(FnSym(D.n), NoSub, D.body, 0, "fn")>>
  /\ di' = di + 1 /\ UNCHANGED <<prog, phase, c, ret, log>>

\* a block of methods reaches its template only here, in the check pass
BindImpl ==
  /\ Check("impl")
  /\ c' = [c EXCEPT !.tmpl[D.n] = [@ EXCEPT !.itp = D.tp, !.methods = D.methods, !.bound = TRUE]]
  /\ di' = di + 1 /\ UNCHANGED <<prog, phase, stack, ret, log>>

\* `methods X: Destroy`: folded into the block of a template, or a plain struct's own
Destroy ==
  /\ Check("destroy")
  /\ LET hook == [n |-> "__drop", u |-> "", sig |-> <<>>, body |-> D.body] IN
     \/ /\ IsTemplate(c, D.n)
        /\ c' = IF c.tmpl[D.n].bound THEN [c EXCEPT !.tmpl[D.n].methods = Append(@, hook)]
                ELSE checker_error(c)
        /\ UNCHANGED stack
     \/ /\ ~IsTemplate(c, D.n)
        /\ c' = [c EXCEPT !.drop[<<D.n>>] = TRUE]
        /\ stack' = <<Body(Sym(<<D.n>>, "__drop", Null), NoSub, D.body, 0, "fn")>>
  /\ di' = di + 1 /\ UNCHANGED <<prog, phase, ret, log>>

Skip == /\ \/ Between("forward") /\ D.k \in {"impl", "destroy"}
           \/ Between("check") /\ D.k \in {"struct", "enum", "template", "gfn"}
        /\ di' = di + 1 /\ UNCHANGED <<prog, phase, c, stack, ret, log>>

Types == c.structs \o c.enums
PassDone(p) == phase = p /\ stack = <<>> /\ Idle /\ di > Len(prog)
CheckPass == /\ PassDone("forward") /\ phase' = "check" /\ di' = 1
             /\ UNCHANGED <<prog, c, stack, ret, log>>
Seed == /\ PassDone("check") /\ phase' = "fix" /\ c' = [c EXCEPT !.queue = Types]
        /\ UNCHANGED <<prog, di, stack, ret, log>>

hasdrop_eval(t) == \E i \in DOMAIN c.fields[t] :
                     c.fields[t][i] = t \/ type_owns_heap_for_enum(c, c.fields[t][i])

\* the types with a direct field of type t
Containers_structs(t) == SelectSeq(c.structs, LAMBDA w : t \in Range(c.fields[w]))
Containers(t) == SelectSeq(Types, LAMBDA w : t \in Range(c.fields[w]))

checker_propagate_has_drop_worklist ==
  /\ phase = "fix" /\ c.queue # <<>>
  /\ LET t == Head(c.queue)
         rest == Tail(c.queue)
         more == SelectSeq(Containers(t), LAMBDA w : w \notin Range(rest) /\ w # t /\ ~c.drop[w])
     IN  IF ~c.drop[t] /\ hasdrop_eval(t)
         THEN c' = [c EXCEPT !.drop[t] = TRUE, !.queue = rest \o more]
         ELSE c' = [c EXCEPT !.queue = rest]
  /\ UNCHANGED <<prog, phase, di, stack, ret, log>>

\* after an error nothing is handed to the code generator
Settled == /\ phase = "fix" /\ c.queue = <<>>
           /\ phase' = IF c.had_error THEN "done" ELSE "emit"
           /\ UNCHANGED <<prog, di, c, stack, ret, log>>

\* the first copy of a symbol is emitted, later ones are skipped
cg_emit_pending_generics ==
  /\ phase = "emit"
  /\ IF c.pending = <<>> THEN phase' = "done" /\ UNCHANGED c
     ELSE /\ phase' = phase
          /\ c' = [c EXCEPT !.pending = Tail(@), !.emitted = @ \cup {Head(c.pending)}]
  /\ UNCHANGED <<prog, di, stack, ret, log>>

Done == phase = "done" /\ UNCHANGED vars

Init == /\ prog \in Programs /\ phase = "forward" /\ di = 1
        /\ c = Checker0 /\ stack = <<>> /\ ret = <<>> /\ log = {}

Next == \/ ResolveFail \/ ResolveDone \/ ResolveApply \/ checker_instantiate_struct \/ Instantiated
        \/ InstField \/ InstFieldDone \/ InstImpl \/ InstDone
        \/ ImplEnter \/ ImplTemplate \/ ImplSig \/ ImplSigDone \/ ImplMethod \/ ImplDone
        \/ Bad \/ OpType \/ Use \/ ensure_generic_struct_impls_local \/ NoSuchMethod \/ CallMethod
        \/ MethodArg \/ try_instantiate_method_level_generic \/ CallGenericFn \/ Define \/ BodyDone
        \/ StartType \/ TypeField \/ TypeFieldDone \/ TypeDone \/ RegisterTemplate \/ Function
        \/ BindImpl \/ Destroy \/ Skip \/ CheckPass \/ Seed
        \/ checker_propagate_has_drop_worklist \/ Settled \/ cg_emit_pending_generics \/ Done

Spec == Init /\ [][Next]_vars

----------------------------------------------------------------------------
(* What the program means, read off its declarations alone.                *)

DeclsOf(kinds, n) == {i \in DOMAIN prog : prog[i].k \in kinds /\ prog[i].n = n}
Lexical(e, env) ==
  LET leaf == Last(e) IN
  IF \E i \in 1 .. Len(e) - 1 : e[i] \notin Wraps \cup {"Option"} /\ DeclsOf({"template"}, e[i]) = {}
  THEN Null
  ELSE IF leaf \in DOMAIN env THEN Front(e) \o env[leaf]
  ELSE IF leaf = "int" \/ DeclsOf({"struct", "enum"}, leaf) # {} THEN e
  ELSE Null

Declares(n, m) == \E i \in DeclsOf({"impl"}, n) : \E j \in DOMAIN prog[i].methods :
  LET f == prog[i].methods[j] IN
  f.n = m /\ \A s \in Range(f.sig) : Lexical(s, (prog[i].tp :> <<"int">>) @@ (f.u :> <<"int">>)) # Null

\* the field types of t, and the types that own heap: the least set closed under containment
FieldTypes(t) ==
  IF Head(t) = "Option" THEN {Tail(t)}
  ELSE UNION {{Lexical(e, IF prog[i].k = "template" THEN prog[i].tp :> Tail(t) ELSE NoSub) :
                 e \in Range(prog[i].fields)} : i \in DeclsOf({"template", "struct", "enum"}, Head(t))}
Destroyed(t) == DeclsOf({"destroy"}, Head(t)) # {}
Owners ==
  LET all == Range(Types)
      grow[n \in 0 .. Cardinality(all)] ==
        IF n = 0 THEN {t \in all : Destroyed(t) \/ t \in FieldTypes(t)}
        ELSE LET own == grow[n - 1]
             IN  own \cup {t \in all : \E f \in FieldTypes(t) : Elem(f) \in own}
  IN  grow[Cardinality(all)]

\* a template whose fields nest it inside itself has no finite set of instances
Expansive == \E i \in DOMAIN prog : prog[i].k = "template" /\ \E e \in Range(prog[i].fields) :
               Cardinality({j \in DOMAIN e : e[j] = prog[i].n}) > 1

Wrong(x) == \/ Lexical(x.e, x.env) = Null
            \/ x.m # "" /\ ~Declares(Head(Lexical(x.e, x.env)), x.m)
BareDestroy == \E i \in DOMAIN prog : /\ prog[i].k = "destroy" /\ DeclsOf({"template"}, prog[i].n) # {}
                                      /\ \A j \in DeclsOf({"impl"}, prog[i].n) : j > i
BadField == \E t \in Range(c.structs) : Null \in FieldTypes(t)

----------------------------------------------------------------------------
\* has_drop is exact when the checker is done: a type has it if and only if the
\* type has a destructor or contains, directly, in a payload or in an array, one
\* that has it, whatever the order in which declarations, instances and
\* destructors were met (checker.c, B-MAP-M5-004).
DropExact == phase = "done" /\ ~c.had_error =>
               {t \in Range(Types) : c.drop[t]} = Owners

\* Every method, method-level and function instance that some checked body calls,
\* and every destructor of a type marked as having one, is emitted: no call is
\* left without a symbol.
CallsResolved ==
  phase = "done" /\ ~c.had_error =>
    /\ \A x \in log : x.sym # Null => x.sym \in c.emitted
    /\ \A t \in Range(c.structs) :
         Len(t) > 1 /\ Destroyed(t) /\ c.drop[t] => Sym(t, "__drop", Null) \in c.emitted

\* A type named in a body is what the body's own parameters make it: bindings of
\* instantiations further out never show through (find_type_alias, VR-LIM-013).
\* Excluded: a pointer or an array of an unknown name, which stands for no type of
\* the program (that it is accepted in a signature is a matter of Verdict).
LexicalTypes == \A x \in log : x.t # Null /\ Last(x.t) \notin Wraps => x.t = Lexical(x.e, x.env)

\* The verdict is the program's: an error is reported if and only if a body that
\* was walked, or a field of an instance, is wrong.  No error is swallowed by the
\* suppression around signatures and none arises from registering twice.
Verdict == phase = "done" =>
             (c.had_error <=> Expansive \/ BareDestroy \/ BadField \/ \E x \in log : Wrong(x))
=============================================================================
