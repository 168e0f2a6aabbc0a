------------------------------ MODULE AstHeap -------------------------------
(***************************************************************************)
(* Who owns what in the syntax tree: ast_new, ast_free and ast_clone_deep  *)
(* of src/src/ast.c over a heap of allocations.                            *)
(*                                                                         *)
(* An allocation is a tree node or a leaf (a string, an array, a TypeNode).*)
(* A node has one slot per pointer field of its kind; an array field is    *)
(* one slot that stands for the array and its elements.  Freed, Copied and *)
(* Cleared are read off the two switches separately: the code demands that *)
(* they agree, and nothing in C makes them.                                *)
(***************************************************************************)
EXTENDS Naturals, FiniteSets, Loops

CONSTANTS InnerKinds,                   \* the kinds of the nodes built first
          OuterKinds,                   \* the kinds built around them
          CheckedAgain,                 \* lowered trees are cloned, loops are desugared again
          MaxSteps                      \* clones and annotations

VARIABLES heap,                         \* address -> [kind, text, slot -> address or NULL]
          clock,                        \* the next allocating operation
          freed,                        \* allocations returned to malloc
          twice,                        \* some allocation was freed again
          lossy,                        \* some clone lost a text of its source
          roots,                        \* trees the compiler still holds
          steps                         \* clones and annotations so far

vars == <<heap, clock, freed, twice, lossy, roots, steps>>

(* The fields ast_free releases, expressions first.                        *)
FreedExpr ==
  [AST_STRING_LIT |-> {"value"}, AST_FORMAT_STRING |-> {"parts", "exprs", "specs"},
   AST_ARRAY_LIT |-> {"elements"}, AST_MAP_LIT |-> {"keys", "vals"}, AST_IDENT |-> {"name", "type_args"},
   AST_UNARY |-> {"operand"}, AST_MUT_BORROW |-> {"operand"}, AST_BINARY |-> {"left", "right", "lowered"},
   AST_CALL |-> {"callee", "args", "type_args", "resolved_type_args", "qualified_iface"},
   AST_INDEX |-> {"object", "index", "indices"}, AST_FIELD |-> {"object", "field"},
   AST_CLOSURE |-> {"param_types", "param_names", "return_type", "body", "captures", "move_names"},
   AST_MATCH |-> {"subject", "arms"}, AST_MATCH_OR_PATTERN |-> {"left", "right"},
   AST_MATCH_BIT_PATTERN |-> {"name"}, AST_MATCH_BIT_PATTERN_SEQ |-> {"items"},
   AST_CAST |-> {"expr", "target_type"}, AST_SIZEOF |-> {"type_node"}, AST_TYPENAME |-> {"type_node"},
   AST_TRY |-> {"expr"}, AST_FORCE_UNWRAP |-> {"expr", "message"}, AST_RANGE |-> {"start", "end"}]

FreedStmt ==
  [AST_VAR_DECL |-> {"var_type", "name", "init"}, AST_ASSIGN |-> {"target", "value"}, AST_RETURN |-> {"value"},
   AST_IF |-> {"cond", "then_block", "else_block"}, AST_WHILE |-> {"cond", "body"},
   AST_FOR |-> {"var", "iter", "body", "desugared"}, AST_FOR_C |-> {"init", "cond", "update", "body"},
   AST_COMPTIME_FOR |-> {"var", "over_type", "body"}, AST_COMPTIME_IF |-> {"cond", "then_block", "else_block"},
   AST_COMPTIME_FIELD |-> {"object", "handle"}, AST_COMPTIME_MATCH |-> {"subject", "handle", "binder", "body"},
   AST_COMPTIME_CONST |-> {"decl_type", "name", "value"}, AST_COMPTIME_BLOCK |-> {"block"},
   AST_BLOCK |-> {"stmts"}, AST_EXPR_STMT |-> {"expr"}]

FreedDecl ==
  [AST_FN_DECL |-> {"name", "type_params", "type_param_bounds", "where_bounds", "param_types", "param_names",
                    "param_defaults", "return_type", "body"},
   AST_STRUCT_DECL |-> {"name", "type_params", "type_param_bounds", "field_types", "field_names",
                        "field_defaults", "field_private", "derives"},
   AST_ENUM_DECL |-> {"name", "variants", "derives"}, AST_IMPL_DECL |-> {"name", "type_params", "methods"},
   AST_MODULE_DECL |-> {"name"}, AST_IMPORT_DECL |-> {"path", "alias"},
   AST_TYPE_ALIAS_DECL |-> {"name", "target"}, AST_TRAIT_DECL |-> {"name", "method_sigs"},
   AST_IMPL_TRAIT_DECL |-> {"trait_name", "struct_name", "type_params", "methods"}]

FreedMore ==
  [AST_NEW_EXPR |-> {"struct_name", "module", "field_inits", "type_args"}, AST_AT_TIME |-> {"expr"},
   AST_AT_BENCH |-> {"expr"}, AST_LOAD_LIB |-> {"var_name", "lib_path"},
   AST_FFI_CALL |-> {"lib_expr", "fn_name", "args"},
   AST_EXTERN_FN |-> {"name", "param_types", "param_names", "return_type", "lib_name"},
   AST_EXTERN_STRUCT_DECL |-> {"name", "field_types", "field_names"}, AST_EXTERN_BLOCK |-> {"decls"},
   AST_PROGRAM |-> {"decls"}]

(* Every kind of node.                                                     *)
AllKinds == DOMAIN FreedExpr \cup DOMAIN FreedStmt \cup DOMAIN FreedDecl \cup DOMAIN FreedMore

Lookup(f, k) == IF k \in DOMAIN f THEN f[k] ELSE {}

(* coerce_block_type is freed and cloned for every kind.                   *)
Freed(k) == {"coerce_block_type"} \cup Lookup(FreedExpr, k) \cup Lookup(FreedStmt, k)
              \cup Lookup(FreedDecl, k) \cup Lookup(FreedMore, k)

(* The fields ast_clone_deep copies deeply, in the order of its switch.    *)
CopiedSimple ==
  [AST_STRING_LIT |-> {"value"}, AST_IDENT |-> {"name", "type_args"}, AST_UNARY |-> {"operand"},
   AST_MUT_BORROW |-> {"operand"}, AST_BINARY |-> {"left", "right"},
   AST_CALL |-> {"callee", "args", "type_args", "resolved_type_args", "qualified_iface"},
   AST_INDEX |-> {"object", "index", "indices"}, AST_FIELD |-> {"object", "field"}, AST_RETURN |-> {"value"},
   AST_EXPR_STMT |-> {"expr"}, AST_BLOCK |-> {"stmts"}, AST_VAR_DECL |-> {"name", "var_type", "init"},
   AST_ASSIGN |-> {"target", "value"}, AST_IF |-> {"cond", "then_block", "else_block"},
   AST_WHILE |-> {"cond", "body"}, AST_FOR |-> {"var", "iter", "body"}]

CopiedNested ==
  [AST_FOR_C |-> {"init", "cond", "update", "body"}, AST_COMPTIME_FOR |-> {"var", "over_type", "body"},
   AST_COMPTIME_IF |-> {"cond", "then_block", "else_block"}, AST_COMPTIME_FIELD |-> {"object", "handle"},
   AST_COMPTIME_MATCH |-> {"subject", "handle", "binder", "body"},
   AST_COMPTIME_CONST |-> {"decl_type", "name", "value"}, AST_COMPTIME_BLOCK |-> {"block"},
   AST_CAST |-> {"expr", "target_type"}, AST_SIZEOF |-> {"type_node"}, AST_TYPENAME |-> {"type_node"},
   AST_TRY |-> {"expr"}, AST_FORCE_UNWRAP |-> {"expr", "message"}, AST_RANGE |-> {"start", "end"},
   AST_FORMAT_STRING |-> {"parts", "exprs", "specs"}, AST_ARRAY_LIT |-> {"elements"},
   AST_MAP_LIT |-> {"keys", "vals"}, AST_NEW_EXPR |-> {"struct_name", "module", "field_inits", "type_args"},
   AST_MATCH |-> {"subject", "arms"}]

CopiedFn ==
  [AST_FN_DECL |-> {"name", "type_params", "type_param_bounds", "where_bounds", "param_types", "param_names",
                    "param_defaults", "return_type", "body"},
   AST_CLOSURE |-> {"param_types", "param_names", "return_type", "body", "move_names"}]

CopiedMore_no_time ==                   \* mutant: no case for AST_AT_TIME
  [AST_MATCH_OR_PATTERN |-> {"left", "right"}, AST_MATCH_BIT_PATTERN |-> {"name"},
   AST_MATCH_BIT_PATTERN_SEQ |-> {"items"}, AST_AT_BENCH |-> {"expr"},
   AST_LOAD_LIB |-> {"var_name", "lib_path"}, AST_FFI_CALL |-> {"lib_expr", "fn_name", "args"}]

CopiedMore ==
  [AST_MATCH_OR_PATTERN |-> {"left", "right"}, AST_MATCH_BIT_PATTERN |-> {"name"},
   AST_MATCH_BIT_PATTERN_SEQ |-> {"items"}, AST_AT_TIME |-> {"expr"}, AST_AT_BENCH |-> {"expr"},
   AST_LOAD_LIB |-> {"var_name", "lib_path"}, AST_FFI_CALL |-> {"lib_expr", "fn_name", "args"}]

Copied(k) == {"coerce_block_type"} \cup Lookup(CopiedSimple, k) \cup Lookup(CopiedNested, k)
               \cup Lookup(CopiedFn, k) \cup Lookup(CopiedMore, k)

(* The fields the checker fills in and the clone starts without.           *)
Cleared_moves ==                        \* mutant: the [move v] list of a closure goes with its captures
  [AST_BINARY |-> {"lowered"}, AST_FOR |-> {"desugared"}, AST_CLOSURE |-> {"captures", "move_names"}]

Cleared == [AST_BINARY |-> {"lowered"}, AST_FOR |-> {"desugared"}, AST_CLOSURE |-> {"captures"}]

(* Fields NULL after the parser; every other field is filled by it.        *)
BackFilled(k) == {"coerce_block_type", "resolved_type_args", "qualified_iface", "lowered", "desugared", "captures"}

(* Kinds ast_clone_deep stops the compiler on.                             *)
NotCloned == {"AST_PROGRAM", "AST_MODULE_DECL", "AST_IMPORT_DECL", "AST_STRUCT_DECL", "AST_ENUM_DECL",
              "AST_TRAIT_DECL", "AST_IMPL_DECL", "AST_IMPL_TRAIT_DECL", "AST_TYPE_ALIAS_DECL",
              "AST_EXTERN_BLOCK", "AST_EXTERN_FN", "AST_EXTERN_STRUCT_DECL"}

-----------------------------------------------------------------------------
(* An address is the operation that allocated it and the part of its       *)
(* result: a field, the node itself or, for a clone, the address copied.   *)
NULL == <<0, "">>

(* A leaf carries the source text it stands for, NULL for what the checker *)
(* computed.                                                               *)
Leaf(text) == [kind |-> "leaf", text |-> text, slot |-> [s \in {} |-> NULL]]

(* The allocation x with other pointers.                                   *)
With(x, slot) == [kind |-> x.kind, text |-> x.text, slot |-> slot]

(* The heap h with the allocations g, new or changed.                      *)
Grow(h, g) == [a \in DOMAIN h \cup DOMAIN g |-> IF a \in DOMAIN g THEN g[a] ELSE h[a]]

(* The pointer fields of a kind.                                           *)
Slots(k) == Freed(k) \cup Copied(k) \cup Lookup(Cleared, k)

(* What X reaches along the edges E, which take an address to a set.       *)
Ends(E, X) == UNION {E[a] : a \in X}
Below(E, X) ==
  Iterate(SUBSET DOMAIN E, [Y \in SUBSET DOMAIN E |-> Ends(E, Y) \subseteq Y],
          [Y \in SUBSET DOMAIN E |-> Y \cup Ends(E, Y)], X)

(* The targets of the fields fs of a.                                      *)
Targets(h, a, fs) == {h[a].slot[s] : s \in fs \cap DOMAIN h[a].slot} \ {NULL}

(* The allocations of the trees X, those that ast_free of them releases    *)
(* and those that ast_clone_deep copies.                                   *)
Reach(h, X)    == Below([a \in DOMAIN h |-> Targets(h, a, Slots(h[a].kind))], X)
Released(h, X) == Below([a \in DOMAIN h |-> Targets(h, a, Freed(h[a].kind))], X)
Copies(h, X)   == Below([a \in DOMAIN h |-> Targets(h, a, Copied(h[a].kind))], X)

(* A node of kind k whose fields hold what `with' says, and nothing else.  *)
Node(k, with) ==
  [kind |-> k, text |-> NULL, slot |-> [s \in Slots(k) |-> IF s \in DOMAIN with THEN with[s] ELSE NULL]]

(* ast_new and the parser: the source fields of the node are filled, s0    *)
(* with r and the others with leaves; the back-filled ones are NULL.       *)
ast_new(n, k, s0, r) ==
  LET own  == Slots(k) \ (BackFilled(k) \cup {s0})
      with == [s \in own \cup {s0} |-> IF s = s0 THEN r ELSE <<n, s>>]
  IN [a \in {<<n, "">>} \cup {<<n, s>> : s \in own} |-> IF a = <<n, "">> THEN Node(k, with) ELSE Leaf(a)]

(* ast_clone_deep: copy the allocation, deep-copy the Copied slots, drop   *)
(* the Cleared ones; any other slot keeps the pointer of the source.       *)
CloneSlot(n, k, s, c) ==
  IF s \in Lookup(Cleared, k) \/ c = NULL THEN NULL ELSE IF s \in Copied(k) THEN <<n, c>> ELSE c

CloneCell(n, x) == With(x, [s \in DOMAIN x.slot |-> CloneSlot(n, x.kind, s, x.slot[s])])

clone(h, n, a) == [b \in {<<n, c>> : c \in Copies(h, {a})} |-> CloneCell(n, h[b[2]])]

(* The source texts of a tree.  What a loop was desugared to holds copies. *)
SourceSlots(k) == IF k = "AST_FOR" THEN Slots(k) \ {"desugared"} ELSE Slots(k)
Sources(h, X)  == Below([a \in DOMAIN h |-> Targets(h, a, SourceSlots(h[a].kind))], X)
TextsOf(h, a)  == {h[b].text : b \in Sources(h, {a})} \ {NULL}

(* Trees handed to ast_clone_deep: no declaration and, unless CheckedAgain,*)
(* no operator the checker has already lowered.                            *)
Cloneable(a) ==
  \A b \in Reach(heap, {a}) :
    /\ heap[b].kind \notin NotCloned
    /\ heap[b].kind = "AST_BINARY" => heap[b].slot["lowered"] = NULL \/ CheckedAgain

-----------------------------------------------------------------------------
Init == heap = <<>> /\ clock = 1 /\ freed = {} /\ twice = FALSE /\ lossy = FALSE /\ roots = {} /\ steps = 0

Built(g, n) == heap' = Grow(heap, g) /\ clock' = clock + n

Annotated == steps < MaxSteps /\ steps' = steps + 1

(* The parser builds a node, then another one around it.                   *)
BuildInner ==
  /\ heap = <<>>
  /\ \E k \in InnerKinds : Built(ast_new(clock, k, "", NULL), 1)
  /\ roots' = {<<clock, "">>}
  /\ UNCHANGED <<freed, twice, lossy, steps>>

BuildOuter ==
  /\ steps = 0 /\ freed = {}
  /\ \E r \in roots, k \in OuterKinds :
       /\ heap[r].kind \in InnerKinds \ NotCloned /\ k \notin InnerKinds
       /\ \E s \in Slots(k) \ BackFilled(k) : Built(ast_new(clock, k, s, r), 1)
       /\ roots' = (roots \ {r}) \cup {<<clock, "">>}
  /\ UNCHANGED <<freed, twice, lossy, steps>>

(* Instantiation and comptime unrolling clone a subtree.                   *)
Clone(a) ==
  /\ Cloneable(a)
  /\ Annotated /\ Built(clone(heap, clock, a), 1)
  /\ roots' = roots \cup {<<clock, a>>}
  /\ lossy' = (lossy \/ TextsOf(heap', <<clock, a>>) /= TextsOf(heap, a))
  /\ UNCHANGED <<freed, twice>>

(* The allocation a with its fields set as `with' says.                    *)
Refill(a, with) ==
  [b \in {a} |-> With(heap[a], [s \in DOMAIN heap[a].slot |-> IF s \in DOMAIN with THEN with[s] ELSE heap[a].slot[s]])]

(* The checker fills in a computed field of a tree.                        *)
Annotate(a, s) ==
  /\ s \in BackFilled(heap[a].kind) \ {"lowered", "desugared"} /\ heap[a].slot[s] = NULL
  /\ Annotated
  /\ Built(Grow([b \in {<<clock, "">>} |-> Leaf(NULL)], Refill(a, [f \in {s} |-> <<clock, "">>])), 1)
  /\ UNCHANGED <<freed, twice, lossy, roots>>

(* try_operator_overload: left.$op(right) takes over both operands, which  *)
(* the binary node gives up.  If it fails to check it is freed.            *)
Lower(a, ok) ==
  /\ heap[a].kind = "AST_BINARY" /\ heap[a].slot["left"] /= NULL
  /\ Annotated
  /\ LET field == <<clock, "field">>
         call  == <<clock, "call">>
         made  == [b \in {field, call} |->
                     IF b = field THEN Node("AST_FIELD", [object |-> heap[a].slot["left"]])
                     ELSE Node("AST_CALL", [callee |-> field, args |-> heap[a].slot["right"]])]
     IN /\ Built(Grow(made, Refill(a, [left |-> NULL, right |-> NULL, lowered |-> IF ok THEN call ELSE NULL])), 1)
        /\ freed' = IF ok THEN freed ELSE freed \cup Released(heap', {call})
  /\ UNCHANGED <<twice, lossy, roots>>

(* build_foreach_desugar: the loop over the iterator protocol is built from*)
(* clones of the iterable, already checked, and of the body, not yet.      *)
(* Outside CheckedAgain it happens once per loop.                          *)
Desugar(a) ==
  LET iter == heap[a].slot["iter"]
      body == heap[a].slot["body"]
      whl  == <<clock + 2, "">>
      loop == [b \in {whl} |-> Node("AST_WHILE", [cond |-> <<clock, iter>>, body |-> <<clock + 1, body>>])]
      made == Grow(Grow(clone(heap, clock, iter), clone(heap, clock + 1, body)), loop)
  IN /\ heap[a].kind = "AST_FOR"
     /\ heap[a].slot["desugared"] = NULL \/ CheckedAgain
     /\ Cloneable(iter) /\ Cloneable(body)
     /\ Annotated /\ Built(Grow(made, Refill(a, [desugared |-> whl])), 3)
     /\ lossy' = (\/ lossy \/ TextsOf(heap', <<clock, iter>>) /= TextsOf(heap, iter)
                  \/ TextsOf(heap', <<clock + 1, body>>) /= TextsOf(heap, body))
     /\ UNCHANGED <<freed, twice, roots>>

(* ast_free of a tree that is no longer needed.                            *)
Free(a) ==
  /\ twice' = (twice \/ Released(heap, {a}) \cap freed /= {})
  /\ freed' = freed \cup Released(heap, {a})
  /\ roots' = roots \ {a}
  /\ UNCHANGED <<heap, clock, lossy, steps>>

Held == Reach(heap, roots)
Nodes == {a \in Held : heap[a].kind /= "leaf"}

Next == \/ BuildInner \/ BuildOuter
        \/ \E a \in Nodes \ freed : \/ Clone(a)
                                  \/ \E s \in DOMAIN heap[a].slot : Annotate(a, s)
                                  \/ \E ok \in BOOLEAN : Lower(a, ok)
                                  \/ Desugar(a)
        \/ \E r \in roots : Free(r)

Spec == Init /\ [][Next]_vars

-----------------------------------------------------------------------------
(* A clone shares nothing with its source: however trees are built, cloned,*)
(* annotated and freed, no tree still held reaches freed memory and        *)
(* ast_free releases each allocation no tree holds, and never twice.       *)
FreedOnce == ~twice /\ Held \cap freed = {} /\ DOMAIN heap \subseteq Held \cup freed

(* A clone is complete: it carries every name, literal and type the source *)
(* carries, so that checking it again rebuilds what was left out (the      *)
(* header of ast_clone_deep).                                              *)
CloneComplete == ~lossy
=============================================================================
