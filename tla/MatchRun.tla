------------------------------ MODULE MatchRun ------------------------------
(***************************************************************************)
(* Runs the code of MatchCode.  A value is [v, o]: the variant (0 for a    *)
(* struct) and the heap object it owns (0 for none, -1 never written).     *)
(* Calls choose the variant they return, branches and loops choose their   *)
(* way, so every path of the emitted code is taken.                        *)
(***************************************************************************)
EXTENDS MatchCode, Integers

CONSTANTS
    Functions_,  \* the function bodies to compile
    MaxIter      \* bound: iterations of loops in one run

ASSUME MatchRunAssumption == MaxIter \in Nat

VARIABLES
    fn,      \* the body being run
    k,       \* instructions still to run; loops leave "again" and "end"
    reg,     \* slots and registers
    set,     \* moved flags that are set
    heap,    \* objects by number: "live" or "freed"
    iters,   \* iterations taken
    fault,   \* what the memory checker would report
    result   \* the object returned, -1 while running, -2 after an abort,
             \* -3 before it is compiled

vars == <<fn, k, reg, set, heap, iters, fault, result>>

Null == [v |-> 0, o |-> 0]
Undef == [v |-> 0, o |-> -1]

MatchInit ==
    /\ fn \in Functions_
    /\ k = <<>> /\ reg = <<>>
    /\ set = {} /\ heap = <<>> /\ iters = 0 /\ fault = {} /\ result = -3

Compile ==
    /\ result = -3
    /\ \E c \in {codegen_fn(fn)} :
          /\ k' = c.code
          /\ reg' = [r \in 1 .. c.n |-> IF r \in c.entry THEN Null ELSE Undef]
    /\ result' = -1
    /\ UNCHANGED <<fn, set, heap, iters, fault>>

I == Head(k)
Goes(ins) == k # <<>> /\ I.i = ins
Next1 == k' = Tail(k)
Reads(r) == IF reg[r].o = -1 THEN {"uninitialised"}
            ELSE IF reg[r].o > 0 /\ heap[reg[r].o] = "freed" THEN {"use_after_free"} ELSE {}

Copy ==
    /\ Goes("mov") \/ Goes("null")
    /\ reg' = [reg EXCEPT ![I.d] = IF I.i = "null" THEN Null ELSE reg[I.s]]
    /\ Next1 /\ UNCHANGED <<fn, set, heap, iters, fault, result>>

Alloc ==
    /\ Goes("new") \/ Goes("new_enum")
    /\ heap' = Append(heap, "live")
    /\ \E v \in (IF I.i = "new" THEN {0} ELSE {1, 2}) :
         reg' = [reg EXCEPT ![I.d] = [v |-> v, o |-> Len(heap) + 1]]
    /\ Next1 /\ UNCHANGED <<fn, set, iters, fault, result>>

Clone ==
    /\ Goes("clone")
    /\ fault' = fault \union Reads(I.s)
    /\ IF reg[I.s].o <= 0
       THEN reg' = [reg EXCEPT ![I.d] = reg[I.s]] /\ UNCHANGED heap
       ELSE /\ heap' = Append(heap, "live")
            /\ reg' = [reg EXCEPT ![I.d] = [reg[I.s] EXCEPT !.o = Len(heap) + 1]]
    /\ Next1 /\ UNCHANGED <<fn, set, iters, result>>

Use ==
    /\ Goes("use")
    /\ fault' = IF I.s = 0 THEN fault ELSE fault \union Reads(I.s)
    /\ Next1 /\ UNCHANGED <<fn, reg, set, heap, iters, result>>

Repack ==
    /\ Goes("pack") \/ Goes("payload")
    /\ reg' = [reg EXCEPT ![I.d] =
         [v |-> IF I.i = "pack" THEN I.v ELSE 0, o |-> IF I.s = 0 THEN 0 ELSE reg[I.s].o]]
    /\ Next1 /\ UNCHANGED <<fn, set, heap, iters, fault, result>>

Flag ==
    /\ Goes("flag")
    /\ set' = IF I.v THEN set \union {I.f} ELSE set \ {I.f}
    /\ Next1 /\ UNCHANGED <<fn, reg, heap, iters, fault, result>>

Drop ==
    /\ Goes("drop")
    /\ LET o == reg[I.s].o
       IN CASE I.f \in set -> UNCHANGED <<heap, fault>>
            [] o = 0 /\ I.f \notin set -> UNCHANGED <<heap, fault>>
            [] o = -1 /\ I.f \notin set ->
                 fault' = fault \union {"uninitialised"} /\ UNCHANGED heap
            [] o > 0 /\ I.f \notin set /\ heap[o] = "freed" ->
                 fault' = fault \union {"double_free"} /\ UNCHANGED heap
            [] OTHER -> heap' = [heap EXCEPT ![o] = "freed"] /\ UNCHANGED fault
    /\ Next1 /\ UNCHANGED <<fn, reg, set, iters, result>>

Case(cases, v) ==
    LET at == SelectSeq(cases, LAMBDA x : x.v = v)
        any == SelectSeq(cases, LAMBDA x : x.v = 0)
    IN IF at # <<>> THEN at[1].code ELSE any[1].code

Branch ==
    /\ \/ Goes("switch") /\ k' = Case(I.cases, reg[I.s].v) \o Tail(k)
       \/ Goes("if") /\ \E b \in {I.t, I.e} : k' = b \o Tail(k)
    /\ UNCHANGED <<fn, reg, set, heap, iters, fault, result>>

(* loop: condition, then a choice; "again" and "end" mark where continue   *)
(* and break go. *)
Loop ==
    /\ Goes("loop") \/ Goes("again")
    /\ LET rest == IF I.i = "loop" THEN <<[i |-> "end"]>> \o Tail(k) ELSE Tail(k)
           again == [I EXCEPT !.i = "again"]
       IN \/ k' = I.c \o rest /\ UNCHANGED iters
          \/ iters < MaxIter /\ iters' = iters + 1 /\ k' = I.c \o I.b \o <<again>> \o rest
    /\ UNCHANGED <<fn, reg, set, heap, fault, result>>

LoopEnd == Goes("end") /\ Next1 /\ UNCHANGED <<fn, reg, set, heap, iters, fault, result>>

Jump ==
    /\ Goes("br")
    /\ LET at == {j \in DOMAIN k : k[j].i = IF I.to = "break" THEN "end" ELSE "again"}
           first == CHOOSE j \in at : \A h \in at : j <= h
       IN k' = SubSeq(k, first, Len(k))
    /\ UNCHANGED <<fn, reg, set, heap, iters, fault, result>>

Return ==
    /\ Goes("ret") \/ Goes("exit")
    /\ k' = <<>>
    /\ result' = IF I.i = "exit" THEN -2 ELSE IF I.s = 0 THEN 0 ELSE reg[I.s].o
    /\ fault' = IF I.i = "exit" \/ I.s = 0 THEN fault ELSE fault \union Reads(I.s)
    /\ UNCHANGED <<fn, reg, set, heap, iters>>

MatchNext ==
    Compile \/ Copy \/ Alloc \/ Clone \/ Use \/ Repack \/ Flag \/ Drop \/ Branch \/ Loop \/ LoopEnd
    \/ Jump \/ Return

-----------------------------------------------------------------------------
(* No path of the emitted code drops a value twice, drops or reads a slot  *)
(* that holds nothing, or uses a value after its drop: subjects, binders,  *)
(* arm results and the temporaries of the ledger together. *)
DropsOnce == fault = {}

(* Whenever the function returns, by falling off its end, by a return in   *)
(* an arm, or by a failing try, only the value it returns is still alive. *)
NoTempLeak ==
    result >= 0 => \A o \in DOMAIN heap : heap[o] = "freed" \/ o = result
=============================================================================
