----------------------------- MODULE RingProofs -----------------------------
(***************************************************************************)
(* Machine-checked proofs about std.sync.ring, for every set of threads,   *)
(* every capacity and every number of calls, in both modes and on the      *)
(* memory model of Ring: which indices the cursors hand out and to whom    *)
(* (Control), then what threads know of each other's accesses (Sync) and   *)
(* what the slots hold (Contents), and from these that the ring implements *)
(* the bounded FIFO queue.                                                 *)
(***************************************************************************)
EXTENDS Ring, FiniteSetTheorems, SequenceTheorems, WellFoundedInduction, TLAPS

-----------------------------------------------------------------------------
(* The inductive invariant, in named parts. *)

Enqueuing == {"e_head", "e_check", "e_cas", "e_write", "e_wait", "e_publish"}
Dequeuing == {"d_head", "d_check", "d_cas", "d_take", "d_wait", "d_publish"}

\* Labels at which a thread holds the index loc[t].
Reserving == {"e_write", "e_wait", "e_publish"}
Taking    == {"d_take", "d_wait", "d_publish"}

\* What enqueue stores is told apart by thread and call.
Elements == Threads \X (1 .. MaxCalls)
Facts    == (Cursors \cup {"write", "take"}) \X Nat

\* Types of all variables.
TypeOK ==
    /\ cap \in Nat \ {0} /\ multi \in BOOLEAN
    /\ producers \in SUBSET Threads /\ consumers \in SUBSET Threads
    /\ cur \in [Cursors -> Indices]
    /\ msg \in [Cursors -> [Indices -> SUBSET Facts]]
    /\ data \in [0 .. cap - 1 -> Elements \cup {None}]
    /\ pc \in [Threads -> {"idle"} \cup Enqueuing \cup Dequeuing]
    /\ loc \in [Threads -> Indices]
    /\ calls \in [Threads -> 0 .. MaxCalls]
    /\ view \in [Threads -> SUBSET Facts]
    /\ item \in [Indices -> Elements \cup {None}]
    /\ got \in [Indices -> Elements \cup {None}]
    /\ owed \in SUBSET (Elements \cup {None})
    /\ race \in BOOLEAN

\* One producer and one consumer without the mode flags, and no label of the
\* reservation loops.
Modes ==
    ~multi =>
        /\ \A s, t \in producers : s = t
        /\ \A s, t \in consumers : s = t
        /\ \A t \in Threads :
              /\ pc[t] \in Enqueuing => t \in producers /\ pc[t] \in {"e_check", "e_write", "e_publish"}
              /\ pc[t] \in Dequeuing => t \in consumers /\ pc[t] \in {"d_check", "d_take", "d_publish"}

\* Order of the cursors: never more than cap elements between the tails.
Order ==
    /\ cur["cons_tail"] <= cur["prod_tail"]
    /\ cur["prod_tail"] <= cur["cons_tail"] + cap
    /\ multi => /\ cur["cons_tail"] <= cur["cons_head"] /\ cur["cons_head"] <= cur["prod_tail"]
                /\ cur["prod_tail"] <= cur["prod_head"] /\ cur["prod_head"] <= cur["cons_tail"] + cap

\* The index a thread works on, and that no other thread works on it.
Producing(t) ==
    /\ pc[t] \in Enqueuing \ {"e_head"} =>
          IF multi THEN loc[t] <= cur["prod_head"] ELSE loc[t] = cur["prod_tail"]
    /\ pc[t] = "e_cas" => loc[t] < cur["cons_tail"] + cap
    /\ pc[t] \in Reserving =>
          /\ cur["prod_tail"] <= loc[t] /\ loc[t] < cur["cons_tail"] + cap
          /\ multi => loc[t] < cur["prod_head"]
    /\ pc[t] = "e_publish" => loc[t] = cur["prod_tail"]

Consuming(t) ==
    /\ pc[t] \in Dequeuing \ {"d_head"} =>
          IF multi THEN loc[t] <= cur["cons_head"] ELSE loc[t] = cur["cons_tail"]
    /\ pc[t] = "d_cas" => loc[t] < cur["prod_tail"]
    /\ pc[t] \in Taking =>
          /\ cur["cons_tail"] <= loc[t] /\ loc[t] < cur["prod_tail"]
          /\ multi => loc[t] < cur["cons_head"]
    /\ pc[t] = "d_publish" => loc[t] = cur["cons_tail"]

Exclusive ==
    \A s, t \in Threads : s # t =>
        /\ pc[s] \in Reserving /\ pc[t] \in Reserving => loc[s] # loc[t]
        /\ pc[s] \in Taking /\ pc[t] \in Taking => loc[s] # loc[t]

\* A single producer (consumer) knows the cursor only it writes.
OwnCursor ==
    ~multi =>
        /\ \A t \in producers : cur["prod_tail"] = 0 \/ <<"prod_tail", cur["prod_tail"]>> \in view[t]
        /\ \A t \in consumers : cur["cons_tail"] = 0 \/ <<"cons_tail", cur["cons_tail"]>> \in view[t]

\* Indices handed out so far.
Issued ==
    IF multi THEN cur["prod_head"]
    ELSE IF \E t \in Threads : pc[t] \in Reserving THEN cur["prod_tail"] + 1
    ELSE cur["prod_tail"]

Written(k) == k < cur["prod_tail"] \/ \E t \in Threads : pc[t] \in {"e_wait", "e_publish"} /\ loc[t] = k
Taken(k)   == k < cur["cons_tail"] \/ \E t \in Threads : pc[t] \in {"d_wait", "d_publish"} /\ loc[t] = k

\* f names the element of each index handed out: all different, each of a
\* call that was made, so there are never more indices than calls.
Stamps(f) ==
    /\ f \in [0 .. Issued - 1 -> Elements]
    /\ \A j, k \in 0 .. Issued - 1 : j # k => f[j] # f[k]
    /\ \A k \in 0 .. Issued - 1 : f[k][2] <= calls[f[k][1]]
    /\ \A k \in 0 .. Issued - 1 : Written(k) => item[k] = f[k]
    /\ \A t \in Threads : pc[t] \in Reserving => f[loc[t]] = <<t, calls[t]>>
    /\ \A t \in Threads : pc[t] \in {"e_head", "e_check", "e_cas"} =>
          calls[t] > 0 /\ \A k \in 0 .. Issued - 1 : f[k] # <<t, calls[t]>>

Stamped == \E f \in [0 .. Issued - 1 -> Elements] : Stamps(f)

Control ==
    /\ TypeOK /\ Modes /\ Order /\ Exclusive /\ OwnCursor /\ Stamped
    /\ \A t \in Threads : Producing(t) /\ Consuming(t)

\* A view that knows a tail knows the accesses to the slots behind it.
Closed(V) ==
    /\ \A v \in Nat : <<"prod_tail", v>> \in V => \A j \in 0 .. v - 1 : <<"write", j>> \in V
    /\ \A v \in Nat : <<"cons_tail", v>> \in V => \A j \in 0 .. v - 1 : <<"take", j>> \in V

Views ==
    /\ \A t \in Threads : Closed(view[t])
    /\ \A c \in Cursors, v \in Indices : Closed(msg[c][v])
    /\ \A v \in 1 .. cur["prod_tail"] : <<"prod_tail", v>> \in msg["prod_tail"][v]
    /\ \A v \in 1 .. cur["cons_tail"] : <<"cons_tail", v>> \in msg["cons_tail"][v]

Knows(t) ==
    /\ pc[t] \in {"e_cas", "e_write"} /\ loc[t] >= cap => <<"take", loc[t] - cap>> \in view[t]
    /\ pc[t] \in {"e_wait", "e_publish"} => <<"write", loc[t]>> \in view[t]
    /\ (~multi /\ pc[t] \in Enqueuing) \/ pc[t] = "e_publish" => <<"prod_tail", loc[t]>> \in view[t]
    /\ pc[t] \in {"d_cas", "d_take"} => <<"write", loc[t]>> \in view[t]
    /\ pc[t] \in {"d_wait", "d_publish"} => <<"take", loc[t]>> \in view[t]
    /\ (~multi /\ pc[t] \in Dequeuing) \/ pc[t] = "d_publish" => <<"cons_tail", loc[t]>> \in view[t]

Sync == Views /\ (\A t \in Threads : Knows(t)) /\ ~race

Contents ==
    /\ \A k \in Indices : Written(k) /\ ~Taken(k) => data[k % cap] = item[k]
    /\ \A k \in Indices : got[k] # None => Taken(k)
    /\ \A k \in Indices : Taken(k) => got[k] = item[k]
    /\ owed = {item[k] : k \in {i \in Indices : Written(i) /\ ~Taken(i)}}

IInv == Control /\ Sync /\ Contents

-----------------------------------------------------------------------------
(* Numbers and sets. *)

\* Division with remainder, as the provers need it.
LEMMA DivMod ==
    ASSUME NEW c \in Nat \ {0}, NEW j \in Nat
    PROVE  \E q \in Int : j = c * q + (j % c) /\ j % c \in 0 .. c - 1
<1>1. j % c \in 0 .. c - 1
  BY SMT
<1>2. j \div c \in Int
  BY SMT
<1>3. j = c * (j \div c) + (j % c)
  BY SMT
<1> QED
  BY <1>1, <1>2, <1>3, Zenon

\* A positive multiple of c is at least c.
LEMMA Multiple ==
    ASSUME NEW c \in Nat \ {0}, NEW d \in Int, c * d > 0
    PROVE  c * d >= c
<1>1. CASE d <= 0
  BY <1>1, SMT
<1>2. CASE d >= 1
  BY <1>2, SMT
<1> QED
  BY <1>1, <1>2

\* Two indices less than a turn apart use different slots.
LEMMA SlotsDiffer ==
    ASSUME NEW c \in Nat \ {0}, NEW j \in Nat, NEW k \in Nat, j < k, k < j + c
    PROVE  j % c # k % c
<1> SUFFICES ASSUME j % c = k % c PROVE FALSE
  OBVIOUS
<1>1. PICK p \in Int : j = c * p + (j % c) /\ j % c \in 0 .. c - 1
  BY DivMod
<1>2. PICK q \in Int : k = c * q + (k % c)
  BY DivMod
<1>3. c * (q - p) = k - j
  BY <1>1, <1>2, SMT
<1>4. c * (q - p) >= c
  BY <1>3, Multiple
<1> QED
  BY <1>3, <1>4

\* A bounded set of naturals has a maximum.
LEMMA MaxIsLargest ==
    ASSUME NEW S \in SUBSET Nat, NEW n \in Nat, \A s \in S : s <= n, S # {}
    PROVE  Max(S) \in S /\ \A y \in S : y <= Max(S)
<1> DEFINE U == {u \in Nat : \A s \in S : s <= u}
<1>1. U # {} /\ U \subseteq Nat
  OBVIOUS
<1>2. \E u \in U : \A y \in U : ~(<<y, u>> \in OpToRel(<, Nat))
  BY <1>1, WFMin, NatLessThanWellFounded, Zenon
<1>3. PICK u \in U : \A y \in U : ~ (y < u)
  BY <1>2 DEF OpToRel
<1>4. u \in S
  <2> SUFFICES ASSUME u \notin S PROVE FALSE
    OBVIOUS
  <2>1. CASE u = 0
    <3>1. PICK s \in S : s <= u
      BY <1>1
    <3> QED
      BY <2>1, <3>1
  <2>2. CASE u # 0
    <3>1. u - 1 \in U
      BY <2>2
    <3> QED
      BY <3>1, <1>3
  <2> QED
    BY <2>1, <2>2
<1>5. \E x \in S : \A y \in S : x >= y
  BY <1>4
<1>6. Max(S) \in S /\ \A y \in S : Max(S) >= y
  BY <1>5 DEF Max
<1> QED
  BY <1>6

\* Indices is a finite interval that starts at 0.
LEMMA IndexRange ==
    /\ Cardinality(Threads) * MaxCalls \in Nat
    /\ Indices \in SUBSET Nat /\ 0 \in Indices
    /\ \A i \in Indices : \A j \in Nat : j <= i => j \in Indices
<1>1. Cardinality(Threads) \in Nat
  BY RingAssumption, FS_CardinalityType
<1>2. Cardinality(Threads) * MaxCalls \in Nat
  BY <1>1, RingAssumption
<1> QED
  BY <1>2 DEF Indices

\* A view that knows value x of cursor c yields loads no older than x.
LEMMA KnownAtLeast ==
    ASSUME NEW V, NEW c, NEW x \in Indices, x = 0 \/ <<c, x>> \in V
    PROVE  Known(V, c) \in Nat /\ x <= Known(V, c)
<1> DEFINE S == {0} \cup {v \in Indices : <<c, v>> \in V}
<1>1. S \in SUBSET Nat /\ S # {} /\ x \in S
  BY IndexRange
<1>2. \A s \in S : s <= Cardinality(Threads) * MaxCalls
  BY IndexRange DEF Indices
<1> HIDE DEF S
<1>3. Max(S) \in S /\ x <= Max(S)
  BY <1>1, <1>2, IndexRange, MaxIsLargest
<1> QED
  BY <1>1, <1>3 DEF Known, S

\* As many different elements as indices: indices stay within the calls.
LEMMA EnoughIndices ==
    ASSUME NEW n \in Nat, NEW f \in [0 .. n - 1 -> Elements],
           \A j, k \in 0 .. n - 1 : j # k => f[j] # f[k]
    PROVE  n \in Indices
<1>1. IsFiniteSet(1 .. MaxCalls) /\ Cardinality(1 .. MaxCalls) = MaxCalls
  BY RingAssumption, FS_Interval
<1>2. IsFiniteSet(Elements) /\ Cardinality(Elements) = Cardinality(Threads) * MaxCalls
  BY <1>1, RingAssumption, FS_Product DEF Elements
<1>3. f \in Injection(0 .. n - 1, Elements)
  BY DEF Injection, IsInjective
<1>4. Cardinality(0 .. n - 1) <= Cardinality(Elements)
  BY <1>2, <1>3, FS_Injection
<1>5. Cardinality(0 .. n - 1) = n
  BY FS_Interval
<1> QED
  BY <1>2, <1>4, <1>5, IndexRange DEF Indices

-----------------------------------------------------------------------------
(* Stamps through steps that hand out no index, one index, or start over. *)

\* Issued in single-producer mode, by the state of the producer.
LEMMA IssuedCases ==
    ASSUME TypeOK
    PROVE  /\ Issued \in Nat
           /\ multi => Issued = cur["prod_head"]
           /\ ~multi /\ (\E t \in Threads : pc[t] \in Reserving) => Issued = cur["prod_tail"] + 1
           /\ ~multi /\ (\A t \in Threads : pc[t] \notin Reserving) => Issued = cur["prod_tail"]
<1>1. cur["prod_head"] \in Nat /\ cur["prod_tail"] \in Nat
  BY IndexRange DEF TypeOK, Cursors
<1>2. CASE multi
  BY <1>1, <1>2 DEF Issued
<1>3. CASE ~multi
  BY <1>1, <1>3 DEF Issued
<1> QED
  BY <1>2, <1>3

\* A step that hands out no index keeps the stamps: who held an index holds
\* it, who starts a call has a new one, and what is written is the stamp.
LEMMA StampedKept ==
    ASSUME TypeOK, Stamped, calls' \in [Threads -> 0 .. MaxCalls], Issued' = Issued,
           \A t \in Threads : calls[t] <= calls'[t],
           \A t \in Threads : pc[t] \in Reserving => loc[t] \in 0 .. Issued - 1,
           \A t \in Threads : pc'[t] \in Reserving =>
               pc[t] \in Reserving /\ loc'[t] = loc[t] /\ calls'[t] = calls[t],
           \A t \in Threads : pc'[t] \in {"e_head", "e_check", "e_cas"} =>
               \/ pc[t] \in {"e_head", "e_check", "e_cas"} /\ calls'[t] = calls[t]
               \/ calls'[t] = calls[t] + 1,
           \A k \in 0 .. Issued - 1 : Written(k)' =>
               \/ Written(k) /\ item'[k] = item[k]
               \/ \E t \in Threads : pc[t] \in Reserving /\ loc[t] = k /\ item'[k] = <<t, calls[t]>>
    PROVE  Stamped'
<1>1. PICK f \in [0 .. Issued - 1 -> Elements] : Stamps(f)
  BY DEF Stamped
<1>2. Issued \in Nat
  BY IssuedCases
<1> USE DEF Stamps
<1>3. \A k \in 0 .. Issued - 1 : f[k] \in Elements /\ f[k][1] \in Threads /\ f[k][2] \in 1 .. MaxCalls
  BY DEF Elements
<1>4. \A k \in 0 .. Issued - 1 : f[k][2] <= calls'[f[k][1]]
  BY <1>1, <1>3, RingAssumption DEF TypeOK
<1>5. \A k \in 0 .. Issued - 1 : Written(k)' => item'[k] = f[k]
  BY <1>1
<1>6. \A t \in Threads : pc'[t] \in Reserving => f[loc'[t]] = <<t, calls'[t]>>
  BY <1>1
<1>7. \A t \in Threads : pc'[t] \in {"e_head", "e_check", "e_cas"} =>
          calls'[t] > 0 /\ \A k \in 0 .. Issued - 1 : f[k] # <<t, calls'[t]>>
  <2> TAKE t \in Threads
  <2> HAVE pc'[t] \in {"e_head", "e_check", "e_cas"}
  <2>1. CASE pc[t] \in {"e_head", "e_check", "e_cas"} /\ calls'[t] = calls[t]
    BY <1>1, <2>1
  <2>2. CASE calls'[t] = calls[t] + 1
    <3>1. calls[t] \in Nat /\ calls'[t] > 0
      BY <2>2, RingAssumption DEF TypeOK
    <3>2. \A k \in 0 .. Issued - 1 : f[k] # <<t, calls'[t]>>
      BY <1>1, <1>3, <2>2, <3>1
    <3> QED
      BY <3>1, <3>2
  <2> QED
    BY <2>1, <2>2
<1>8. Stamps(f)'
  BY <1>1, <1>2, <1>4, <1>5, <1>6, <1>7
<1> QED
  BY <1>8 DEF Stamped

\* Thread t takes the next index.
LEMMA StampedGrows ==
    ASSUME TypeOK, Stamped, Issued' = Issued + 1, calls' = calls, item' = item,
           NEW t \in Threads, pc[t] \in {"e_check", "e_cas"}, loc[t] = Issued, loc' = loc,
           pc' = [pc EXCEPT ![t] = "e_write"], cur'["prod_tail"] = cur["prod_tail"],
           cur["prod_tail"] <= Issued,
           \A s \in Threads : pc[s] \in Reserving => loc[s] \in 0 .. Issued - 1
    PROVE  Stamped' /\ Issued' \in Indices
<1>1. PICK f \in [0 .. Issued - 1 -> Elements] : Stamps(f)
  BY DEF Stamped
<1>2. Issued \in Nat /\ Issued' \in Nat
  BY IssuedCases
<1>n. cur["prod_tail"] \in Nat
  BY IndexRange DEF TypeOK, Cursors
<1> USE DEF Stamps
<1>3. calls[t] \in 1 .. MaxCalls
  BY <1>1, RingAssumption DEF TypeOK
<1>4. <<t, calls[t]>> \in Elements
  BY <1>3 DEF Elements
<1>5. PICK g \in [0 .. Issued' - 1 -> Elements] :
          g = [k \in 0 .. Issued' - 1 |-> IF k = Issued THEN <<t, calls[t]>> ELSE f[k]]
  <2>1. \A k \in 0 .. Issued' - 1 : k # Issued => k \in 0 .. Issued - 1
    BY <1>2
  <2> QED
    BY <1>4, <2>1
<1>6. \A k \in 0 .. Issued - 1 : g[k] = f[k] /\ g[k] # <<t, calls[t]>>
  <2>1. \A k \in 0 .. Issued - 1 : f[k] # <<t, calls[t]>>
    BY <1>1
  <2>2. \A k \in 0 .. Issued - 1 : k \in 0 .. Issued' - 1 /\ k # Issued
    BY <1>2
  <2> QED
    BY <1>5, <2>1, <2>2
<1>7. g[Issued] = <<t, calls[t]>>
  BY <1>2, <1>5
<1>8. \A k \in 0 .. Issued' - 1 : k \in 0 .. Issued - 1 \/ k = Issued
  BY <1>2
<1>9. \A j, k \in 0 .. Issued' - 1 : j # k => g[j] # g[k]
  BY <1>1, <1>6, <1>7, <1>8
<1>10. \A k \in 0 .. Issued' - 1 : g[k][2] <= calls'[g[k][1]]
  BY <1>1, <1>3, <1>6, <1>7, <1>8
<1>11. \A k \in 0 .. Issued' - 1 : Written(k)' => item'[k] = g[k]
  <2> TAKE k \in 0 .. Issued' - 1
  <2> HAVE Written(k)'
  <2>1. Written(k) /\ k # Issued
    <3>1. CASE k < cur["prod_tail"]
      BY <3>1, <1>2, <1>n DEF Written
    <3>2. CASE \E s \in Threads : pc'[s] \in {"e_wait", "e_publish"} /\ loc'[s] = k
      BY <3>2, <1>2 DEF Written, TypeOK, Reserving
    <3> QED
      BY <3>1, <3>2 DEF Written
  <2> QED
    BY <2>1, <1>1, <1>6, <1>8
<1>12. \A s \in Threads : pc'[s] \in Reserving => g[loc'[s]] = <<s, calls'[s]>>
  BY <1>1, <1>6, <1>7 DEF TypeOK, Reserving
<1>13. \A s \in Threads : pc'[s] \in {"e_head", "e_check", "e_cas"} =>
          calls'[s] > 0 /\ \A k \in 0 .. Issued' - 1 : g[k] # <<s, calls'[s]>>
  <2> TAKE s \in Threads
  <2> HAVE pc'[s] \in {"e_head", "e_check", "e_cas"}
  <2>1. s # t /\ pc[s] \in {"e_head", "e_check", "e_cas"}
    BY DEF TypeOK
  <2>2. calls[s] > 0 /\ \A k \in 0 .. Issued - 1 : f[k] # <<s, calls[s]>>
    BY <1>1, <2>1
  <2> QED
    BY <1>6, <1>7, <1>8, <2>1, <2>2
<1>14. Stamps(g)'
  BY <1>5, <1>9, <1>10, <1>11, <1>12, <1>13
<1>15. Issued' \in Indices
  <2> HIDE DEF Stamps
  <2> QED
    BY <1>2, <1>9, EnoughIndices
<1> QED
  BY <1>5, <1>14, <1>15 DEF Stamped

\* Nothing handed out, nobody inside enqueue.
LEMMA StampedEmpty ==
    ASSUME Issued' = 0, \A t \in Threads : pc'[t] = "idle"
    PROVE  Stamped'
<1>1. PICK f : f = [k \in 0 .. Issued' - 1 |-> <<>>]
  OBVIOUS
<1>2. 0 .. Issued' - 1 = {}
  OBVIOUS
<1>3. f \in [0 .. Issued' - 1 -> Elements]
  BY <1>1, <1>2
<1>4. Stamps(f)'
  BY <1>2, <1>3 DEF Stamps, Reserving
<1> QED
  BY <1>3, <1>4 DEF Stamped

-----------------------------------------------------------------------------
(* Control is inductive. *)

\* The initial state.
LEMMA InitControl == Init => Control
<1> SUFFICES ASSUME Init PROVE Control
  OBVIOUS
<1>1. cap \in Nat \ {0}
  BY RingAssumption DEF Init
<1>2. multi \in BOOLEAN /\ producers \in SUBSET Threads /\ consumers \in SUBSET Threads
  BY DEF Init
<1>3. /\ cur \in [Cursors -> Indices] /\ loc \in [Threads -> Indices]
      /\ msg \in [Cursors -> [Indices -> SUBSET Facts]] /\ view \in [Threads -> SUBSET Facts]
  BY IndexRange DEF Init
<1>4. calls \in [Threads -> 0 .. MaxCalls] /\ pc \in [Threads -> {"idle"} \cup Enqueuing \cup Dequeuing]
  BY RingAssumption DEF Init
<1>5. /\ data \in [0 .. cap - 1 -> Elements \cup {None}] /\ item \in [Indices -> Elements \cup {None}]
      /\ got \in [Indices -> Elements \cup {None}] /\ owed \in SUBSET (Elements \cup {None})
      /\ race \in BOOLEAN
  BY DEF Init, Empty
<1>6. TypeOK
  BY <1>1, <1>2, <1>3, <1>4, <1>5 DEF TypeOK
<1>7. \A c \in Cursors : cur[c] = 0
  BY DEF Init
<1>8. \A t \in Threads : pc[t] = "idle"
  BY DEF Init
<1>9. Modes
  BY <1>8 DEF Init, Modes, Enqueuing, Dequeuing
<1>10. Order /\ OwnCursor
  BY <1>1, <1>7 DEF Order, OwnCursor, Cursors
<1>11. Exclusive /\ \A t \in Threads : Producing(t) /\ Consuming(t)
  BY <1>8 DEF Exclusive, Producing, Consuming, Reserving, Taking, Enqueuing, Dequeuing
<1>12. Issued = 0
  BY <1>7, <1>8 DEF Issued, Cursors, Reserving
<1>13. Stamped
  <2>1. PICK f : f = [k \in 0 .. Issued - 1 |-> <<>>]
    OBVIOUS
  <2>2. 0 .. Issued - 1 = {}
    BY <1>12
  <2>3. f \in [0 .. Issued - 1 -> Elements]
    BY <2>1, <2>2
  <2> QED
    BY <1>8, <2>2, <2>3 DEF Stamped, Stamps, Reserving
<1> QED
  BY <1>6, <1>9, <1>10, <1>11, <1>13 DEF Control

\* What a load may return; a thread that knows the current value reads it.
LEMMA LoadRange ==
    ASSUME TypeOK, NEW t \in Threads, NEW c \in Cursors, NEW v \in Loads(t, c)
    PROVE  /\ v \in Indices /\ v \in Nat /\ v <= cur[c]
           /\ cur[c] = 0 \/ <<c, cur[c]>> \in view[t] => v = cur[c]
<1>1. cur[c] \in Indices /\ cur[c] \in Nat
  BY IndexRange DEF TypeOK
<1>2. Known(view[t], c) \in Nat
  BY IndexRange, KnownAtLeast
<1>3. v \in Nat /\ Known(view[t], c) <= v /\ v <= cur[c]
  BY <1>1, <1>2 DEF Loads
<1>4. cur[c] = 0 \/ <<c, cur[c]>> \in view[t] => cur[c] <= Known(view[t], c)
  BY <1>1, KnownAtLeast
<1> QED
  BY <1>1, <1>2, <1>3, <1>4, IndexRange

\* Learning keeps views typed and forgets nothing.
LEMMA ViewGrows ==
    ASSUME TypeOK, NEW t \in Threads, NEW c \in Cursors, NEW v \in Indices,
           Acquire(t, c, v) \/ Relaxed(t, c, v)
    PROVE  /\ view' \in [Threads -> SUBSET Facts]
           /\ \A s \in Threads : view[s] \subseteq view'[s]
           /\ <<c, v>> \in view'[t]
<1>1. <<c, v>> \in Facts /\ msg[c][v] \subseteq Facts
  BY IndexRange DEF TypeOK, Facts
<1>2. PICK W \in SUBSET Facts : view' = [view EXCEPT ![t] = view[t] \cup W] /\ <<c, v>> \in W
  <2>1. CASE Acquire(t, c, v)
    <3>1. msg[c][v] \cup {<<c, v>>} \in SUBSET Facts
      BY <1>1
    <3>2. view' = [view EXCEPT ![t] = view[t] \cup (msg[c][v] \cup {<<c, v>>})]
      BY <2>1 DEF Acquire
    <3> QED
      BY <3>1, <3>2
  <2>2. CASE Relaxed(t, c, v)
    <3>1. {<<c, v>>} \in SUBSET Facts
      BY <1>1
    <3>2. view' = [view EXCEPT ![t] = view[t] \cup {<<c, v>>}]
      BY <2>2 DEF Relaxed
    <3> QED
      BY <3>1, <3>2
  <2> QED
    BY <2>1, <2>2
<1> QED
  BY <1>2 DEF TypeOK

\* Nobody's view shrinks, so a single producer still knows its cursor.
LEMMA OwnCursorKept ==
    ASSUME TypeOK, OwnCursor, cur' = cur, multi' = multi, producers' = producers,
           consumers' = consumers, \A s \in Threads : view[s] \subseteq view'[s]
    PROVE  OwnCursor'
  BY DEF OwnCursor, TypeOK

\* Indices held are below the number issued.
LEMMA HeldIssued ==
    ASSUME Control
    PROVE  /\ \A t \in Threads : pc[t] \in Reserving => loc[t] \in 0 .. Issued - 1
           /\ cur["prod_tail"] <= Issued /\ Issued \in Nat
<1>1. /\ TypeOK /\ Order /\ Issued \in Nat /\ cur["prod_tail"] \in Nat /\ cur["prod_head"] \in Nat
      /\ \A t \in Threads : loc[t] \in Nat
  BY IssuedCases, IndexRange DEF Control, TypeOK, Cursors
<1>2. CASE multi
  BY <1>1, <1>2, IssuedCases DEF Control, Producing, Order
<1>3. CASE ~multi
  <2>1. \A t \in Threads : pc[t] \in Reserving => loc[t] = cur["prod_tail"] /\ Issued = cur["prod_tail"] + 1
    BY <1>1, <1>3, IssuedCases DEF Control, Producing, Reserving, Enqueuing
  <2>2. cur["prod_tail"] <= Issued
    BY <1>1, <1>3 DEF Issued
  <2> QED
    BY <1>1, <2>1, <2>2
<1> QED
  BY <1>2, <1>3

\* enqueue reads its reservation cursor.
LEMMA EnqHeadControl ==
    ASSUME Control, NEW t \in Threads, EnqHead(t)
    PROVE  Control'
<1> DEFINE c == IF multi THEN "prod_head" ELSE "prod_tail"
<1>1. TypeOK /\ c \in Cursors
  BY DEF Control, Cursors
<1>2. PICK v \in Loads(t, c) :
          loc' = [loc EXCEPT ![t] = v] /\ (Acquire(t, c, v) \/ Relaxed(t, c, v))
  BY DEF EnqHead
<1>3. v \in Indices /\ v <= cur[c] /\ (cur[c] = 0 \/ <<c, cur[c]>> \in view[t] => v = cur[c])
  BY <1>1, <1>2, LoadRange
<1>4. view' \in [Threads -> SUBSET Facts] /\ \A s \in Threads : view[s] \subseteq view'[s]
  BY <1>1, <1>2, <1>3, ViewGrows
<1>5. /\ pc' = [pc EXCEPT ![t] = "e_check"] /\ pc[t] \in {"idle", "e_head"}
      /\ UNCHANGED <<cap, multi, producers, consumers, cur, msg, data, item, got, owed, race>>
  BY DEF EnqHead, Goto, config, hist
<1>6. /\ calls' \in [Threads -> 0 .. MaxCalls]
      /\ \A s \in Threads : calls[s] \in Nat
      /\ \A s \in Threads : calls'[s] = calls[s] \/ (s = t /\ calls'[s] = calls[s] + 1)
      /\ pc[t] = "idle" => calls'[t] = calls[t] + 1
  <2>1. CASE pc[t] = "idle" /\ calls[t] < MaxCalls /\ calls' = [calls EXCEPT ![t] = @ + 1]
    BY <2>1, <1>1, RingAssumption DEF TypeOK
  <2>2. CASE pc[t] = "e_head" /\ calls' = calls
    BY <2>2, <1>1, RingAssumption DEF TypeOK
  <2> QED
    BY <2>1, <2>2 DEF EnqHead
<1>7. t \in producers \/ multi
  BY <1>5 DEF EnqHead, Control, Modes, Enqueuing
<1>8. TypeOK'
  BY <1>1, <1>2, <1>3, <1>4, <1>5, <1>6 DEF TypeOK, Enqueuing
<1>9. Modes'
  BY <1>1, <1>5, <1>7 DEF Control, Modes, TypeOK, Enqueuing, Dequeuing
<1>10. Order'
  BY <1>5 DEF Control, Order
<1>11. OwnCursor'
  BY <1>1, <1>4, <1>5, OwnCursorKept DEF Control
<1>12. Exclusive'
  BY <1>1, <1>2, <1>5 DEF Control, Exclusive, TypeOK, Reserving, Taking
<1>13. \A s \in Threads : Producing(s)' /\ Consuming(s)'
  <2> TAKE s \in Threads
  <2>1. CASE s = t
    <3>1. IF multi THEN v <= cur["prod_head"] ELSE v = cur["prod_tail"]
      BY <1>3, <1>7 DEF Control, OwnCursor
    <3> QED
      BY <2>1, <3>1, <1>1, <1>2, <1>5 DEF Producing, Consuming, Reserving, Taking, Enqueuing, Dequeuing, TypeOK
  <2>2. CASE s # t
    BY <2>2, <1>1, <1>2, <1>5 DEF Control, Producing, Consuming, TypeOK
  <2> QED
    BY <2>1, <2>2
<1>14. Stamped'
  <2>1. \A s \in Threads : pc'[s] \in Reserving <=> pc[s] \in Reserving
    BY <1>1, <1>5 DEF TypeOK, Reserving
  <2>2. Issued' = Issued
    BY <1>5, <2>1 DEF Issued
  <2>3. \A k \in 0 .. Issued - 1 : Written(k)' => Written(k) /\ item'[k] = item[k]
    BY <1>1, <1>2, <1>5 DEF TypeOK, Written
  <2>4. \A s \in Threads : calls[s] <= calls'[s]
    BY <1>6
  <2>5. \A s \in Threads : pc'[s] \in Reserving =>
               pc[s] \in Reserving /\ loc'[s] = loc[s] /\ calls'[s] = calls[s]
    BY <1>1, <1>2, <1>5, <1>6 DEF TypeOK, Reserving
  <2>6. \A s \in Threads : pc'[s] \in {"e_head", "e_check", "e_cas"} =>
               \/ pc[s] \in {"e_head", "e_check", "e_cas"} /\ calls'[s] = calls[s]
               \/ calls'[s] = calls[s] + 1
    BY <1>1, <1>5, <1>6 DEF TypeOK
  <2> QED
    BY <1>1, <1>6, <2>2, <2>3, <2>4, <2>5, <2>6, HeldIssued, StampedKept DEF Control
<1> QED
  BY <1>8, <1>9, <1>10, <1>11, <1>12, <1>13, <1>14 DEF Control
\* dequeue reads its reservation cursor.
LEMMA DeqHeadControl ==
    ASSUME Control, NEW t \in Threads, DeqHead(t)
    PROVE  Control'
<1> DEFINE c == IF multi THEN "cons_head" ELSE "cons_tail"
<1>1. TypeOK /\ c \in Cursors
  BY DEF Control, Cursors
<1>2. PICK v \in Loads(t, c) :
          loc' = [loc EXCEPT ![t] = v] /\ (Acquire(t, c, v) \/ Relaxed(t, c, v))
  BY DEF DeqHead
<1>3. v \in Indices /\ v <= cur[c] /\ (cur[c] = 0 \/ <<c, cur[c]>> \in view[t] => v = cur[c])
  BY <1>1, <1>2, LoadRange
<1>4. view' \in [Threads -> SUBSET Facts] /\ \A s \in Threads : view[s] \subseteq view'[s]
  BY <1>1, <1>2, <1>3, ViewGrows
<1>5. /\ pc' = [pc EXCEPT ![t] = "d_check"] /\ pc[t] \in {"idle", "d_head"}
      /\ UNCHANGED <<cap, multi, producers, consumers, cur, msg, data, item, got, owed, race>>
  BY DEF DeqHead, Goto, config, hist
<1>6. /\ calls' \in [Threads -> 0 .. MaxCalls]
      /\ \A s \in Threads : calls[s] \in Nat
      /\ \A s \in Threads : calls'[s] = calls[s] \/ (s = t /\ calls'[s] = calls[s] + 1)
      /\ pc[t] = "idle" => calls'[t] = calls[t] + 1
  <2>1. CASE pc[t] = "idle" /\ calls[t] < MaxCalls /\ calls' = [calls EXCEPT ![t] = @ + 1]
    BY <2>1, <1>1, RingAssumption DEF TypeOK
  <2>2. CASE pc[t] = "d_head" /\ calls' = calls
    BY <2>2, <1>1, RingAssumption DEF TypeOK
  <2> QED
    BY <2>1, <2>2 DEF DeqHead
<1>7. t \in consumers \/ multi
  BY <1>5 DEF DeqHead, Control, Modes, Dequeuing
<1>8. TypeOK'
  BY <1>1, <1>2, <1>3, <1>4, <1>5, <1>6 DEF TypeOK, Dequeuing
<1>9. Modes'
  BY <1>1, <1>5, <1>7 DEF Control, Modes, TypeOK, Enqueuing, Dequeuing
<1>10. Order'
  BY <1>5 DEF Control, Order
<1>11. OwnCursor'
  BY <1>1, <1>4, <1>5, OwnCursorKept DEF Control
<1>12. Exclusive'
  BY <1>1, <1>2, <1>5 DEF Control, Exclusive, TypeOK, Reserving, Taking
<1>13. \A s \in Threads : Producing(s)' /\ Consuming(s)'
  <2> TAKE s \in Threads
  <2>1. CASE s = t
    <3>1. IF multi THEN v <= cur["cons_head"] ELSE v = cur["cons_tail"]
      BY <1>3, <1>7 DEF Control, OwnCursor
    <3> QED
      BY <2>1, <3>1, <1>1, <1>2, <1>5 DEF Producing, Consuming, Reserving, Taking, Enqueuing, Dequeuing, TypeOK
  <2>2. CASE s # t
    BY <2>2, <1>1, <1>2, <1>5 DEF Control, Producing, Consuming, TypeOK
  <2> QED
    BY <2>1, <2>2
<1>14. Stamped'
  <2>1. \A s \in Threads : pc'[s] \in Reserving <=> pc[s] \in Reserving
    BY <1>1, <1>5 DEF TypeOK, Reserving
  <2>2. Issued' = Issued
    BY <1>5, <2>1 DEF Issued
  <2>3. \A k \in 0 .. Issued - 1 : Written(k)' => Written(k) /\ item'[k] = item[k]
    BY <1>1, <1>2, <1>5 DEF TypeOK, Written
  <2>4. \A s \in Threads : calls[s] <= calls'[s]
    BY <1>6
  <2>5. \A s \in Threads : pc'[s] \in Reserving =>
               pc[s] \in Reserving /\ loc'[s] = loc[s] /\ calls'[s] = calls[s]
    BY <1>1, <1>2, <1>5, <1>6 DEF TypeOK, Reserving
  <2>6. \A s \in Threads : pc'[s] \in {"e_head", "e_check", "e_cas"} =>
               \/ pc[s] \in {"e_head", "e_check", "e_cas"} /\ calls'[s] = calls[s]
               \/ calls'[s] = calls[s] + 1
    BY <1>1, <1>5, <1>6 DEF TypeOK
  <2> QED
    BY <1>1, <1>6, <2>2, <2>3, <2>4, <2>5, <2>6, HeldIssued, StampedKept DEF Control
<1> QED
  BY <1>8, <1>9, <1>10, <1>11, <1>12, <1>13, <1>14 DEF Control

\* A step that only moves the control of thread t and lets it learn.
LocalStep(t, l) ==
    /\ pc' = [pc EXCEPT ![t] = l]
    /\ UNCHANGED <<config, cur, msg, data, loc, calls, hist>>
    /\ view' \in [Threads -> SUBSET Facts]
    /\ \A s \in Threads : view[s] \subseteq view'[s]

\* Such a step keeps all of Control but the stamps, when the new label suits
\* the thread's index.
LEMMA LocalControl ==
    ASSUME Control, NEW t \in Threads, NEW l \in {"idle"} \cup Enqueuing \cup Dequeuing,
           LocalStep(t, l),
           ~multi => /\ l \in Enqueuing => t \in producers /\ l \in {"e_check", "e_write", "e_publish"}
                     /\ l \in Dequeuing => t \in consumers /\ l \in {"d_check", "d_take", "d_publish"},
           l \in Reserving => pc[t] \in Reserving \/ ~multi,
           l \in Taking => pc[t] \in Taking \/ ~multi,
           Producing(t)' /\ Consuming(t)'
    PROVE  /\ TypeOK' /\ Modes' /\ Order' /\ Exclusive' /\ OwnCursor'
           /\ \A s \in Threads : Producing(s)' /\ Consuming(s)'
<1>1. TypeOK
  BY DEF Control
<1>2. /\ pc' = [pc EXCEPT ![t] = l] /\ view' \in [Threads -> SUBSET Facts]
      /\ \A s \in Threads : view[s] \subseteq view'[s]
      /\ UNCHANGED <<cap, multi, producers, consumers, cur, msg, data, loc, calls, item, got, owed, race>>
  BY DEF LocalStep, config, hist
<1>3. TypeOK'
  BY <1>1, <1>2 DEF TypeOK
<1>4. Modes'
  BY <1>1, <1>2 DEF Control, Modes, TypeOK
<1>5. Order'
  BY <1>2 DEF Control, Order
<1>6. OwnCursor'
  BY <1>1, <1>2, OwnCursorKept DEF Control
<1>7. Exclusive'
  <2>1. CASE multi
    BY <1>1, <1>2, <2>1 DEF Control, Exclusive, TypeOK
  <2>2. CASE ~multi
    <3>1. \A s \in Threads : pc'[s] \in Reserving => s \in producers
      BY <1>2, <1>4, <2>2 DEF Modes, Reserving, Enqueuing
    <3>2. \A s \in Threads : pc'[s] \in Taking => s \in consumers
      BY <1>2, <1>4, <2>2 DEF Modes, Taking, Dequeuing
    <3> QED
      BY <1>2, <2>2, <3>1, <3>2 DEF Control, Modes, Exclusive
  <2> QED
    BY <2>1, <2>2
<1>8. \A s \in Threads : Producing(s)' /\ Consuming(s)'
  <2> TAKE s \in Threads
  <2>1. CASE s # t
    BY <2>1, <1>1, <1>2 DEF Control, Producing, Consuming, TypeOK
  <2> QED
    BY <2>1
<1> QED
  BY <1>3, <1>4, <1>5, <1>6, <1>7, <1>8

\* It keeps the stamps when it neither takes an index nor returns one.
LEMMA LocalStamps ==
    ASSUME Control, NEW t \in Threads, NEW l, LocalStep(t, l),
           l \in Reserving <=> pc[t] \in Reserving,
           l \in {"e_wait", "e_publish"} => pc[t] \in {"e_wait", "e_publish"},
           l \in {"e_head", "e_check", "e_cas"} => pc[t] \in {"e_head", "e_check", "e_cas"}
    PROVE  Stamped'
<1>1. TypeOK
  BY DEF Control
<1>2. /\ pc' = [pc EXCEPT ![t] = l]
      /\ UNCHANGED <<cap, multi, producers, consumers, cur, loc, calls, item>>
  BY DEF LocalStep, config, hist
<1>3. /\ \A s \in Threads : pc'[s] \in Reserving <=> pc[s] \in Reserving
      /\ \A s \in Threads : pc'[s] \in {"e_head", "e_check", "e_cas"} => pc[s] \in {"e_head", "e_check", "e_cas"}
  BY <1>1, <1>2 DEF TypeOK
<1>4. Issued' = Issued
  BY <1>2, <1>3 DEF Issued
<1>5. \A k \in 0 .. Issued - 1 : Written(k)' => Written(k) /\ item'[k] = item[k]
  BY <1>1, <1>2 DEF TypeOK, Written
<1>6. calls' \in [Threads -> 0 .. MaxCalls] /\ \A s \in Threads : calls[s] <= calls'[s]
  BY <1>1, <1>2, RingAssumption DEF TypeOK
<1> QED
  BY <1>1, <1>2, <1>3, <1>4, <1>5, <1>6, HeldIssued, StampedKept DEF Control

\* enqueue looks for room.
LEMMA EnqCheckControl ==
    ASSUME Control, NEW t \in Threads, EnqCheck(t)
    PROVE  Control'
<1>1. TypeOK /\ pc[t] = "e_check" /\ "cons_tail" \in Cursors
  BY DEF Control, EnqCheck, Cursors
<1>2. PICK ct \in Loads(t, "cons_tail") :
          /\ Acquire(t, "cons_tail", ct)
          /\ Goto(t, IF ~HasRoom(loc[t], ct) THEN "idle" ELSE IF multi THEN "e_cas" ELSE "e_write")
  BY DEF EnqCheck
<1>3. ct \in Indices /\ ct \in Nat /\ ct <= cur["cons_tail"]
  BY <1>1, LoadRange
<1>4. PICK l : /\ l = IF ~HasRoom(loc[t], ct) THEN "idle" ELSE IF multi THEN "e_cas" ELSE "e_write"
               /\ pc' = [pc EXCEPT ![t] = l]
  BY <1>2 DEF Goto
<1>5. LocalStep(t, l)
  BY <1>1, <1>2, <1>3, <1>4, ViewGrows DEF EnqCheck, LocalStep
<1>6. /\ cap \in Nat /\ loc[t] \in Nat /\ cur["cons_tail"] \in Nat /\ cur["prod_tail"] \in Nat
      /\ UNCHANGED <<cap, multi, producers, consumers, cur, loc, calls, item>>
  BY <1>1, IndexRange DEF TypeOK, Cursors, EnqCheck, config, hist
<1>7. l # "idle" => loc[t] < cur["cons_tail"] + cap
  BY <1>3, <1>4, <1>6 DEF HasRoom
<1>8. IF multi THEN loc[t] <= cur["prod_head"] /\ l \in {"idle", "e_cas"}
      ELSE loc[t] = cur["prod_tail"] /\ l \in {"idle", "e_write"} /\ t \in producers
  BY <1>1, <1>4 DEF Control, Producing, Modes, Enqueuing
<1>9. pc'[t] = l /\ pc[t] \notin Reserving
  BY <1>1, <1>4 DEF TypeOK, Reserving
<1>10. Producing(t)' /\ Consuming(t)'
  BY <1>6, <1>7, <1>8, <1>9 DEF Producing, Consuming, Enqueuing, Dequeuing, Reserving, Taking
<1>11. /\ TypeOK' /\ Modes' /\ Order' /\ Exclusive' /\ OwnCursor'
       /\ \A s \in Threads : Producing(s)' /\ Consuming(s)'
  BY <1>5, <1>8, <1>10, LocalControl DEF Enqueuing, Dequeuing, Reserving, Taking
<1>12. Stamped'
  <2>1. CASE l # "e_write"
    BY <1>1, <1>5, <1>8, <2>1, LocalStamps DEF Reserving
  <2>2. CASE l = "e_write"
    <3>1. ~multi
      BY <1>8, <2>2
    <3>2. \A s \in Threads : pc[s] \notin Reserving
      BY <1>8, <1>9, <3>1 DEF Control, Modes, Reserving, Enqueuing
    <3>3. Issued = cur["prod_tail"] /\ Issued' = cur["prod_tail"] + 1
      BY <1>6, <1>9, <2>2, <3>1, <3>2 DEF Issued, Reserving
    <3> QED
      BY <1>1, <1>4, <1>6, <1>8, <2>2, <3>1, <3>3, HeldIssued, StampedGrows DEF Control
  <2> QED
    BY <2>1, <2>2
<1> QED
  BY <1>11, <1>12 DEF Control

\* dequeue looks for an element.
LEMMA DeqCheckControl ==
    ASSUME Control, NEW t \in Threads, DeqCheck(t)
    PROVE  Control'
<1>1. TypeOK /\ pc[t] = "d_check" /\ "prod_tail" \in Cursors
  BY DEF Control, DeqCheck, Cursors
<1>2. PICK pt \in Loads(t, "prod_tail") :
          /\ Acquire(t, "prod_tail", pt)
          /\ Goto(t, IF loc[t] >= pt THEN "idle" ELSE IF multi THEN "d_cas" ELSE "d_take")
  BY DEF DeqCheck
<1>3. pt \in Indices /\ pt \in Nat /\ pt <= cur["prod_tail"]
  BY <1>1, LoadRange
<1>4. PICK l : /\ l = IF loc[t] >= pt THEN "idle" ELSE IF multi THEN "d_cas" ELSE "d_take"
               /\ pc' = [pc EXCEPT ![t] = l]
  BY <1>2 DEF Goto
<1>5. LocalStep(t, l)
  BY <1>1, <1>2, <1>3, <1>4, ViewGrows DEF DeqCheck, LocalStep
<1>6. /\ loc[t] \in Nat /\ cur["cons_tail"] \in Nat /\ cur["prod_tail"] \in Nat
      /\ UNCHANGED <<cap, multi, producers, consumers, cur, loc>>
  BY <1>1, IndexRange DEF TypeOK, Cursors, DeqCheck, config, hist
<1>7. l # "idle" => loc[t] < cur["prod_tail"]
  BY <1>3, <1>4, <1>6
<1>8. IF multi THEN loc[t] <= cur["cons_head"] /\ l \in {"idle", "d_cas"}
      ELSE loc[t] = cur["cons_tail"] /\ l \in {"idle", "d_take"} /\ t \in consumers
  BY <1>1, <1>4 DEF Control, Consuming, Modes, Dequeuing
<1>9. pc'[t] = l
  BY <1>1, <1>4 DEF TypeOK
<1>10. Producing(t)' /\ Consuming(t)'
  BY <1>6, <1>7, <1>8, <1>9 DEF Producing, Consuming, Enqueuing, Dequeuing, Reserving, Taking
<1>11. /\ TypeOK' /\ Modes' /\ Order' /\ Exclusive' /\ OwnCursor'
       /\ \A s \in Threads : Producing(s)' /\ Consuming(s)'
  BY <1>5, <1>8, <1>10, LocalControl DEF Enqueuing, Dequeuing, Reserving, Taking
<1>12. Stamped'
  BY <1>1, <1>5, <1>8, LocalStamps DEF Reserving
<1> QED
  BY <1>11, <1>12 DEF Control

\* A lost race for an index, or the end of a wait for one's predecessors.
LEMMA RetryWaitControl ==
    ASSUME Control, NEW t \in Threads, EnqRetry(t) \/ DeqRetry(t) \/ EnqWait(t) \/ DeqWait(t)
    PROVE  Control'
<1>1. /\ TypeOK /\ Cursors = {"prod_head", "prod_tail", "cons_head", "cons_tail"}
      /\ loc[t] \in Indices /\ loc[t] \in Nat /\ \A c \in Cursors : cur[c] \in Nat
  BY IndexRange DEF Control, TypeOK, Cursors
<1>2. PICK l : /\ LocalStep(t, l)
               /\ \/ pc[t] = "e_cas" /\ l = "e_head"
                  \/ pc[t] = "d_cas" /\ l = "d_head"
                  \/ pc[t] = "e_wait" /\ l = "e_publish" /\ cur["prod_tail"] = loc[t]
                  \/ pc[t] = "d_wait" /\ l = "d_publish" /\ cur["cons_tail"] = loc[t]
  <2>1. CASE EnqRetry(t)
    <3>1. PICK v \in Loads(t, "prod_head") : Acquire(t, "prod_head", v)
      BY <2>1 DEF EnqRetry, CasFails
    <3>2. v \in Indices
      BY <1>1, LoadRange
    <3>3. LocalStep(t, "e_head")
      BY <1>1, <2>1, <3>1, <3>2, ViewGrows DEF EnqRetry, Goto, LocalStep
    <3> QED
      BY <2>1, <3>3 DEF EnqRetry
  <2>2. CASE DeqRetry(t)
    <3>1. PICK v \in Loads(t, "cons_head") : Acquire(t, "cons_head", v)
      BY <2>2 DEF DeqRetry, CasFails
    <3>2. v \in Indices
      BY <1>1, LoadRange
    <3>3. LocalStep(t, "d_head")
      BY <1>1, <2>2, <3>1, <3>2, ViewGrows DEF DeqRetry, Goto, LocalStep
    <3> QED
      BY <2>2, <3>3 DEF DeqRetry
  <2>3. CASE EnqWait(t)
    <3>1. LocalStep(t, "e_publish")
      BY <1>1, <2>3, ViewGrows DEF EnqWait, Goto, LocalStep
    <3> QED
      BY <2>3, <3>1 DEF EnqWait
  <2>4. CASE DeqWait(t)
    <3>1. LocalStep(t, "d_publish")
      BY <1>1, <2>4, ViewGrows DEF DeqWait, Goto, LocalStep
    <3> QED
      BY <2>4, <3>1 DEF DeqWait
  <2> QED
    BY <2>1, <2>2, <2>3, <2>4
<1>4. UNCHANGED <<cap, multi, cur, loc>> /\ pc'[t] = l
  BY <1>1, <1>2 DEF TypeOK, LocalStep, config
<1>5. multi
  BY <1>2 DEF Control, Modes, Enqueuing, Dequeuing
<1>6. Producing(t)' /\ Consuming(t)'
  BY <1>1, <1>2, <1>4 DEF Control, Producing, Consuming, Enqueuing, Dequeuing, Reserving, Taking
<1>7. /\ TypeOK' /\ Modes' /\ Order' /\ Exclusive' /\ OwnCursor'
      /\ \A s \in Threads : Producing(s)' /\ Consuming(s)'
  BY <1>2, <1>5, <1>6, LocalControl DEF Enqueuing, Dequeuing, Reserving, Taking
<1>8. Stamped'
  BY <1>2, LocalStamps DEF Reserving
<1> QED
  BY <1>7, <1>8 DEF Control

\* The slot is written: the stamp becomes the item.
LEMMA EnqWriteControl ==
    ASSUME Control, NEW t \in Threads, EnqWrite(t)
    PROVE  Control'
<1>1. TypeOK /\ pc[t] = "e_write" /\ loc[t] \in Indices /\ loc[t] \in Nat
  BY IndexRange DEF Control, TypeOK, EnqWrite
<1>2. PICK l : l = (IF multi THEN "e_wait" ELSE "e_publish") /\ pc' = [pc EXCEPT ![t] = l]
  BY DEF EnqWrite, Goto
<1>3. /\ UNCHANGED <<cap, multi, producers, consumers, cur, msg, loc, calls, got>>
      /\ item' = [item EXCEPT ![loc[t]] = <<t, calls[t]>>]
  BY DEF EnqWrite, config
<1>4. <<t, calls[t]>> \in Elements
  <2>1. PICK f \in [0 .. Issued - 1 -> Elements] : Stamps(f)
    BY DEF Control, Stamped
  <2>2. f[loc[t]] = <<t, calls[t]>> /\ loc[t] \in 0 .. Issued - 1
    BY <1>1, <2>1, HeldIssued DEF Stamps, Reserving
  <2> QED
    BY <2>2
<1>5. <<"write", loc[t]>> \in Facts
  BY <1>1 DEF Facts
<1>6. TypeOK'
  <2>1. data' \in [0 .. cap - 1 -> Elements \cup {None}] /\ item' \in [Indices -> Elements \cup {None}]
    BY <1>1, <1>3, <1>4 DEF EnqWrite, TypeOK
  <2>2. view' \in [Threads -> SUBSET Facts] /\ owed' \in SUBSET (Elements \cup {None}) /\ race' \in BOOLEAN
    BY <1>1, <1>4, <1>5 DEF EnqWrite, TypeOK
  <2>3. pc' \in [Threads -> {"idle"} \cup Enqueuing \cup Dequeuing]
    BY <1>1, <1>2 DEF TypeOK, Enqueuing
  <2> QED
    BY <1>1, <1>3, <2>1, <2>2, <2>3 DEF TypeOK
<1>7. Modes'
  BY <1>1, <1>2, <1>3 DEF Control, Modes, TypeOK, Enqueuing, Dequeuing
<1>8. Order'
  BY <1>3 DEF Control, Order
<1>9. OwnCursor'
  <2>1. \A s \in Threads : view[s] \subseteq view'[s]
    BY <1>1 DEF EnqWrite, TypeOK
  <2> QED
    BY <1>1, <1>3, <2>1, OwnCursorKept DEF Control
<1>10. Exclusive'
  BY <1>1, <1>2, <1>3 DEF Control, Exclusive, TypeOK, Reserving, Taking
<1>11. \A s \in Threads : Producing(s)' /\ Consuming(s)'
  <2> TAKE s \in Threads
  <2>1. CASE s = t
    BY <2>1, <1>1, <1>2, <1>3 DEF Control, Producing, Consuming, Reserving, Taking, Enqueuing, Dequeuing, TypeOK
  <2>2. CASE s # t
    BY <2>2, <1>1, <1>2, <1>3 DEF Control, Producing, Consuming, TypeOK
  <2> QED
    BY <2>1, <2>2
<1>12. Stamped'
  <2>1. \A s \in Threads : pc'[s] \in Reserving <=> pc[s] \in Reserving
    BY <1>1, <1>2 DEF TypeOK, Reserving
  <2>2. Issued' = Issued
    BY <1>3, <2>1 DEF Issued
  <2>3. \A s \in Threads : pc'[s] \in {"e_head", "e_check", "e_cas"} => pc[s] \in {"e_head", "e_check", "e_cas"}
    BY <1>1, <1>2 DEF TypeOK
  <2>4. \A k \in 0 .. Issued - 1 : Written(k)' =>
            \/ Written(k) /\ item'[k] = item[k]
            \/ pc[t] \in Reserving /\ loc[t] = k /\ item'[k] = <<t, calls[t]>>
    <3> TAKE k \in 0 .. Issued - 1
    <3> HAVE Written(k)'
    <3>1. CASE k = loc[t]
      BY <3>1, <1>1, <1>3 DEF TypeOK, Reserving
    <3>2. CASE k # loc[t]
      BY <3>2, <1>1, <1>2, <1>3 DEF TypeOK, Written
    <3> QED
      BY <3>1, <3>2
  <2>5. calls' \in [Threads -> 0 .. MaxCalls] /\ \A s \in Threads : calls[s] <= calls'[s]
    BY <1>1, <1>3, RingAssumption DEF TypeOK
  <2> QED
    BY <1>1, <1>3, <2>1, <2>2, <2>3, <2>4, <2>5, HeldIssued, StampedKept DEF Control
<1> QED
  BY <1>6, <1>7, <1>8, <1>9, <1>10, <1>11, <1>12 DEF Control

\* The slot is taken.
LEMMA DeqTakeControl ==
    ASSUME Control, NEW t \in Threads, DeqTake(t)
    PROVE  Control'
<1>1. TypeOK /\ pc[t] = "d_take" /\ loc[t] \in Indices /\ loc[t] \in Nat
  BY IndexRange DEF Control, TypeOK, DeqTake
<1>2. PICK l : l = (IF multi THEN "d_wait" ELSE "d_publish") /\ pc' = [pc EXCEPT ![t] = l]
  BY DEF DeqTake, Goto
<1>3. UNCHANGED <<cap, multi, producers, consumers, cur, msg, loc, calls, item>>
  BY DEF DeqTake, config
<1>4. data[loc[t] % cap] \in Elements \cup {None}
  <2>1. loc[t] % cap \in 0 .. cap - 1
    BY <1>1, DivMod DEF TypeOK
  <2> QED
    BY <1>1, <2>1 DEF TypeOK
<1>5. <<"take", loc[t]>> \in Facts
  BY <1>1 DEF Facts
<1>6. TypeOK'
  <2>1. data' \in [0 .. cap - 1 -> Elements \cup {None}] /\ got' \in [Indices -> Elements \cup {None}]
    BY <1>1, <1>3, <1>4 DEF DeqTake, TypeOK
  <2>2. view' \in [Threads -> SUBSET Facts] /\ owed' \in SUBSET (Elements \cup {None}) /\ race' \in BOOLEAN
    BY <1>1, <1>4, <1>5 DEF DeqTake, TypeOK
  <2>3. pc' \in [Threads -> {"idle"} \cup Enqueuing \cup Dequeuing]
    BY <1>1, <1>2 DEF TypeOK, Dequeuing
  <2> QED
    BY <1>1, <1>3, <2>1, <2>2, <2>3 DEF TypeOK
<1>7. Modes'
  BY <1>1, <1>2, <1>3 DEF Control, Modes, TypeOK, Enqueuing, Dequeuing
<1>8. Order'
  BY <1>3 DEF Control, Order
<1>9. OwnCursor'
  <2>1. \A s \in Threads : view[s] \subseteq view'[s]
    BY <1>1 DEF DeqTake, TypeOK
  <2> QED
    BY <1>1, <1>3, <2>1, OwnCursorKept DEF Control
<1>10. Exclusive'
  BY <1>1, <1>2, <1>3 DEF Control, Exclusive, TypeOK, Reserving, Taking
<1>11. \A s \in Threads : Producing(s)' /\ Consuming(s)'
  <2> TAKE s \in Threads
  <2>1. CASE s = t
    BY <2>1, <1>1, <1>2, <1>3 DEF Control, Producing, Consuming, Reserving, Taking, Enqueuing, Dequeuing, TypeOK
  <2>2. CASE s # t
    BY <2>2, <1>1, <1>2, <1>3 DEF Control, Producing, Consuming, TypeOK
  <2> QED
    BY <2>1, <2>2
<1>12. Stamped'
  <2>1. \A s \in Threads : pc'[s] \in Reserving <=> pc[s] \in Reserving
    BY <1>1, <1>2 DEF TypeOK, Reserving
  <2>2. Issued' = Issued
    BY <1>3, <2>1 DEF Issued
  <2>3. \A s \in Threads : pc'[s] \in {"e_head", "e_check", "e_cas"} => pc[s] \in {"e_head", "e_check", "e_cas"}
    BY <1>1, <1>2 DEF TypeOK
  <2>4. \A k \in 0 .. Issued - 1 : Written(k)' => Written(k) /\ item'[k] = item[k]
    BY <1>1, <1>2, <1>3 DEF TypeOK, Written
  <2>5. calls' \in [Threads -> 0 .. MaxCalls] /\ \A s \in Threads : calls[s] <= calls'[s]
    BY <1>1, <1>3, RingAssumption DEF TypeOK
  <2> QED
    BY <1>1, <1>3, <2>1, <2>2, <2>3, <2>4, <2>5, HeldIssued, StampedKept DEF Control
<1> QED
  BY <1>6, <1>7, <1>8, <1>9, <1>10, <1>11, <1>12 DEF Control

\* A store of v to cursor c by thread t, whose view becomes V.
Stores(t, c, v, V) ==
    /\ cur' = [cur EXCEPT ![c] = v]
    /\ view' = [view EXCEPT ![t] = V]
    /\ msg' = [msg EXCEPT ![c][v] = V]
    /\ view[t] \cup {<<c, v>>} \subseteq V /\ V \subseteq Facts

\* compare_set and the release stores are stores whose view grows.
LEMMA StoreShape ==
    ASSUME TypeOK, NEW t \in Threads, NEW c \in Cursors, loc[t] + 1 \in Indices,
           Swap(t, c) \/ Release(t, c, loc[t] + 1)
    PROVE  \E V \in SUBSET Facts : Stores(t, c, loc[t] + 1, V)
<1>1. <<c, loc[t] + 1>> \in Facts /\ msg[c][loc[t]] \subseteq Facts /\ view[t] \subseteq Facts
  <2>1. loc[t] + 1 \in Nat /\ loc[t] \in Indices
    BY IndexRange DEF TypeOK
  <2>2. <<c, loc[t] + 1>> \in Facts
    BY <2>1 DEF Facts
  <2>3. msg[c][loc[t]] \subseteq Facts /\ view[t] \subseteq Facts
    BY <2>1 DEF TypeOK
  <2> QED
    BY <2>2, <2>3
<1>2. CASE Swap(t, c)
  <2> DEFINE V == view[t] \cup msg[c][loc[t]] \cup {<<c, loc[t] + 1>>}
  <2>1. V \in SUBSET Facts
    BY <1>1
  <2>2. Stores(t, c, loc[t] + 1, V)
    BY <1>2, <2>1 DEF Swap, Stores
  <2> QED
    BY <2>1, <2>2
<1>3. CASE Release(t, c, loc[t] + 1)
  <2> DEFINE V == view[t] \cup {<<c, loc[t] + 1>>}
  <2>1. V \in SUBSET Facts
    BY <1>1
  <2>2. Stores(t, c, loc[t] + 1, V)
    BY <1>3, <2>1 DEF Release, Stores
  <2> QED
    BY <2>1, <2>2
<1> QED
  BY <1>2, <1>3

\* A store keeps types and forgets nothing.
LEMMA StoreTyped ==
    ASSUME TypeOK, NEW t \in Threads, NEW c \in Cursors, NEW v \in Indices, NEW V, Stores(t, c, v, V)
    PROVE  /\ cur' \in [Cursors -> Indices] /\ cur'[c] = v /\ \A d \in Cursors \ {c} : cur'[d] = cur[d]
           /\ msg' \in [Cursors -> [Indices -> SUBSET Facts]]
           /\ view' \in [Threads -> SUBSET Facts]
           /\ \A s \in Threads : view[s] \subseteq view'[s]
           /\ <<c, v>> \in view'[t]
<1>1. cur' \in [Cursors -> Indices] /\ cur'[c] = v /\ \A d \in Cursors \ {c} : cur'[d] = cur[d]
  BY DEF TypeOK, Stores
<1>2. msg' \in [Cursors -> [Indices -> SUBSET Facts]]
  BY DEF TypeOK, Stores
<1>3. /\ view' \in [Threads -> SUBSET Facts] /\ \A s \in Threads : view[s] \subseteq view'[s]
      /\ <<c, v>> \in view'[t]
  BY DEF TypeOK, Stores
<1> QED
  BY <1>1, <1>2, <1>3

\* There are enough indices.
LEMMA IssuedInRange ==
    ASSUME Control
    PROVE  Issued \in Indices
<1>1. Issued \in Nat /\ Stamped
  BY IssuedCases DEF Control
<1>2. PICK f \in [0 .. Issued - 1 -> Elements] : \A j, k \in 0 .. Issued - 1 : j # k => f[j] # f[k]
  BY <1>1 DEF Stamped, Stamps
<1> QED
  BY <1>1, <1>2, EnoughIndices

\* A producer reserves the index it read.
LEMMA EnqCasControl ==
    ASSUME Control, NEW t \in Threads, EnqCas(t)
    PROVE  Control'
<1>1. /\ TypeOK /\ pc[t] = "e_cas" /\ loc[t] = cur["prod_head"] /\ multi /\ "prod_head" \in Cursors
      /\ pc' = [pc EXCEPT ![t] = "e_write"] /\ cur' = [cur EXCEPT !["prod_head"] = loc[t] + 1]
      /\ UNCHANGED <<cap, multi, producers, consumers, data, loc, calls, item, got, owed, race>>
  BY DEF Control, EnqCas, Swap, Goto, Modes, Enqueuing, Dequeuing, Cursors, config, hist
<1>2. /\ cap \in Nat /\ loc[t] \in Nat /\ \A c \in Cursors : cur[c] \in Nat
      /\ \A s \in Threads : loc[s] \in Nat
  BY <1>1, IndexRange DEF TypeOK
<1>3. Issued = cur["prod_head"] /\ Issued' = loc[t] + 1 /\ cur'["prod_tail"] = cur["prod_tail"]
  BY <1>1 DEF Issued, TypeOK, Cursors
<1>4. Stamped' /\ loc[t] + 1 \in Indices
  <2>1. Stamped' /\ Issued' \in Indices
    BY <1>1, <1>3, HeldIssued, StampedGrows DEF Control
  <2> QED
    BY <1>3, <2>1
<1>5. PICK V \in SUBSET Facts : Stores(t, "prod_head", loc[t] + 1, V)
  BY <1>1, <1>4, StoreShape DEF EnqCas
<1>6. /\ cur' \in [Cursors -> Indices] /\ cur'["prod_head"] = loc[t] + 1
      /\ \A d \in Cursors \ {"prod_head"} : cur'[d] = cur[d]
      /\ msg' \in [Cursors -> [Indices -> SUBSET Facts]]
      /\ view' \in [Threads -> SUBSET Facts]
      /\ \A s \in Threads : view[s] \subseteq view'[s]
  BY <1>1, <1>4, <1>5, StoreTyped
<1>7. TypeOK'
  BY <1>1, <1>6 DEF TypeOK, Enqueuing
<1>8. Modes' /\ OwnCursor'
  BY <1>1 DEF Modes, OwnCursor
<1>9. /\ cur'["cons_tail"] = cur["cons_tail"] /\ cur'["cons_head"] = cur["cons_head"]
      /\ cur'["prod_tail"] = cur["prod_tail"] /\ cur["prod_head"] \in Nat
      /\ cur["prod_tail"] \in Nat /\ cur["cons_tail"] \in Nat /\ cur["cons_head"] \in Nat
      /\ loc[t] < cur["cons_tail"] + cap
  BY <1>1, <1>2, <1>6 DEF Cursors, Control, Producing
<1>10. Order'
  BY <1>1, <1>2, <1>6, <1>9 DEF Control, Order
<1>11. \A s \in Threads : pc[s] \in Reserving => loc[s] < loc[t]
  BY <1>1 DEF Control, Producing
<1>12. Exclusive'
  BY <1>1, <1>2, <1>11 DEF Control, Exclusive, TypeOK, Reserving, Taking
<1>13. \A s \in Threads : Producing(s)' /\ Consuming(s)'
  <2> TAKE s \in Threads
  <2>1. CASE s = t
    BY <2>1, <1>1, <1>2, <1>6, <1>9 DEF Control, Order, Producing, Consuming, Reserving, Taking, Enqueuing, Dequeuing, TypeOK
  <2>2. CASE s # t
    BY <2>2, <1>1, <1>2, <1>6, <1>9 DEF Control, Producing, Consuming, TypeOK
  <2> QED
    BY <2>1, <2>2
<1> QED
  BY <1>4, <1>7, <1>8, <1>10, <1>12, <1>13 DEF Control

\* A consumer reserves the index it read.
LEMMA DeqCasControl ==
    ASSUME Control, NEW t \in Threads, DeqCas(t)
    PROVE  Control'
<1>1. /\ TypeOK /\ pc[t] = "d_cas" /\ loc[t] = cur["cons_head"] /\ multi /\ "cons_head" \in Cursors
      /\ pc' = [pc EXCEPT ![t] = "d_take"] /\ cur' = [cur EXCEPT !["cons_head"] = loc[t] + 1]
      /\ UNCHANGED <<cap, multi, producers, consumers, data, loc, calls, item, got, owed, race>>
  BY DEF Control, DeqCas, Swap, Goto, Modes, Enqueuing, Dequeuing, Cursors, config, hist
<1>2. /\ cap \in Nat /\ loc[t] \in Nat /\ \A c \in Cursors : cur[c] \in Nat
      /\ \A s \in Threads : loc[s] \in Nat
  BY <1>1, IndexRange DEF TypeOK
<1>3. loc[t] < cur["prod_tail"] /\ cur["prod_tail"] \in Indices
  BY <1>1 DEF Control, Consuming, TypeOK, Cursors
<1>4. loc[t] + 1 \in Indices
  <2>1. loc[t] + 1 <= cur["prod_tail"] /\ loc[t] + 1 \in Nat
    BY <1>2, <1>3 DEF Cursors
  <2> QED
    BY <1>3, <2>1, IndexRange
<1>5. PICK V \in SUBSET Facts : Stores(t, "cons_head", loc[t] + 1, V)
  BY <1>1, <1>4, StoreShape DEF DeqCas
<1>6. /\ cur' \in [Cursors -> Indices] /\ cur'["cons_head"] = loc[t] + 1
      /\ \A d \in Cursors \ {"cons_head"} : cur'[d] = cur[d]
      /\ msg' \in [Cursors -> [Indices -> SUBSET Facts]]
      /\ view' \in [Threads -> SUBSET Facts]
      /\ \A s \in Threads : view[s] \subseteq view'[s]
  BY <1>1, <1>4, <1>5, StoreTyped
<1>7. TypeOK'
  BY <1>1, <1>6 DEF TypeOK, Dequeuing
<1>8. Modes' /\ OwnCursor'
  BY <1>1 DEF Modes, OwnCursor
<1>9. /\ cur'["cons_tail"] = cur["cons_tail"] /\ cur'["prod_head"] = cur["prod_head"]
      /\ cur'["prod_tail"] = cur["prod_tail"] /\ cur["prod_head"] \in Nat
      /\ cur["prod_tail"] \in Nat /\ cur["cons_tail"] \in Nat /\ cur["cons_head"] \in Nat
  BY <1>2, <1>6 DEF Cursors
<1>10. Order'
  BY <1>1, <1>2, <1>3, <1>6, <1>9 DEF Control, Order
<1>11. \A s \in Threads : pc[s] \in Taking => loc[s] < loc[t]
  BY <1>1 DEF Control, Consuming
<1>12. Exclusive'
  BY <1>1, <1>2, <1>11 DEF Control, Exclusive, TypeOK, Reserving, Taking
<1>13. \A s \in Threads : Producing(s)' /\ Consuming(s)'
  <2> TAKE s \in Threads
  <2>1. CASE s = t
    BY <2>1, <1>1, <1>2, <1>3, <1>6, <1>9 DEF Control, Order, Producing, Consuming, Reserving, Taking, Enqueuing, Dequeuing, TypeOK
  <2>2. CASE s # t
    BY <2>2, <1>1, <1>2, <1>6, <1>9 DEF Control, Producing, Consuming, TypeOK
  <2> QED
    BY <2>1, <2>2
<1>14. Stamped'
  <2>1. \A s \in Threads : pc'[s] \in Reserving <=> pc[s] \in Reserving
    BY <1>1 DEF TypeOK, Reserving
  <2>2. Issued' = Issued
    BY <1>1, <1>9 DEF Issued
  <2>3. \A s \in Threads : pc'[s] \in {"e_head", "e_check", "e_cas"} => pc[s] \in {"e_head", "e_check", "e_cas"}
    BY <1>1 DEF TypeOK
  <2>4. \A k \in 0 .. Issued - 1 : Written(k)' => Written(k) /\ item'[k] = item[k]
    BY <1>1, <1>9 DEF TypeOK, Written
  <2>5. calls' \in [Threads -> 0 .. MaxCalls] /\ \A s \in Threads : calls[s] <= calls'[s]
    BY <1>1, RingAssumption DEF TypeOK
  <2> QED
    BY <1>1, <2>1, <2>2, <2>3, <2>4, <2>5, HeldIssued, StampedKept DEF Control
<1> QED
  BY <1>7, <1>8, <1>10, <1>12, <1>13, <1>14 DEF Control

\* A producer publishes its element.
LEMMA EnqPublishControl ==
    ASSUME Control, NEW t \in Threads, EnqPublish(t)
    PROVE  Control'
<1>1. /\ TypeOK /\ pc[t] = "e_publish" /\ "prod_tail" \in Cursors
      /\ pc' = [pc EXCEPT ![t] = "idle"] /\ Release(t, "prod_tail", loc[t] + 1)
      /\ UNCHANGED <<cap, multi, producers, consumers, data, loc, calls, item, got, owed, race>>
  BY DEF Control, EnqPublish, Goto, Cursors, config, hist
<1>2. /\ cap \in Nat /\ loc[t] \in Nat /\ \A c \in Cursors : cur[c] \in Nat
      /\ \A s \in Threads : loc[s] \in Nat
  BY <1>1, IndexRange DEF TypeOK
<1>3. /\ loc[t] = cur["prod_tail"] /\ loc[t] < cur["cons_tail"] + cap /\ pc[t] \in Reserving
      /\ multi => loc[t] < cur["prod_head"]
  BY <1>1 DEF Control, Producing, Reserving
<1>4. loc[t] + 1 \in Indices
  <2>1. loc[t] \in 0 .. Issued - 1 /\ Issued \in Nat /\ Issued \in Indices
    BY <1>3, HeldIssued, IssuedInRange
  <2>2. loc[t] + 1 <= Issued /\ loc[t] + 1 \in Nat
    BY <1>2, <2>1
  <2> QED
    BY <2>1, <2>2, IndexRange
<1>5. PICK V \in SUBSET Facts : Stores(t, "prod_tail", loc[t] + 1, V)
  BY <1>1, <1>4, StoreShape
<1>6. /\ cur' \in [Cursors -> Indices] /\ cur'["prod_tail"] = loc[t] + 1
      /\ \A d \in Cursors \ {"prod_tail"} : cur'[d] = cur[d]
      /\ msg' \in [Cursors -> [Indices -> SUBSET Facts]]
      /\ view' \in [Threads -> SUBSET Facts]
      /\ \A s \in Threads : view[s] \subseteq view'[s]
      /\ <<"prod_tail", loc[t] + 1>> \in view'[t]
  BY <1>1, <1>4, <1>5, StoreTyped
<1>7. TypeOK'
  BY <1>1, <1>6 DEF TypeOK
<1>8. /\ cur'["cons_tail"] = cur["cons_tail"] /\ cur'["cons_head"] = cur["cons_head"]
      /\ cur'["prod_head"] = cur["prod_head"] /\ cur["prod_head"] \in Nat
      /\ cur["prod_tail"] \in Nat /\ cur["cons_tail"] \in Nat /\ cur["cons_head"] \in Nat
  BY <1>2, <1>6 DEF Cursors
<1>9. ~multi => /\ t \in producers
                /\ \A s \in producers : s = t
                /\ \A s \in Threads : s # t => pc[s] \notin Enqueuing
  BY <1>1 DEF Control, Modes, Enqueuing
<1>10. Modes'
  BY <1>1 DEF Control, Modes, TypeOK, Enqueuing, Dequeuing
<1>11. OwnCursor'
  BY <1>1, <1>6, <1>8, <1>9 DEF Control, OwnCursor, TypeOK
<1>12. Order'
  BY <1>1, <1>2, <1>3, <1>6, <1>8 DEF Control, Order
<1>13. Exclusive'
  BY <1>1 DEF Control, Exclusive, TypeOK, Reserving, Taking
<1>14. \A s \in Threads : s # t /\ pc[s] \in Reserving => cur["prod_tail"] < loc[s] /\ multi
  <2> TAKE s \in Threads
  <2> HAVE s # t /\ pc[s] \in Reserving
  <2>1. loc[s] # loc[t]
    BY <1>3 DEF Control, Exclusive
  <2>2. cur["prod_tail"] <= loc[s]
    BY DEF Control, Producing
  <2>3. multi
    BY <1>9 DEF Reserving, Enqueuing
  <2> QED
    BY <1>2, <1>3, <1>8, <2>1, <2>2, <2>3
<1>15. \A s \in Threads : Producing(s)' /\ Consuming(s)'
  <2> TAKE s \in Threads
  <2>1. CASE s = t
    BY <2>1, <1>1 DEF Producing, Consuming, Reserving, Taking, Enqueuing, Dequeuing, TypeOK
  <2>2. CASE s # t
    <3>1. pc'[s] = pc[s] /\ loc'[s] = loc[s] /\ loc[s] \in Nat
      BY <1>1, <1>2, <2>2 DEF TypeOK
    <3>2. Consuming(s)'
      BY <3>1, <1>1, <1>3, <1>6, <1>8 DEF Control, Consuming
    <3>3. Producing(s)'
      BY <2>2, <3>1, <1>1, <1>3, <1>6, <1>8, <1>9, <1>14 DEF Control, Producing, Reserving
    <3> QED
      BY <3>2, <3>3
  <2> QED
    BY <2>1, <2>2
<1>16. Stamped'
  <2>1. \A s \in Threads : pc'[s] \in Reserving => pc[s] \in Reserving /\ s # t
    BY <1>1 DEF TypeOK, Reserving
  <2>2. Issued' = Issued
    <3>1. CASE multi
      BY <1>1, <1>8, <3>1 DEF Issued
    <3>2. CASE ~multi
      <4>1. \A s \in Threads : pc'[s] \notin Reserving
        BY <1>14, <2>1, <3>2
      <4>2. Issued' = loc[t] + 1
        BY <1>1, <1>6, <3>2, <4>1 DEF Issued
      <4>3. Issued = cur["prod_tail"] + 1
        BY <1>3, <3>2 DEF Issued
      <4> QED
        BY <1>3, <4>2, <4>3
    <3> QED
      BY <3>1, <3>2
  <2>3. \A s \in Threads : pc'[s] \in {"e_head", "e_check", "e_cas"} => pc[s] \in {"e_head", "e_check", "e_cas"}
    BY <1>1 DEF TypeOK
  <2>4. \A k \in 0 .. Issued - 1 : Written(k)' => Written(k) /\ item'[k] = item[k]
    <3> TAKE k \in 0 .. Issued - 1
    <3> HAVE Written(k)'
    <3>1. CASE k < cur'["prod_tail"]
      <4>1. k \in Nat /\ (k < cur["prod_tail"] \/ k = loc[t])
        <5>1. k \in Nat
          BY HeldIssued
        <5>2. k < loc[t] + 1 /\ loc[t] \in Nat
          BY <3>1, <1>2, <1>6
        <5>3. k < loc[t] \/ k = loc[t]
          BY <5>1, <5>2
        <5> QED
          BY <5>1, <5>3, <1>3
      <4> QED
        BY <4>1, <1>1 DEF Written
    <3>2. CASE \E s \in Threads : pc'[s] \in {"e_wait", "e_publish"} /\ loc'[s] = k
      BY <3>2, <1>1 DEF Written, TypeOK
    <3> QED
      BY <3>1, <3>2 DEF Written
  <2>5. calls' \in [Threads -> 0 .. MaxCalls] /\ \A s \in Threads : calls[s] <= calls'[s]
    BY <1>1, RingAssumption DEF TypeOK
  <2> QED
    BY <1>1, <2>1, <2>2, <2>3, <2>4, <2>5, HeldIssued, StampedKept DEF Control
<1> QED
  BY <1>7, <1>10, <1>11, <1>12, <1>13, <1>15, <1>16 DEF Control

\* A consumer publishes the free slot.
LEMMA DeqPublishControl ==
    ASSUME Control, NEW t \in Threads, DeqPublish(t)
    PROVE  Control'
<1>1. /\ TypeOK /\ pc[t] = "d_publish" /\ "cons_tail" \in Cursors
      /\ pc' = [pc EXCEPT ![t] = "idle"] /\ Release(t, "cons_tail", loc[t] + 1)
      /\ UNCHANGED <<cap, multi, producers, consumers, data, loc, calls, item, got, owed, race>>
  BY DEF Control, DeqPublish, Goto, Cursors, config, hist
<1>2. /\ cap \in Nat /\ loc[t] \in Nat /\ \A c \in Cursors : cur[c] \in Nat
      /\ \A s \in Threads : loc[s] \in Nat
  BY <1>1, IndexRange DEF TypeOK
<1>3. /\ loc[t] = cur["cons_tail"] /\ loc[t] < cur["prod_tail"] /\ pc[t] \in Taking
      /\ cur["prod_tail"] \in Indices
      /\ multi => loc[t] < cur["cons_head"]
  BY <1>1 DEF Control, Consuming, Taking, TypeOK, Cursors
<1>4. loc[t] + 1 \in Indices
  <2>1. loc[t] + 1 <= cur["prod_tail"] /\ loc[t] + 1 \in Nat
    BY <1>2, <1>3 DEF Cursors
  <2> QED
    BY <1>3, <2>1, IndexRange
<1>5. PICK V \in SUBSET Facts : Stores(t, "cons_tail", loc[t] + 1, V)
  BY <1>1, <1>4, StoreShape
<1>6. /\ cur' \in [Cursors -> Indices] /\ cur'["cons_tail"] = loc[t] + 1
      /\ \A d \in Cursors \ {"cons_tail"} : cur'[d] = cur[d]
      /\ msg' \in [Cursors -> [Indices -> SUBSET Facts]]
      /\ view' \in [Threads -> SUBSET Facts]
      /\ \A s \in Threads : view[s] \subseteq view'[s]
      /\ <<"cons_tail", loc[t] + 1>> \in view'[t]
  BY <1>1, <1>4, <1>5, StoreTyped
<1>7. TypeOK'
  BY <1>1, <1>6 DEF TypeOK
<1>8. /\ cur'["prod_tail"] = cur["prod_tail"] /\ cur'["cons_head"] = cur["cons_head"]
      /\ cur'["prod_head"] = cur["prod_head"] /\ cur["prod_head"] \in Nat
      /\ cur["prod_tail"] \in Nat /\ cur["cons_tail"] \in Nat /\ cur["cons_head"] \in Nat
  BY <1>2, <1>6 DEF Cursors
<1>9. ~multi => /\ t \in consumers
                /\ \A s \in consumers : s = t
                /\ \A s \in Threads : s # t => pc[s] \notin Dequeuing
  BY <1>1 DEF Control, Modes, Dequeuing
<1>10. Modes'
  BY <1>1 DEF Control, Modes, TypeOK, Enqueuing, Dequeuing
<1>11. OwnCursor'
  BY <1>1, <1>6, <1>8, <1>9 DEF Control, OwnCursor, TypeOK
<1>12. Order'
  BY <1>1, <1>2, <1>3, <1>6, <1>8 DEF Control, Order
<1>13. Exclusive'
  BY <1>1 DEF Control, Exclusive, TypeOK, Reserving, Taking
<1>14. \A s \in Threads : s # t /\ pc[s] \in Taking => cur["cons_tail"] < loc[s] /\ multi
  <2> TAKE s \in Threads
  <2> HAVE s # t /\ pc[s] \in Taking
  <2>1. loc[s] # loc[t]
    BY <1>3 DEF Control, Exclusive
  <2>2. cur["cons_tail"] <= loc[s]
    BY DEF Control, Consuming
  <2>3. multi
    BY <1>9 DEF Taking, Dequeuing
  <2> QED
    BY <1>2, <1>3, <1>8, <2>1, <2>2, <2>3
<1>15. \A s \in Threads : Producing(s)' /\ Consuming(s)'
  <2> TAKE s \in Threads
  <2>1. CASE s = t
    BY <2>1, <1>1 DEF Producing, Consuming, Reserving, Taking, Enqueuing, Dequeuing, TypeOK
  <2>2. CASE s # t
    <3>1. pc'[s] = pc[s] /\ loc'[s] = loc[s] /\ loc[s] \in Nat
      BY <1>1, <1>2, <2>2 DEF TypeOK
    <3>2. Producing(s)'
      BY <3>1, <1>1, <1>2, <1>3, <1>6, <1>8 DEF Control, Producing
    <3>3. Consuming(s)'
      BY <2>2, <3>1, <1>1, <1>3, <1>6, <1>8, <1>9, <1>14 DEF Control, Consuming, Taking
    <3> QED
      BY <3>2, <3>3
  <2> QED
    BY <2>1, <2>2
<1>16. Stamped'
  <2>1. \A s \in Threads : pc'[s] \in Reserving <=> pc[s] \in Reserving
    BY <1>1 DEF TypeOK, Reserving
  <2>2. Issued' = Issued
    BY <1>1, <1>8, <2>1 DEF Issued
  <2>3. \A s \in Threads : pc'[s] \in {"e_head", "e_check", "e_cas"} => pc[s] \in {"e_head", "e_check", "e_cas"}
    BY <1>1 DEF TypeOK
  <2>4. \A k \in 0 .. Issued - 1 : Written(k)' => Written(k) /\ item'[k] = item[k]
    BY <1>1, <1>8 DEF TypeOK, Written
  <2>5. calls' \in [Threads -> 0 .. MaxCalls] /\ \A s \in Threads : calls[s] <= calls'[s]
    BY <1>1, RingAssumption DEF TypeOK
  <2> QED
    BY <1>1, <2>1, <2>2, <2>3, <2>4, <2>5, HeldIssued, StampedKept DEF Control
<1> QED
  BY <1>7, <1>10, <1>11, <1>12, <1>13, <1>15, <1>16 DEF Control

\* The ring starts over, with nobody inside a call.
LEMMA ClearControl ==
    ASSUME Control, Clear
    PROVE  Control'
<1>1. /\ TypeOK /\ \A t \in Threads : pc[t] = "idle"
      /\ UNCHANGED <<cap, multi, producers, consumers, pc, loc, calls, race>>
  BY DEF Control, Clear, Quiet, config
<1>2. /\ cur' \in [Cursors -> Indices] /\ msg' \in [Cursors -> [Indices -> SUBSET Facts]]
      /\ view' \in [Threads -> SUBSET Facts] /\ item' \in [Indices -> Elements \cup {None}]
      /\ got' \in [Indices -> Elements \cup {None}] /\ owed' \in SUBSET (Elements \cup {None})
  BY <1>1, IndexRange DEF Clear, Empty, TypeOK
<1>3. data' \in [0 .. cap - 1 -> Elements \cup {None}]
  BY <1>1 DEF Clear, TypeOK
<1>4. TypeOK'
  BY <1>1, <1>2, <1>3 DEF TypeOK
<1>5. \A c \in Cursors : cur'[c] = 0
  BY DEF Clear
<1>6. Modes'
  BY <1>1 DEF Control, Modes
<1>7. Order' /\ OwnCursor'
  BY <1>1, <1>4, <1>5 DEF TypeOK, Order, OwnCursor, Cursors
<1>8. Exclusive' /\ \A t \in Threads : Producing(t)' /\ Consuming(t)'
  BY <1>1 DEF Exclusive, Producing, Consuming, Reserving, Taking, Enqueuing, Dequeuing
<1>9. Issued' = 0
  BY <1>1, <1>5 DEF Issued, Cursors, Reserving
<1>10. Stamped'
  BY <1>1, <1>9, StampedEmpty
<1> QED
  BY <1>4, <1>6, <1>7, <1>8, <1>10 DEF Control

\* Nothing happens.
LEMMA StutterControl ==
    ASSUME Control, UNCHANGED vars
    PROVE  Control'
<1>1. UNCHANGED <<cap, multi, producers, consumers, cur, msg, data, pc, loc, calls, view, item, got, owed, race>>
  BY DEF vars, config, hist
<1>2. TypeOK' /\ Modes' /\ Order' /\ Exclusive' /\ OwnCursor'
  BY <1>1 DEF Control, TypeOK, Modes, Order, Exclusive, OwnCursor
<1>3. \A t \in Threads : Producing(t)' /\ Consuming(t)'
  BY <1>1 DEF Control, Producing, Consuming
<1>4. Issued' = Issued /\ \A k \in 0 .. Issued - 1 : Written(k)' <=> Written(k)
  BY <1>1 DEF Issued, Written
<1>5. PICK f \in [0 .. Issued - 1 -> Elements] : Stamps(f)
  BY DEF Control, Stamped
<1>6. Stamps(f)'
  BY <1>1, <1>4, <1>5 DEF Stamps
<1> QED
  BY <1>2, <1>3, <1>4, <1>6 DEF Control, Stamped

\* Every step of the ring keeps Control.
LEMMA NextControl ==
    ASSUME Control, [Next]_vars
    PROVE  Control'
<1>1. ASSUME NEW t \in Threads, EnqHead(t) \/ DeqHead(t) \/ Step(t) PROVE Control'
  BY <1>1, EnqHeadControl, DeqHeadControl, EnqCheckControl, DeqCheckControl, EnqCasControl, DeqCasControl,
     RetryWaitControl, EnqWriteControl, DeqTakeControl, EnqPublishControl, DeqPublishControl DEF Step
<1> QED
  BY <1>1, ClearControl, StutterControl DEF Next

\* For every number of threads, capacity and number of calls and in both modes,
\* the cursors of ring.lls stay in order and at most cap apart, every index is
\* held by at most one enqueue and one dequeue at a time, and there are never
\* more indices than enqueue calls.
THEOREM RingControl == Spec => []Control
<1>1. Init => Control
  BY InitControl
<1>2. Control /\ [Next]_vars => Control'
  BY NextControl
<1> QED
  BY <1>1, <1>2, PTL DEF Spec

-----------------------------------------------------------------------------
(* Views. *)

\* Two closed views make a closed one.
LEMMA ClosedUnion ==
    ASSUME NEW V, NEW W, Closed(V), Closed(W)
    PROVE  Closed(V \cup W)
<1>1. ASSUME NEW v \in Nat, <<"prod_tail", v>> \in V \cup W, NEW j \in 0 .. v - 1
      PROVE  <<"write", j>> \in V \cup W
  BY <1>1 DEF Closed
<1>2. ASSUME NEW v \in Nat, <<"cons_tail", v>> \in V \cup W, NEW j \in 0 .. v - 1
      PROVE  <<"take", j>> \in V \cup W
  BY <1>2 DEF Closed
<1> QED
  BY <1>1, <1>2 DEF Closed

\* A closed view stays closed when it learns an access, the value of a head,
\* the value 0, or a tail all of whose accesses it knows.
LEMMA ClosedAdd ==
    ASSUME NEW V, Closed(V), NEW c, NEW n \in Nat,
           c = "prod_tail" => \A j \in 0 .. n - 1 : <<"write", j>> \in V,
           c = "cons_tail" => \A j \in 0 .. n - 1 : <<"take", j>> \in V
    PROVE  Closed(V \cup {<<c, n>>})
<1> DEFINE W == V \cup {<<c, n>>}
<1>1. ASSUME NEW v \in Nat, <<"prod_tail", v>> \in W, NEW j \in 0 .. v - 1
      PROVE  <<"write", j>> \in W
  <2>1. CASE <<"prod_tail", v>> \in V
    BY <2>1 DEF Closed
  <2>2. CASE c = "prod_tail" /\ n = v
    BY <2>2
  <2> QED
    BY <1>1, <2>1, <2>2
<1>2. ASSUME NEW v \in Nat, <<"cons_tail", v>> \in W, NEW j \in 0 .. v - 1
      PROVE  <<"take", j>> \in W
  <2>1. CASE <<"cons_tail", v>> \in V
    BY <2>1 DEF Closed
  <2>2. CASE c = "cons_tail" /\ n = v
    BY <2>2
  <2> QED
    BY <1>2, <2>1, <2>2
<1> QED
  BY <1>1, <1>2 DEF Closed

\* An acquire load joins the view of the store it reads from.
LEMMA AcquireClosed ==
    ASSUME TypeOK, Views, NEW t \in Threads, NEW c \in Cursors, NEW v \in Indices, v <= cur[c],
           Acquire(t, c, v)
    PROVE  \E W : /\ view' = [view EXCEPT ![t] = W] /\ Closed(W)
                  /\ view[t] \subseteq W /\ <<c, v>> \in W
<1> DEFINE U == view[t] \cup msg[c][v]
           W == U \cup {<<c, v>>}
<1>1. v \in Nat
  BY IndexRange
<1>2. Closed(U)
  BY ClosedUnion DEF Views
<1>3. c \in {"prod_tail", "cons_tail"} => v = 0 \/ <<c, v>> \in U
  <2>1. v # 0 => v \in 1 .. cur[c]
    BY <1>1, IndexRange DEF TypeOK
  <2>2. CASE v = 0
    BY <2>2
  <2>3. CASE v # 0
    BY <2>1, <2>3 DEF Views
  <2> QED
    BY <2>2, <2>3
<1>4. /\ c = "prod_tail" => \A j \in 0 .. v - 1 : <<"write", j>> \in U
      /\ c = "cons_tail" => \A j \in 0 .. v - 1 : <<"take", j>> \in U
  BY <1>1, <1>2, <1>3 DEF Closed
<1>5. Closed(W)
  <2> HIDE DEF U
  <2> QED
    BY <1>1, <1>2, <1>4, ClosedAdd
<1>6. view' = [view EXCEPT ![t] = W]
  BY DEF Acquire
<1>7. view[t] \subseteq W /\ <<c, v>> \in W
  OBVIOUS
<1> HIDE DEF W
<1> QED
  BY <1>5, <1>6, <1>7

\* A relaxed load of the cursor only the thread itself writes.
LEMMA RelaxedClosed ==
    ASSUME TypeOK, Views, NEW t \in Threads, NEW c \in Cursors, NEW v \in Indices,
           v = 0 \/ <<c, v>> \in view[t], Relaxed(t, c, v)
    PROVE  \E W : /\ view' = [view EXCEPT ![t] = W] /\ Closed(W)
                  /\ view[t] \subseteq W /\ <<c, v>> \in W
<1> DEFINE W == view[t] \cup {<<c, v>>}
<1>1. v \in Nat /\ Closed(view[t])
  BY IndexRange DEF Views
<1>2. Closed(W)
  <2>1. CASE v = 0
    BY <1>1, <2>1, ClosedAdd
  <2>2. CASE <<c, v>> \in view[t]
    <3>1. W = view[t]
      BY <2>2
    <3> QED
      BY <1>1, <3>1
  <2> QED
    BY <2>1, <2>2
<1>3. view' = [view EXCEPT ![t] = W]
  BY DEF Relaxed
<1>4. view[t] \subseteq W /\ <<c, v>> \in W
  OBVIOUS
<1> HIDE DEF W
<1> QED
  BY <1>2, <1>3, <1>4

\* What a thread knows stays known while it does not move.
LEMMA KnowsKept ==
    ASSUME NEW s \in Threads, Knows(s), pc'[s] = pc[s], loc'[s] = loc[s], cap' = cap, multi' = multi,
           view[s] \subseteq view'[s]
    PROVE  Knows(s)'
  BY DEF Knows

\* A step by which thread t learns W and stores nothing.
LEMMA SyncLocal ==
    ASSUME TypeOK, Sync, NEW t \in Threads, NEW W, Closed(W), view[t] \subseteq W,
           view' = [view EXCEPT ![t] = W], UNCHANGED <<cur, msg, cap, multi>>,
           \A s \in Threads \ {t} : pc'[s] = pc[s] /\ loc'[s] = loc[s],
           Knows(t)', ~race'
    PROVE  Sync'
<1>1. \A s \in Threads : Closed(view'[s])
  BY DEF TypeOK, Sync, Views
<1>2. Views'
  BY <1>1 DEF Sync, Views
<1>3. \A s \in Threads : view[s] \subseteq view'[s]
  BY DEF TypeOK
<1>4. \A s \in Threads : Knows(s)'
  <2> TAKE s \in Threads
  <2>1. CASE s # t
    BY <2>1, <1>3, KnowsKept DEF Sync
  <2> QED
    BY <2>1
<1> QED
  BY <1>2, <1>4 DEF Sync

\* A step by which thread t stores the next value of cursor c with view W.
LEMMA SyncStore ==
    ASSUME TypeOK, Sync, NEW t \in Threads, NEW W, Closed(W), view[t] \subseteq W,
           NEW c \in Cursors, cur[c] + 1 \in Indices, <<c, cur[c] + 1>> \in W,
           cur' = [cur EXCEPT ![c] = cur[c] + 1],
           msg' = [msg EXCEPT ![c][cur[c] + 1] = W],
           view' = [view EXCEPT ![t] = W], UNCHANGED <<cap, multi, loc, race>>,
           \A s \in Threads \ {t} : pc'[s] = pc[s],
           Knows(t)'
    PROVE  Sync'
<1>1. \A s \in Threads : Closed(view'[s]) /\ view[s] \subseteq view'[s]
  BY DEF TypeOK, Sync, Views
<1>2. \A d \in Cursors, v \in Indices :
          msg'[d][v] = IF d = c /\ v = cur[c] + 1 THEN W ELSE msg[d][v]
  BY DEF TypeOK
<1>3. \A d \in Cursors, v \in Indices : Closed(msg'[d][v])
  BY <1>2 DEF Sync, Views
<1>4. \A d \in {"prod_tail", "cons_tail"} : \A v \in 1 .. cur'[d] : <<d, v>> \in msg'[d][v]
  <2> TAKE d \in {"prod_tail", "cons_tail"}
  <2> TAKE v \in 1 .. cur'[d]
  <2>1. d \in Cursors /\ cur[d] \in Nat /\ cur[c] \in Nat /\ cur[c] + 1 \in Nat
    BY IndexRange DEF Cursors, TypeOK
  <2>2. CASE d # c
    <3>1. cur'[d] = cur[d] /\ cur[d] \in Indices
      BY <2>1, <2>2 DEF TypeOK
    <3>2. v \in Indices /\ v \in 1 .. cur[d]
      BY <2>1, <3>1, IndexRange
    <3>3. msg'[d][v] = msg[d][v]
      BY <1>2, <2>1, <2>2, <3>2
    <3> QED
      BY <3>2, <3>3 DEF Sync, Views
  <2>3. CASE d = c /\ v = cur[c] + 1
    BY <1>2, <2>1, <2>3
  <2>4. CASE d = c /\ v # cur[c] + 1
    <3>1. cur'[d] = cur[d] + 1
      BY <2>4 DEF TypeOK
    <3>2. v \in 1 .. cur[d] /\ v \in Nat /\ v <= cur[c] + 1
      BY <2>1, <2>4, <3>1
    <3>3. v \in Indices
      BY <3>2, IndexRange
    <3>4. msg'[d][v] = msg[d][v]
      BY <1>2, <2>1, <2>4, <3>3
    <3> QED
      BY <3>2, <3>4 DEF Sync, Views
  <2> QED
    BY <2>2, <2>3, <2>4
<1>5. Views'
  BY <1>1, <1>3, <1>4 DEF Views
<1>6. \A s \in Threads : Knows(s)'
  <2> TAKE s \in Threads
  <2>1. CASE s # t
    BY <2>1, <1>1, KnowsKept DEF Sync
  <2> QED
    BY <2>1
<1> QED
  BY <1>5, <1>6 DEF Sync

-----------------------------------------------------------------------------
(* Sync is inductive. *)

\* The initial state.
LEMMA InitSync == Init => Sync
<1> SUFFICES ASSUME Init PROVE Sync
  OBVIOUS
<1>1. Closed({})
  BY DEF Closed
<1>2. Views
  BY <1>1 DEF Init, Views, Cursors
<1>3. \A t \in Threads : pc[t] = "idle"
  BY DEF Init
<1>4. \A t \in Threads : Knows(t)
  BY <1>3 DEF Knows, Enqueuing, Dequeuing
<1> QED
  BY <1>2, <1>4 DEF Init, Sync

\* Reading the reservation cursor.
LEMMA HeadSync ==
    ASSUME Control, Sync, NEW t \in Threads, EnqHead(t) \/ DeqHead(t)
    PROVE  Sync'
<1>1. TypeOK /\ Views /\ ~race
  BY DEF Control, Sync
<1>2. /\ pc[t] \in {"idle", "e_head", "d_head"} /\ pc' \in [Threads -> {"idle"} \cup Enqueuing \cup Dequeuing]
      /\ \A s \in Threads \ {t} : pc'[s] = pc[s]
      /\ UNCHANGED <<cap, multi, cur, msg, race>>
      /\ EnqHead(t) => pc'[t] = "e_check"
      /\ DeqHead(t) => pc'[t] = "d_check"
  BY <1>1 DEF EnqHead, DeqHead, Goto, TypeOK, config, hist, Enqueuing, Dequeuing
<1>3. PICK c \in Cursors, v \in Indices :
          /\ v \in Loads(t, c) /\ loc' = [loc EXCEPT ![t] = v]
          /\ IF multi THEN Acquire(t, c, v) ELSE Relaxed(t, c, v)
          /\ ~multi => /\ EnqHead(t) => c = "prod_tail"
                       /\ DeqHead(t) => c = "cons_tail"
                       /\ cur[c] = 0 \/ <<c, cur[c]>> \in view[t]
  <2>1. CASE EnqHead(t)
    <3> DEFINE c == IF multi THEN "prod_head" ELSE "prod_tail"
    <3>1. PICK v \in Loads(t, c) :
              loc' = [loc EXCEPT ![t] = v] /\ (IF multi THEN Acquire(t, c, v) ELSE Relaxed(t, c, v))
      BY <2>1 DEF EnqHead
    <3>2. ~multi => t \in producers
      BY <2>1 DEF EnqHead, Control, Modes, Enqueuing
    <3>3. c \in Cursors /\ (~multi => c = "prod_tail" /\ ~DeqHead(t))
      BY <1>2, <2>1 DEF Cursors
    <3>4. ~multi => cur[c] = 0 \/ <<c, cur[c]>> \in view[t]
      BY <3>2, <3>3 DEF Control, OwnCursor
    <3>5. v \in Indices
      BY <1>1, <3>3, LoadRange
    <3> HIDE DEF c
    <3> QED
      BY <2>1, <3>1, <3>3, <3>4, <3>5
  <2>2. CASE DeqHead(t)
    <3> DEFINE c == IF multi THEN "cons_head" ELSE "cons_tail"
    <3>1. PICK v \in Loads(t, c) :
              loc' = [loc EXCEPT ![t] = v] /\ (IF multi THEN Acquire(t, c, v) ELSE Relaxed(t, c, v))
      BY <2>2 DEF DeqHead
    <3>2. ~multi => t \in consumers
      BY <2>2 DEF DeqHead, Control, Modes, Dequeuing
    <3>3. c \in Cursors /\ (~multi => c = "cons_tail" /\ ~EnqHead(t))
      BY <1>2, <2>2 DEF Cursors
    <3>4. ~multi => cur[c] = 0 \/ <<c, cur[c]>> \in view[t]
      BY <3>2, <3>3 DEF Control, OwnCursor
    <3>5. v \in Indices
      BY <1>1, <3>3, LoadRange
    <3> HIDE DEF c
    <3> QED
      BY <2>2, <3>1, <3>3, <3>4, <3>5
  <2> QED
    BY <2>1, <2>2
<1>4. v \in Indices /\ v <= cur[c] /\ (~multi => v = cur[c])
  BY <1>1, <1>3, LoadRange
<1>5. PICK W : /\ view' = [view EXCEPT ![t] = W] /\ Closed(W)
               /\ view[t] \subseteq W /\ <<c, v>> \in W
  <2>1. CASE multi
    BY <1>1, <1>3, <1>4, <2>1, AcquireClosed
  <2>2. CASE ~multi
    BY <1>1, <1>3, <1>4, <2>2, RelaxedClosed
  <2> QED
    BY <2>1, <2>2
<1>6. loc'[t] = v /\ view'[t] = W /\ \A s \in Threads \ {t} : loc'[s] = loc[s]
  BY <1>1, <1>3, <1>5 DEF TypeOK
<1>7. Knows(t)'
  <2>1. CASE EnqHead(t)
    BY <2>1, <1>2, <1>3, <1>5, <1>6 DEF Knows, Enqueuing, Dequeuing
  <2>2. CASE DeqHead(t)
    BY <2>2, <1>2, <1>3, <1>5, <1>6 DEF Knows, Enqueuing, Dequeuing
  <2> QED
    BY <2>1, <2>2
<1> QED
  BY <1>1, <1>2, <1>5, <1>6, <1>7, SyncLocal

\* The load of the other side's tail brings what the tail stands for.
LEMMA CheckSync ==
    ASSUME Control, Sync, NEW t \in Threads, EnqCheck(t) \/ DeqCheck(t)
    PROVE  Sync'
<1>1. TypeOK /\ Views /\ ~race /\ Knows(t)
  BY DEF Control, Sync
<1>2. /\ \A s \in Threads \ {t} : pc'[s] = pc[s]
      /\ UNCHANGED <<cap, multi, cur, msg, race, loc>>
      /\ cap \in Nat /\ loc[t] \in Nat
  BY <1>1, IndexRange DEF EnqCheck, DeqCheck, Goto, TypeOK, config, hist
<1>3. CASE EnqCheck(t)
  <2>1. PICK v \in Loads(t, "cons_tail") :
          /\ Acquire(t, "cons_tail", v)
          /\ Goto(t, IF ~HasRoom(loc[t], v) THEN "idle" ELSE IF multi THEN "e_cas" ELSE "e_write")
    BY <1>3 DEF EnqCheck
  <2>2. "cons_tail" \in Cursors /\ v \in Indices /\ v <= cur["cons_tail"] /\ v \in Nat
    BY <1>1, <2>1, LoadRange DEF Cursors
  <2>3. PICK W : /\ view' = [view EXCEPT ![t] = W] /\ Closed(W)
                 /\ view[t] \subseteq W /\ <<"cons_tail", v>> \in W
    BY <1>1, <2>1, <2>2, AcquireClosed
  <2>4. pc[t] = "e_check" /\ view'[t] = W
    BY <1>1, <1>3, <2>3 DEF EnqCheck, TypeOK
  <2>5. /\ pc'[t] \in {"idle", "e_cas", "e_write"}
        /\ pc'[t] # "idle" => loc[t] < v + cap
    BY <1>1, <2>1 DEF Goto, TypeOK, HasRoom
  <2>6. \A j \in 0 .. v - 1 : <<"take", j>> \in W
    BY <2>2, <2>3 DEF Closed
  <2>7. pc'[t] # "idle" /\ loc[t] >= cap => <<"take", loc[t] - cap>> \in W
    <3> SUFFICES ASSUME pc'[t] # "idle", loc[t] >= cap PROVE <<"take", loc[t] - cap>> \in W
      OBVIOUS
    <3>1. loc[t] - cap \in 0 .. v - 1
      BY <1>2, <2>2, <2>5
    <3> QED
      BY <2>6, <3>1
  <2>8. ~multi => <<"prod_tail", loc[t]>> \in W
    BY <1>1, <2>3, <2>4 DEF Knows, Enqueuing
  <2>9. Knows(t)'
    BY <1>2, <2>4, <2>5, <2>7, <2>8 DEF Knows, Enqueuing, Dequeuing
  <2> QED
    BY <1>1, <1>2, <2>3, <2>9, SyncLocal
<1>4. CASE DeqCheck(t)
  <2>1. PICK v \in Loads(t, "prod_tail") :
          /\ Acquire(t, "prod_tail", v)
          /\ Goto(t, IF loc[t] >= v THEN "idle" ELSE IF multi THEN "d_cas" ELSE "d_take")
    BY <1>4 DEF DeqCheck
  <2>2. "prod_tail" \in Cursors /\ v \in Indices /\ v <= cur["prod_tail"] /\ v \in Nat
    BY <1>1, <2>1, LoadRange DEF Cursors
  <2>3. PICK W : /\ view' = [view EXCEPT ![t] = W] /\ Closed(W)
                 /\ view[t] \subseteq W /\ <<"prod_tail", v>> \in W
    BY <1>1, <2>1, <2>2, AcquireClosed
  <2>4. pc[t] = "d_check" /\ view'[t] = W
    BY <1>1, <1>4, <2>3 DEF DeqCheck, TypeOK
  <2>5. /\ pc'[t] \in {"idle", "d_cas", "d_take"}
        /\ pc'[t] # "idle" => ~(loc[t] >= v)
    BY <1>1, <2>1 DEF Goto, TypeOK
  <2>6. pc'[t] # "idle" => <<"write", loc[t]>> \in W
    BY <1>2, <2>2, <2>3, <2>5 DEF Closed
  <2>7. ~multi => <<"cons_tail", loc[t]>> \in W
    BY <1>1, <2>3, <2>4 DEF Knows, Dequeuing
  <2>8. Knows(t)'
    BY <1>2, <2>4, <2>5, <2>6, <2>7 DEF Knows, Enqueuing, Dequeuing
  <2> QED
    BY <1>1, <1>2, <2>3, <2>8, SyncLocal
<1> QED
  BY <1>3, <1>4

\* A failed compare_set learns of a newer head; a wait ends with an acquire
\* load of the thread's own index from its tail.
LEMMA RetryWaitSync ==
    ASSUME Control, Sync, NEW t \in Threads, EnqRetry(t) \/ DeqRetry(t) \/ EnqWait(t) \/ DeqWait(t)
    PROVE  Sync'
<1>1. TypeOK /\ Views /\ ~race /\ Knows(t) /\ multi
  BY DEF Control, Sync, Modes, EnqRetry, DeqRetry, EnqWait, DeqWait, Enqueuing, Dequeuing
<1>2. /\ \A s \in Threads \ {t} : pc'[s] = pc[s]
      /\ UNCHANGED <<cap, multi, cur, msg, race, loc>>
  BY <1>1 DEF EnqRetry, DeqRetry, EnqWait, DeqWait, Goto, TypeOK, config, hist
<1>3. PICK c \in Cursors, v \in Indices : /\ Acquire(t, c, v) /\ v <= cur[c]
                                          /\ EnqWait(t) => c = "prod_tail" /\ v = loc[t]
                                          /\ DeqWait(t) => c = "cons_tail" /\ v = loc[t]
  <2>1. CASE EnqRetry(t) \/ DeqRetry(t)
    <3>1. PICK c \in Cursors : CasFails(t, c)
      BY <2>1 DEF EnqRetry, DeqRetry, Cursors
    <3>2. PICK v \in Loads(t, c) : Acquire(t, c, v)
      BY <3>1 DEF CasFails
    <3>3. v \in Indices /\ v <= cur[c]
      BY <1>1, <3>2, LoadRange
    <3>4. ~EnqWait(t) /\ ~DeqWait(t)
      BY <2>1 DEF EnqRetry, DeqRetry, EnqWait, DeqWait
    <3> QED
      BY <3>2, <3>3, <3>4
  <2>2. CASE EnqWait(t)
    <3>1. Acquire(t, "prod_tail", loc[t]) /\ cur["prod_tail"] = loc[t] /\ ~DeqWait(t)
      BY <2>2 DEF EnqWait, DeqWait
    <3>2. "prod_tail" \in Cursors /\ loc[t] \in Indices /\ loc[t] \in Nat
      BY <1>1, IndexRange DEF Cursors, TypeOK
    <3>3. loc[t] <= cur["prod_tail"]
      BY <3>1, <3>2
    <3> QED
      BY <3>1, <3>2, <3>3
  <2>3. CASE DeqWait(t)
    <3>1. Acquire(t, "cons_tail", loc[t]) /\ cur["cons_tail"] = loc[t] /\ ~EnqWait(t)
      BY <2>3 DEF EnqWait, DeqWait
    <3>2. "cons_tail" \in Cursors /\ loc[t] \in Indices /\ loc[t] \in Nat
      BY <1>1, IndexRange DEF Cursors, TypeOK
    <3>3. loc[t] <= cur["cons_tail"]
      BY <3>1, <3>2
    <3> QED
      BY <3>1, <3>2, <3>3
  <2> QED
    BY <2>1, <2>2, <2>3
<1>4. PICK W : /\ view' = [view EXCEPT ![t] = W] /\ Closed(W)
               /\ view[t] \subseteq W /\ <<c, v>> \in W
  BY <1>1, <1>3, AcquireClosed
<1>5. view'[t] = W
  BY <1>1, <1>4 DEF TypeOK
<1>6. \/ pc'[t] \in {"e_head", "d_head"}
      \/ pc[t] = "e_wait" /\ pc'[t] = "e_publish" /\ <<"prod_tail", loc[t]>> \in W
      \/ pc[t] = "d_wait" /\ pc'[t] = "d_publish" /\ <<"cons_tail", loc[t]>> \in W
  <2>1. CASE EnqRetry(t) \/ DeqRetry(t)
    BY <1>1, <2>1 DEF EnqRetry, DeqRetry, Goto, TypeOK
  <2>2. CASE EnqWait(t)
    BY <1>1, <1>3, <1>4, <2>2 DEF EnqWait, Goto, TypeOK
  <2>3. CASE DeqWait(t)
    BY <1>1, <1>3, <1>4, <2>3 DEF DeqWait, Goto, TypeOK
  <2> QED
    BY <2>1, <2>2, <2>3
<1>7. Knows(t)'
  BY <1>1, <1>2, <1>4, <1>5, <1>6 DEF Knows, Enqueuing, Dequeuing
<1> QED
  BY <1>1, <1>2, <1>4, <1>7, SyncLocal

\* The accesses to the slots: neither is a race.
LEMMA AccessSync ==
    ASSUME Control, Sync, NEW t \in Threads, EnqWrite(t) \/ DeqTake(t)
    PROVE  Sync'
<1>1. TypeOK /\ Views /\ ~race /\ Knows(t) /\ loc[t] \in Nat /\ Closed(view[t])
  BY IndexRange DEF Control, Sync, TypeOK, Views
<1>2. /\ \A s \in Threads \ {t} : pc'[s] = pc[s]
      /\ UNCHANGED <<cap, multi, cur, msg, loc>>
  BY <1>1 DEF EnqWrite, DeqTake, Goto, TypeOK, config
<1>3. CASE EnqWrite(t)
  <2>1. PICK W : W = view[t] \cup {<<"write", loc[t]>>}
    OBVIOUS
  <2>2. Closed(W)
    BY <1>1, <2>1, ClosedAdd
  <2>3. view' = [view EXCEPT ![t] = W] /\ view'[t] = W
    BY <1>1, <1>3, <2>1 DEF EnqWrite, TypeOK
  <2>4. pc[t] = "e_write" /\ pc'[t] = IF multi THEN "e_wait" ELSE "e_publish"
    BY <1>1, <1>3 DEF EnqWrite, Goto, TypeOK
  <2>5. ~race'
    BY <1>1, <1>3, <2>4 DEF EnqWrite, Knows
  <2>6. Knows(t)'
    BY <1>1, <1>2, <2>1, <2>3, <2>4 DEF Knows, Enqueuing, Dequeuing
  <2> QED
    BY <1>1, <1>2, <2>1, <2>2, <2>3, <2>5, <2>6, SyncLocal
<1>4. CASE DeqTake(t)
  <2>1. PICK W : W = view[t] \cup {<<"take", loc[t]>>}
    OBVIOUS
  <2>2. Closed(W)
    BY <1>1, <2>1, ClosedAdd
  <2>3. view' = [view EXCEPT ![t] = W] /\ view'[t] = W
    BY <1>1, <1>4, <2>1 DEF DeqTake, TypeOK
  <2>4. pc[t] = "d_take" /\ pc'[t] = IF multi THEN "d_wait" ELSE "d_publish"
    BY <1>1, <1>4 DEF DeqTake, Goto, TypeOK
  <2>5. ~race'
    BY <1>1, <1>4, <2>4 DEF DeqTake, Knows
  <2>6. Knows(t)'
    BY <1>1, <1>2, <2>1, <2>3, <2>4 DEF Knows, Enqueuing, Dequeuing
  <2> QED
    BY <1>1, <1>2, <2>1, <2>2, <2>3, <2>5, <2>6, SyncLocal
<1> QED
  BY <1>3, <1>4

\* A reservation joins the view of the previous one and stores its own.
LEMMA CasSync ==
    ASSUME Control, Sync, Control', NEW t \in Threads, EnqCas(t) \/ DeqCas(t)
    PROVE  Sync'
<1>1. TypeOK /\ TypeOK' /\ Views /\ Knows(t) /\ multi
  BY DEF Control, Sync, Modes, EnqCas, DeqCas, Enqueuing, Dequeuing
<1>2. /\ \A s \in Threads \ {t} : pc'[s] = pc[s]
      /\ UNCHANGED <<cap, multi, loc, race>>
  BY <1>1 DEF EnqCas, DeqCas, Goto, TypeOK, config, hist
<1>3. PICK c \in {"prod_head", "cons_head"} : Swap(t, c)
  BY DEF EnqCas, DeqCas
<1>4. c \in Cursors /\ loc[t] = cur[c] /\ loc[t] \in Indices
  BY <1>1, <1>3 DEF Swap, TypeOK, Cursors
<1>5. PICK W : W = view[t] \cup msg[c][loc[t]] \cup {<<c, loc[t] + 1>>}
  OBVIOUS
<1>6. /\ cur' = [cur EXCEPT ![c] = cur[c] + 1]
      /\ msg' = [msg EXCEPT ![c][cur[c] + 1] = W]
      /\ view' = [view EXCEPT ![t] = W]
  BY <1>3, <1>4, <1>5 DEF Swap
<1>7. view[t] \subseteq W /\ <<c, cur[c] + 1>> \in W /\ view'[t] = W
  BY <1>1, <1>4, <1>5, <1>6 DEF TypeOK
<1>8. cur[c] + 1 \in Indices /\ cur[c] + 1 \in Nat
  <2>1. cur'[c] \in Indices /\ cur'[c] = cur[c] + 1
    BY <1>1, <1>4, <1>6 DEF TypeOK
  <2> QED
    BY <2>1, IndexRange
<1>9. Closed(W)
  <2>1. Closed(view[t]) /\ Closed(msg[c][loc[t]])
    BY <1>1, <1>4 DEF Views
  <2>2. Closed(view[t] \cup msg[c][loc[t]])
    BY <2>1, ClosedUnion
  <2> QED
    BY <1>3, <1>4, <1>5, <1>8, <2>2, ClosedAdd
<1>10. \/ pc[t] = "e_cas" /\ pc'[t] = "e_write"
       \/ pc[t] = "d_cas" /\ pc'[t] = "d_take"
  BY <1>1 DEF EnqCas, DeqCas, Goto, TypeOK
<1>11. Knows(t)'
  BY <1>1, <1>2, <1>7, <1>10 DEF Knows, Enqueuing, Dequeuing
<1> QED
  BY <1>1, <1>2, <1>4, <1>6, <1>7, <1>8, <1>9, <1>11, SyncStore DEF Control

\* A publication releases the access to the slot and, through the tail the
\* thread knows, all the accesses before it.
LEMMA PublishSync ==
    ASSUME Control, Sync, Control', NEW t \in Threads, EnqPublish(t) \/ DeqPublish(t)
    PROVE  Sync'
<1>1. TypeOK /\ TypeOK' /\ Views /\ Knows(t) /\ loc[t] \in Nat /\ Closed(view[t])
  BY IndexRange DEF Control, Sync, Views, TypeOK
<1>2. /\ \A s \in Threads \ {t} : pc'[s] = pc[s]
      /\ UNCHANGED <<cap, multi, loc, race>> /\ pc'[t] = "idle"
  BY <1>1 DEF EnqPublish, DeqPublish, Goto, TypeOK, config, hist
<1>3. PICK c \in {"prod_tail", "cons_tail"} :
          /\ Release(t, c, loc[t] + 1) /\ loc[t] = cur[c] /\ <<c, loc[t]>> \in view[t]
          /\ c = "prod_tail" => <<"write", loc[t]>> \in view[t]
          /\ c = "cons_tail" => <<"take", loc[t]>> \in view[t]
  <2>1. CASE EnqPublish(t)
    BY <1>1, <2>1 DEF EnqPublish, Control, Producing, Knows
  <2>2. CASE DeqPublish(t)
    BY <1>1, <2>2 DEF DeqPublish, Control, Consuming, Knows
  <2> QED
    BY <2>1, <2>2
<1>4. c \in Cursors
  BY <1>3 DEF Cursors
<1>5. PICK W : W = view[t] \cup {<<c, loc[t] + 1>>}
  OBVIOUS
<1>6. /\ cur' = [cur EXCEPT ![c] = cur[c] + 1]
      /\ msg' = [msg EXCEPT ![c][cur[c] + 1] = W]
      /\ view' = [view EXCEPT ![t] = W]
  BY <1>3, <1>5 DEF Release
<1>7. view[t] \subseteq W /\ <<c, cur[c] + 1>> \in W
  BY <1>3, <1>5
<1>8. cur[c] + 1 \in Indices
  BY <1>1, <1>4, <1>6 DEF TypeOK
<1>9. Closed(W)
  <2>1. \A j \in 0 .. (loc[t] + 1) - 1 : j \in 0 .. loc[t] - 1 \/ j = loc[t]
    BY <1>1
  <2>2. c = "prod_tail" => \A j \in 0 .. (loc[t] + 1) - 1 : <<"write", j>> \in view[t]
    BY <1>1, <1>3, <2>1 DEF Closed
  <2>3. c = "cons_tail" => \A j \in 0 .. (loc[t] + 1) - 1 : <<"take", j>> \in view[t]
    BY <1>1, <1>3, <2>1 DEF Closed
  <2>4. loc[t] + 1 \in Nat
    BY <1>1
  <2> QED
    BY <1>1, <1>5, <2>2, <2>3, <2>4, ClosedAdd
<1>10. Knows(t)'
  BY <1>2 DEF Knows, Enqueuing, Dequeuing
<1> QED
  BY <1>1, <1>2, <1>4, <1>6, <1>7, <1>8, <1>9, <1>10, SyncStore

\* The ring starts over.
LEMMA ClearSync ==
    ASSUME Control, Sync, Clear
    PROVE  Sync'
<1>1. Closed({})
  BY DEF Closed
<1>2. Views'
  BY <1>1 DEF Clear, Views, Cursors
<1>3. (\A t \in Threads : pc'[t] = "idle") /\ race' = race
  BY DEF Clear, Quiet
<1>4. \A t \in Threads : Knows(t)'
  BY <1>3 DEF Knows, Enqueuing, Dequeuing
<1> QED
  BY <1>2, <1>3, <1>4 DEF Sync

\* Every step of the ring keeps Sync.
LEMMA NextSync ==
    ASSUME Control, Sync, [Next]_vars
    PROVE  Sync'
<1>1. Control'
  BY NextControl
<1>2. ASSUME NEW t \in Threads, EnqHead(t) \/ DeqHead(t) \/ Step(t) PROVE Sync'
  BY <1>1, <1>2, HeadSync, CheckSync, CasSync, RetryWaitSync, AccessSync, PublishSync DEF Step
<1>3. ASSUME UNCHANGED vars PROVE Sync'
  BY <1>3 DEF vars, config, hist, Sync, Views, Knows
<1> QED
  BY <1>2, <1>3, ClearSync DEF Next

\* The slot protocol of ring.lls has no data race, whatever the number of
\* threads and calls and the capacity, in both modes and with every stale
\* read the orderings of the code allow: every write of a slot happens-before
\* the take of its element, and every take before the next write.
THEOREM RingNoDataRace == Spec => []NoDataRace
<1>1. Init => Control /\ Sync
  BY InitControl, InitSync
<1>2. Control /\ Sync /\ [Next]_vars => (Control /\ Sync)'
  BY NextControl, NextSync
<1>3. Control /\ Sync => NoDataRace
  BY DEF Sync, NoDataRace
<1> QED
  BY <1>1, <1>2, <1>3, PTL DEF Spec

-----------------------------------------------------------------------------
(* Slots. *)

\* A taken element was written; a live one lies in the turn that starts at
\* cons_tail and bears a stamp.
LEMMA LiveRange ==
    ASSUME Control, NEW k \in Nat
    PROVE  /\ Taken(k) => k < cur["prod_tail"]
           /\ Written(k) => k < cur["cons_tail"] + cap /\ k \in 0 .. Issued - 1
           /\ ~Taken(k) => cur["cons_tail"] <= k
<1>1. /\ TypeOK /\ Order /\ Issued \in Nat /\ cur["prod_tail"] <= Issued
      /\ cur["prod_tail"] \in Nat /\ cur["cons_tail"] \in Nat /\ cap \in Nat
  BY HeldIssued, IndexRange DEF Control, TypeOK, Cursors
<1>2. Taken(k) => k < cur["prod_tail"]
  BY <1>1 DEF Taken, Control, Consuming, Order, Taking
<1>3. Written(k) => k < cur["cons_tail"] + cap
  BY <1>1 DEF Written, Control, Producing, Order, Reserving
<1>4. Written(k) => k \in 0 .. Issued - 1
  <2>1. CASE k < cur["prod_tail"]
    BY <1>1, <2>1
  <2>2. CASE \E t \in Threads : pc[t] \in Reserving /\ loc[t] = k
    BY <2>2, HeldIssued
  <2> QED
    BY <2>1, <2>2 DEF Written, Reserving
<1>5. ~Taken(k) => cur["cons_tail"] <= k
  BY <1>1 DEF Taken
<1> QED
  BY <1>2, <1>3, <1>4, <1>5

\* Two elements of one turn have slots of their own.
LEMMA OwnSlot ==
    ASSUME NEW c \in Nat \ {0}, NEW b \in Nat, NEW j \in Nat, NEW k \in Nat, j # k,
           b <= j, j < b + c, b <= k, k < b + c
    PROVE  j % c # k % c
<1>1. CASE j < k
  <2>1. k < j + c
    OBVIOUS
  <2> QED
    BY <1>1, <2>1, SlotsDiffer
<1>2. CASE k < j
  <2>1. j < k + c
    OBVIOUS
  <2> QED
    BY <1>2, <2>1, SlotsDiffer
<1> QED
  BY <1>1, <1>2

\* Written elements are all different.
LEMMA ItemsDiffer ==
    ASSUME Control, NEW j \in Nat, NEW k \in Nat, Written(j), Written(k), item[j] = item[k]
    PROVE  j = k
<1>1. PICK f \in [0 .. Issued - 1 -> Elements] : Stamps(f)
  BY DEF Control, Stamped
<1>2. j \in 0 .. Issued - 1 /\ k \in 0 .. Issued - 1
  BY LiveRange
<1>3. item[j] = f[j] /\ item[k] = f[k]
  BY <1>1, <1>2 DEF Stamps
<1> QED
  BY <1>1, <1>2, <1>3 DEF Stamps

\* A step that accesses no slot and no history.
LEMMA ContentsKept ==
    ASSUME Contents, UNCHANGED <<cap, data, item, got, owed>>,
           \A k \in Indices : (Written(k)' <=> Written(k)) /\ (Taken(k)' <=> Taken(k))
    PROVE  Contents'
  BY DEF Contents

\* Steps that move no tail and access no slot.
LEMMA QuietStepContents ==
    ASSUME Control, Contents, NEW t \in Threads,
           \/ EnqHead(t) \/ DeqHead(t) \/ EnqCheck(t) \/ DeqCheck(t) \/ EnqCas(t) \/ DeqCas(t)
           \/ EnqRetry(t) \/ DeqRetry(t) \/ EnqWait(t) \/ DeqWait(t)
    PROVE  Contents'
<1>1. TypeOK
  BY DEF Control
<1>2. UNCHANGED <<cap, data, item, got, owed>>
  BY DEF EnqHead, DeqHead, EnqCheck, DeqCheck, EnqCas, DeqCas, EnqRetry, DeqRetry, EnqWait, DeqWait, config, hist
<1>3. cur'["prod_tail"] = cur["prod_tail"] /\ cur'["cons_tail"] = cur["cons_tail"]
  BY <1>1 DEF EnqHead, DeqHead, EnqCheck, DeqCheck, EnqCas, DeqCas, EnqRetry, DeqRetry, EnqWait, DeqWait, Swap,
     TypeOK, Cursors
<1>4. \A s \in Threads : s # t => pc'[s] = pc[s] /\ loc'[s] = loc[s]
  BY <1>1 DEF EnqHead, DeqHead, EnqCheck, DeqCheck, EnqCas, DeqCas, EnqRetry, DeqRetry, EnqWait, DeqWait, Goto,
     TypeOK
<1>5. \/ /\ pc[t] \notin {"e_wait", "e_publish", "d_wait", "d_publish"}
         /\ pc'[t] \notin {"e_wait", "e_publish", "d_wait", "d_publish"}
      \/ pc[t] = "e_wait" /\ pc'[t] = "e_publish" /\ loc' = loc
      \/ pc[t] = "d_wait" /\ pc'[t] = "d_publish" /\ loc' = loc
  <2>1. CASE EnqHead(t) \/ DeqHead(t)
    BY <1>1, <2>1 DEF EnqHead, DeqHead, Goto, TypeOK
  <2>2. CASE EnqCheck(t) \/ DeqCheck(t)
    BY <1>1, <2>2 DEF EnqCheck, DeqCheck, Goto, TypeOK
  <2>3. CASE EnqCas(t) \/ DeqCas(t) \/ EnqRetry(t) \/ DeqRetry(t)
    BY <1>1, <2>3 DEF EnqCas, DeqCas, EnqRetry, DeqRetry, Goto, TypeOK
  <2>4. CASE EnqWait(t) \/ DeqWait(t)
    BY <1>1, <2>4 DEF EnqWait, DeqWait, Goto, TypeOK
  <2> QED
    BY <2>1, <2>2, <2>3, <2>4
<1>6. \A s \in Threads : /\ pc'[s] \in {"e_wait", "e_publish"} <=> pc[s] \in {"e_wait", "e_publish"}
                         /\ pc'[s] \in {"d_wait", "d_publish"} <=> pc[s] \in {"d_wait", "d_publish"}
                         /\ pc[s] \in {"e_wait", "e_publish", "d_wait", "d_publish"} => loc'[s] = loc[s]
  BY <1>4, <1>5
<1>7. \A k \in Indices : (Written(k)' <=> Written(k)) /\ (Taken(k)' <=> Taken(k))
  BY <1>3, <1>6 DEF Written, Taken
<1> QED
  BY <1>2, <1>7, ContentsKept

\* Publishing changes neither what is written nor what is taken: the index
\* passes from the thread to the tail.
LEMMA PublishContents ==
    ASSUME Control, Contents, NEW t \in Threads, EnqPublish(t) \/ DeqPublish(t)
    PROVE  Contents'
<1>1. TypeOK /\ loc[t] \in Nat /\ cur["prod_tail"] \in Nat /\ cur["cons_tail"] \in Nat
  BY IndexRange DEF Control, TypeOK, Cursors
<1>2. UNCHANGED <<cap, data, item, got, owed, loc>> /\ pc' = [pc EXCEPT ![t] = "idle"]
  BY DEF EnqPublish, DeqPublish, Goto, config, hist
<1>3. \A s \in Threads : s # t => pc'[s] = pc[s]
  BY <1>1, <1>2 DEF TypeOK
<1>4. pc'[t] = "idle"
  BY <1>1, <1>2 DEF TypeOK
<1>5. CASE EnqPublish(t)
  <2>1. pc[t] = "e_publish" /\ loc[t] = cur["prod_tail"]
    BY <1>5 DEF EnqPublish, Control, Producing
  <2>2. cur'["prod_tail"] = loc[t] + 1 /\ cur'["cons_tail"] = cur["cons_tail"]
    BY <1>1, <1>5 DEF EnqPublish, Release, TypeOK, Cursors
  <2>3. \A k \in Nat : Taken(k)' <=> Taken(k)
    BY <1>2, <1>3, <1>4, <2>1, <2>2 DEF Taken
  <2>4. \A k \in Nat : Written(k)' <=> Written(k)
    <3> TAKE k \in Nat
    <3>1. k < loc[t] + 1 <=> k < loc[t] \/ k = loc[t]
      BY <1>1
    <3> QED
      BY <1>2, <1>3, <1>4, <2>1, <2>2, <3>1 DEF Written
  <2> QED
    BY <1>2, <2>3, <2>4, IndexRange, ContentsKept
<1>6. CASE DeqPublish(t)
  <2>1. pc[t] = "d_publish" /\ loc[t] = cur["cons_tail"]
    BY <1>6 DEF DeqPublish, Control, Consuming
  <2>2. cur'["cons_tail"] = loc[t] + 1 /\ cur'["prod_tail"] = cur["prod_tail"]
    BY <1>1, <1>6 DEF DeqPublish, Release, TypeOK, Cursors
  <2>3. \A k \in Nat : Written(k)' <=> Written(k)
    BY <1>2, <1>3, <1>4, <2>1, <2>2 DEF Written
  <2>4. \A k \in Nat : Taken(k)' <=> Taken(k)
    <3> TAKE k \in Nat
    <3>1. k < loc[t] + 1 <=> k < loc[t] \/ k = loc[t]
      BY <1>1
    <3> QED
      BY <1>2, <1>3, <1>4, <2>1, <2>2, <3>1 DEF Taken
  <2> QED
    BY <1>2, <2>3, <2>4, IndexRange, ContentsKept
<1> QED
  BY <1>5, <1>6

\* The write fills a slot that no live element uses.
LEMMA WriteContents ==
    ASSUME Control, Contents, NEW t \in Threads, EnqWrite(t)
    PROVE  Contents'
<1>1. PICK k : k = loc[t]
  OBVIOUS
<1>2. PICK x : x = <<t, calls[t]>>
  OBVIOUS
<1>3. /\ TypeOK /\ k \in Indices /\ k \in Nat /\ cap \in Nat \ {0} /\ cur["cons_tail"] \in Nat
      /\ cur["prod_tail"] \in Nat
  BY <1>1, IndexRange DEF Control, TypeOK, Cursors
<1>4. pc[t] = "e_write" /\ cur["prod_tail"] <= k /\ k < cur["cons_tail"] + cap
  BY <1>1 DEF EnqWrite, Control, Producing, Reserving
<1>5. /\ UNCHANGED <<cap, cur, loc, got>> /\ pc'[t] \in {"e_wait", "e_publish"}
      /\ \A s \in Threads : s # t => pc'[s] = pc[s]
  BY <1>3 DEF EnqWrite, Goto, config, TypeOK
<1>6. /\ data' = [data EXCEPT ![k % cap] = x] /\ item' = [item EXCEPT ![k] = x]
      /\ owed' = owed \cup {x}
  BY <1>1, <1>2 DEF EnqWrite
<1>7. \A j \in Indices : Written(j)' <=> Written(j) \/ j = k
  BY <1>1, <1>4, <1>5 DEF Written
<1>8. \A j \in Indices : Taken(j)' <=> Taken(j)
  BY <1>4, <1>5 DEF Taken
<1>9. ~Taken(k)
  BY <1>3, <1>4, LiveRange
<1>10. cur["cons_tail"] <= k
  BY <1>3, <1>9, LiveRange
<1>11. k % cap \in 0 .. cap - 1
  BY <1>3, DivMod
<1>12. item'[k] = x /\ data'[k % cap] = x /\ \A j \in Indices : j # k => item'[j] = item[j]
  BY <1>3, <1>6, <1>11 DEF TypeOK
<1>13. \A j \in Indices : Written(j)' /\ ~Taken(j)' => data'[j % cap'] = item'[j]
  <2> SUFFICES ASSUME NEW j \in Indices, Written(j)', ~Taken(j)' PROVE data'[j % cap] = item'[j]
    BY <1>5
  <2>1. CASE j = k
    BY <2>1, <1>12
  <2>2. CASE j # k
    <3>1. Written(j) /\ ~Taken(j) /\ j \in Nat
      BY <1>7, <1>8, <2>2, IndexRange
    <3>2. cur["cons_tail"] <= j /\ j < cur["cons_tail"] + cap
      BY <3>1, LiveRange
    <3>3. j % cap # k % cap
      BY <1>3, <1>4, <1>10, <2>2, <3>1, <3>2, OwnSlot
    <3>4. j % cap \in 0 .. cap - 1
      BY <1>3, <3>1, DivMod
    <3>5. data'[j % cap] = data[j % cap]
      BY <1>3, <1>6, <3>3, <3>4 DEF TypeOK
    <3>6. data[j % cap] = item[j]
      BY <3>1 DEF Contents
    <3> QED
      BY <1>12, <2>2, <3>5, <3>6
  <2> QED
    BY <2>1, <2>2
<1>14. \A j \in Indices : (got'[j] # None => Taken(j)') /\ (Taken(j)' => got'[j] = item'[j])
  <2> TAKE j \in Indices
  <2>1. (got[j] # None => Taken(j)) /\ (Taken(j) => got[j] = item[j] /\ j # k)
    BY <1>9 DEF Contents
  <2> QED
    BY <1>5, <1>8, <1>12, <2>1
<1>15. owed' = {item'[j] : j \in {i \in Indices : Written(i)' /\ ~Taken(i)'}}
  <2>1. owed = {item[j] : j \in {i \in Indices : Written(i) /\ ~Taken(i)}}
    BY DEF Contents
  <2>2. ASSUME NEW y \in owed' PROVE \E j \in {i \in Indices : Written(i)' /\ ~Taken(i)'} : y = item'[j]
    <3>1. CASE y = x
      BY <3>1, <1>3, <1>7, <1>8, <1>9, <1>12
    <3>2. CASE y \in owed /\ y # x
      <4>1. PICK j \in Indices : Written(j) /\ ~Taken(j) /\ y = item[j]
        BY <2>1, <3>2
      <4>2. CASE j = k
        <5>1. Written(k)
          BY <4>1, <4>2
        <5>2. FALSE
          <6>1. PICK s \in Threads : pc[s] \in {"e_wait", "e_publish"} /\ loc[s] = k
            BY <1>3, <1>4, <5>1 DEF Written
          <6>2. s # t
            BY <1>4, <6>1
          <6> QED
            BY <1>1, <1>4, <6>1, <6>2 DEF Control, Exclusive, Reserving
        <5> QED
          BY <5>2
      <4>3. CASE j # k
        BY <1>7, <1>8, <1>12, <4>1, <4>3
      <4> QED
        BY <4>2, <4>3
    <3> QED
      BY <1>6, <2>2, <3>1, <3>2
  <2>3. ASSUME NEW j \in Indices, Written(j)', ~Taken(j)' PROVE item'[j] \in owed'
    <3>1. CASE j = k
      BY <3>1, <1>6, <1>12
    <3>2. CASE j # k
      <4>1. item[j] \in owed
        BY <1>7, <1>8, <2>1, <2>3, <3>2
      <4> QED
        BY <1>6, <1>12, <3>2, <4>1
    <3> QED
      BY <3>1, <3>2
  <2> QED
    BY <2>2, <2>3
<1> QED
  BY <1>13, <1>14, <1>15 DEF Contents

\* The take empties the slot of the element with the thread's index.
LEMMA TakeContents ==
    ASSUME Control, Contents, NEW t \in Threads, DeqTake(t)
    PROVE  Contents'
<1>1. PICK k : k = loc[t]
  OBVIOUS
<1>3. /\ TypeOK /\ k \in Indices /\ k \in Nat /\ cap \in Nat \ {0} /\ cur["cons_tail"] \in Nat
      /\ cur["prod_tail"] \in Nat
  BY <1>1, IndexRange DEF Control, TypeOK, Cursors
<1>4. pc[t] = "d_take" /\ cur["cons_tail"] <= k /\ k < cur["prod_tail"]
  BY <1>1 DEF DeqTake, Control, Consuming, Taking
<1>5. /\ UNCHANGED <<cap, cur, loc, item>> /\ pc'[t] \in {"d_wait", "d_publish"}
      /\ \A s \in Threads : s # t => pc'[s] = pc[s]
  BY <1>3 DEF DeqTake, Goto, config, TypeOK
<1>6. /\ data' = [data EXCEPT ![k % cap] = None] /\ got' = [got EXCEPT ![k] = data[k % cap]]
      /\ owed' = owed \ {data[k % cap]}
  BY <1>1 DEF DeqTake
<1>7. \A j \in Indices : Taken(j)' <=> Taken(j) \/ j = k
  BY <1>1, <1>4, <1>5 DEF Taken
<1>8. \A j \in Indices : Written(j)' <=> Written(j)
  BY <1>4, <1>5 DEF Written
<1>9. Written(k) /\ ~Taken(k)
  <2>1. Written(k)
    BY <1>4 DEF Written
  <2>2. ASSUME NEW s \in Threads, pc[s] \in {"d_wait", "d_publish"}, loc[s] = k PROVE FALSE
    BY <1>1, <1>4, <2>2 DEF Control, Exclusive, Taking
  <2> QED
    BY <1>3, <1>4, <2>1, <2>2 DEF Taken
<1>10. data[k % cap] = item[k]
  BY <1>3, <1>9 DEF Contents
<1>11. k < cur["cons_tail"] + cap
  BY <1>3, <1>9, LiveRange
<1>12. k % cap \in 0 .. cap - 1
  BY <1>3, DivMod
<1>13. \A j \in Indices : Written(j)' /\ ~Taken(j)' => data'[j % cap'] = item'[j]
  <2> SUFFICES ASSUME NEW j \in Indices, Written(j)', ~Taken(j)' PROVE data'[j % cap] = item[j]
    BY <1>5
  <2>1. Written(j) /\ ~Taken(j) /\ j \in Nat /\ j # k
    BY <1>7, <1>8, IndexRange
  <2>2. cur["cons_tail"] <= j /\ j < cur["cons_tail"] + cap
    BY <2>1, LiveRange
  <2>3. j % cap # k % cap
    BY <1>3, <1>4, <1>11, <2>1, <2>2, OwnSlot
  <2>4. j % cap \in 0 .. cap - 1
    BY <1>3, <2>1, DivMod
  <2>5. data'[j % cap] = data[j % cap]
    BY <1>3, <1>6, <2>3, <2>4 DEF TypeOK
  <2> QED
    BY <2>1, <2>5 DEF Contents
<1>14. \A j \in Indices : (got'[j] # None => Taken(j)') /\ (Taken(j)' => got'[j] = item'[j])
  <2> TAKE j \in Indices
  <2>1. CASE j = k
    BY <2>1, <1>3, <1>5, <1>6, <1>7, <1>10 DEF TypeOK
  <2>2. CASE j # k
    <3>1. got'[j] = got[j]
      BY <1>3, <1>6, <2>2 DEF TypeOK
    <3> QED
      BY <1>5, <1>7, <2>2, <3>1 DEF Contents
  <2> QED
    BY <2>1, <2>2
<1>15. owed' = {item'[j] : j \in {i \in Indices : Written(i)' /\ ~Taken(i)'}}
  <2>1. owed = {item[j] : j \in {i \in Indices : Written(i) /\ ~Taken(i)}}
    BY DEF Contents
  <2>2. owed' = owed \ {item[k]}
    BY <1>6, <1>10
  <2>3. ASSUME NEW y \in owed' PROVE \E j \in {i \in Indices : Written(i)' /\ ~Taken(i)'} : y = item'[j]
    <3>1. PICK j \in Indices : Written(j) /\ ~Taken(j) /\ y = item[j]
      BY <2>1, <2>2, <2>3
    <3>2. j # k
      BY <2>2, <2>3, <3>1
    <3> QED
      BY <1>5, <1>7, <1>8, <3>1, <3>2
  <2>4. ASSUME NEW j \in Indices, Written(j)', ~Taken(j)' PROVE item'[j] \in owed'
    <3>1. Written(j) /\ ~Taken(j) /\ j # k
      BY <1>7, <1>8, <2>4
    <3>2. item[j] # item[k]
      BY <1>3, <1>9, <3>1, IndexRange, ItemsDiffer
    <3>3. item[j] \in owed
      BY <2>1, <3>1
    <3> QED
      BY <1>5, <2>2, <3>2, <3>3
  <2> QED
    BY <2>3, <2>4
<1> QED
  BY <1>13, <1>14, <1>15 DEF Contents

\* With nobody inside a call, the elements owed are those between the tails.
LEMMA QuietContents ==
    ASSUME Control, Contents, Quiet
    PROVE  owed = {data[k % cap] : k \in Residual}
<1>1. TypeOK /\ cur["cons_tail"] \in Nat /\ cur["prod_tail"] \in Nat /\ cur["prod_tail"] \in Indices
  BY IndexRange DEF Control, TypeOK, Cursors
<1>2. \A k \in Indices : Written(k) /\ ~Taken(k) <=> k \in Residual
  <2> TAKE k \in Indices
  <2>1. k \in Nat
    BY IndexRange
  <2>2. Written(k) <=> k < cur["prod_tail"]
    BY DEF Written, Quiet
  <2>3. Taken(k) <=> k < cur["cons_tail"]
    BY DEF Taken, Quiet
  <2> QED
    BY <1>1, <2>1, <2>2, <2>3 DEF Residual
<1>3. \A k \in Residual : k \in Indices
  <2> TAKE k \in Residual
  <2>1. k \in Nat /\ k <= cur["prod_tail"]
    BY <1>1 DEF Residual
  <2> QED
    BY <1>1, <2>1, IndexRange
<1>4. {i \in Indices : Written(i) /\ ~Taken(i)} = Residual
  BY <1>2, <1>3
<1>5. \A k \in Residual : data[k % cap] = item[k]
  BY <1>2, <1>3 DEF Contents
<1>6. owed = {item[k] : k \in Residual}
  BY <1>4 DEF Contents
<1> QED
  BY <1>5, <1>6

\* clear disposes of every element.
LEMMA ClearContents ==
    ASSUME Control, Contents, Clear
    PROVE  Contents'
<1>1. owed' = {}
  BY QuietContents DEF Clear
<1>2. cur'["prod_tail"] = 0 /\ cur'["cons_tail"] = 0
  BY DEF Clear, Cursors
<1>3. \A t \in Threads : pc'[t] = "idle"
  BY DEF Clear, Quiet
<1>4. \A k \in Indices : ~Written(k)' /\ ~Taken(k)'
  BY <1>2, <1>3, IndexRange DEF Written, Taken
<1>5. \A k \in Indices : got'[k] = None
  BY DEF Clear, Empty
<1> QED
  BY <1>1, <1>4, <1>5 DEF Contents

\* The initial state.
LEMMA InitContents == Init => Contents
<1> SUFFICES ASSUME Init PROVE Contents
  OBVIOUS
<1>1. cur["prod_tail"] = 0 /\ cur["cons_tail"] = 0
  BY DEF Init, Cursors
<1>2. \A k \in Indices : ~Written(k) /\ ~Taken(k)
  BY <1>1, IndexRange DEF Written, Taken, Init
<1>3. owed = {} /\ \A k \in Indices : got[k] = None
  BY DEF Init, Empty
<1> QED
  BY <1>2, <1>3 DEF Contents

\* Every step of the ring keeps Contents.
LEMMA NextContents ==
    ASSUME Control, Contents, [Next]_vars
    PROVE  Contents'
<1>1. ASSUME NEW t \in Threads, EnqHead(t) \/ DeqHead(t) \/ Step(t) PROVE Contents'
  BY <1>1, QuietStepContents, PublishContents, WriteContents, TakeContents DEF Step
<1>2. ASSUME UNCHANGED vars PROVE Contents'
  BY <1>2, ContentsKept DEF vars, config, hist, Written, Taken
<1> QED
  BY <1>1, <1>2, ClearContents DEF Next

-----------------------------------------------------------------------------
(* Theorems. *)

\* The inductive invariant of the ring.
THEOREM RingInvariant == Spec => []IInv
<1>1. Init => IInv
  BY InitControl, InitSync, InitContents DEF IInv
<1>2. IInv /\ [Next]_vars => IInv'
  BY NextControl, NextSync, NextContents DEF IInv
<1> QED
  BY <1>1, <1>2, PTL DEF Spec

\* Exactly-once FIFO for every number of threads, capacity and number of
\* calls: what dequeue returns for an index is what enqueue stored for it.
THEOREM RingExactlyOnce == Spec => []ExactlyOnce
<1>1. IInv => ExactlyOnce
  BY DEF IInv, Contents, ExactlyOnce
<1> QED
  BY <1>1, RingInvariant, PTL

\* clear and the destructor dispose of exactly what was enqueued and not
\* dequeued, once nobody is inside a call.
THEOREM RingResidualExact == Spec => []ResidualExact
<1>1. IInv => ResidualExact
  BY QuietContents DEF IInv, ResidualExact, Residual
<1> QED
  BY <1>1, RingInvariant, PTL

-----------------------------------------------------------------------------
(* The ring implements the bounded FIFO queue. *)

\* A sequence that agrees with another one and has one element more.
LEMMA ExtendSeq ==
    ASSUME NEW S, NEW a \in Seq(S), NEW b \in Seq(S), NEW x \in S, NEW n \in Nat,
           Len(a) = n, Len(b) = n + 1, \A i \in 1 .. n : b[i] = a[i], b[n + 1] = x
    PROVE  b = Append(a, x)
<1>1. /\ Append(a, x) \in Seq(S) /\ Len(Append(a, x)) = n + 1
      /\ \A i \in 1 .. n : Append(a, x)[i] = a[i]
      /\ Append(a, x)[n + 1] = x
  BY AppendProperties
<1>2. \A i \in 1 .. n + 1 : i \in 1 .. n \/ i = n + 1
  OBVIOUS
<1>3. \A i \in 1 .. n + 1 : b[i] = Append(a, x)[i]
  BY <1>1, <1>2
<1> QED
  BY <1>1, <1>3, SeqEqual

\* The abstract queue and its output are sequences, element by element.
QueueSeqs ==
    /\ Buffered \in Seq(Elements \cup {None}) /\ Delivered \in Seq(Elements \cup {None})
    /\ Len(Buffered) = cur["prod_tail"] - cur["cons_tail"] /\ Len(Delivered) = cur["cons_tail"]
    /\ \A i \in 1 .. cur["prod_tail"] - cur["cons_tail"] : Buffered[i] = item[cur["cons_tail"] + i - 1]
    /\ \A i \in 1 .. cur["cons_tail"] : Delivered[i] = got[i - 1]

\* The cursors are in order, so both are.
LEMMA AreSequences == TypeOK /\ Order => QueueSeqs
<1> SUFFICES ASSUME TypeOK, Order PROVE QueueSeqs
  OBVIOUS
<1>1. PICK n : n = cur["prod_tail"] - cur["cons_tail"]
  OBVIOUS
<1>2. /\ cur["prod_tail"] \in Nat /\ cur["cons_tail"] \in Nat /\ n \in Nat
      /\ cur["prod_tail"] \in Indices /\ cur["cons_tail"] \in Indices
  <2>1. /\ cur["prod_tail"] \in Nat /\ cur["cons_tail"] \in Nat
        /\ cur["prod_tail"] \in Indices /\ cur["cons_tail"] \in Indices
    BY IndexRange DEF TypeOK, Cursors
  <2>2. cur["cons_tail"] <= cur["prod_tail"]
    BY DEF Order
  <2> QED
    BY <1>1, <2>1, <2>2
<1>3. \A i \in 1 .. n : cur["cons_tail"] + i - 1 \in Indices
  <2> TAKE i \in 1 .. n
  <2>1. cur["cons_tail"] + i - 1 \in Nat /\ cur["cons_tail"] + i - 1 <= cur["prod_tail"]
    BY <1>1, <1>2
  <2> QED
    BY <1>2, <2>1, IndexRange
<1>4. \A i \in 1 .. cur["cons_tail"] : i - 1 \in Indices
  <2> TAKE i \in 1 .. cur["cons_tail"]
  <2>1. i - 1 \in Nat /\ i - 1 <= cur["cons_tail"]
    BY <1>2
  <2> QED
    BY <1>2, <2>1, IndexRange
<1>5. /\ \A i \in 1 .. n : item[cur["cons_tail"] + i - 1] \in Elements \cup {None}
      /\ \A i \in 1 .. cur["cons_tail"] : got[i - 1] \in Elements \cup {None}
  BY <1>3, <1>4 DEF TypeOK
<1>6. Buffered \in Seq(Elements \cup {None}) /\ DOMAIN Buffered = 1 .. n
  BY <1>1, <1>2, <1>5, IsASeq DEF Buffered
<1>7. Delivered \in Seq(Elements \cup {None}) /\ DOMAIN Delivered = 1 .. cur["cons_tail"]
  BY <1>2, <1>5, IsASeq DEF Delivered
<1>8. Len(Buffered) = n /\ Len(Delivered) = cur["cons_tail"]
  BY <1>2, <1>6, <1>7, LenProperties
<1> QED
  BY <1>1, <1>6, <1>7, <1>8 DEF QueueSeqs, Buffered, Delivered

\* A new ring is an empty queue.
LEMMA InitAbstract == Init => Abstract!Init
<1> SUFFICES ASSUME Init PROVE Abstract!Init
  OBVIOUS
<1>1. cap \in Nat \ {0} /\ cur["prod_tail"] = 0 /\ cur["cons_tail"] = 0
  BY RingAssumption DEF Init, Cursors
<1>2. Buffered = <<>> /\ Delivered = <<>>
  BY <1>1 DEF Buffered, Delivered
<1> QED
  BY <1>1, <1>2 DEF Abstract!Init

\* Steps that publish nothing leave the queue alone.
LEMMA HiddenStep ==
    ASSUME Control, NEW t \in Threads,
           \/ EnqHead(t) \/ DeqHead(t) \/ EnqCheck(t) \/ DeqCheck(t) \/ EnqCas(t) \/ DeqCas(t)
           \/ EnqRetry(t) \/ DeqRetry(t) \/ EnqWait(t) \/ DeqWait(t)
    PROVE  UNCHANGED Abstract!vars
<1>1. UNCHANGED <<cap, item, got>>
  BY DEF EnqHead, DeqHead, EnqCheck, DeqCheck, EnqCas, DeqCas, EnqRetry, DeqRetry, EnqWait, DeqWait, config, hist
<1>2. cur'["prod_tail"] = cur["prod_tail"] /\ cur'["cons_tail"] = cur["cons_tail"]
  BY DEF EnqHead, DeqHead, EnqCheck, DeqCheck, EnqCas, DeqCas, EnqRetry, DeqRetry, EnqWait, DeqWait, Swap,
     Control, TypeOK, Cursors
<1> QED
  BY <1>1, <1>2 DEF Abstract!vars, Buffered, Delivered

\* A slot is written behind prod_tail and taken ahead of cons_tail: neither
\* shows before it is published.
LEMMA AccessHidden ==
    ASSUME Control, NEW t \in Threads, EnqWrite(t) \/ DeqTake(t)
    PROVE  UNCHANGED Abstract!vars
<1>1. PICK k : k = loc[t]
  OBVIOUS
<1>2. /\ TypeOK /\ k \in Nat /\ cur["prod_tail"] \in Nat /\ cur["cons_tail"] \in Nat
      /\ cur["prod_tail"] \in Indices /\ cur["cons_tail"] \in Indices
  BY <1>1, IndexRange DEF Control, TypeOK, Cursors
<1>3. UNCHANGED <<cap, cur>>
  BY DEF EnqWrite, DeqTake, config
<1>4. \A j \in Nat : j < cur["prod_tail"] => item'[j] = item[j]
  <2>1. CASE EnqWrite(t)
    <3>1. cur["prod_tail"] <= k /\ item' = [item EXCEPT ![k] = <<t, calls[t]>>]
      BY <1>1, <2>1 DEF EnqWrite, Control, Producing, Reserving
    <3> QED
      BY <1>2, <3>1 DEF TypeOK
  <2>2. CASE DeqTake(t)
    BY <2>2 DEF DeqTake
  <2> QED
    BY <2>1, <2>2
<1>5. \A j \in Nat : j < cur["cons_tail"] => got'[j] = got[j]
  <2>1. CASE EnqWrite(t)
    BY <2>1 DEF EnqWrite
  <2>2. CASE DeqTake(t)
    <3>1. cur["cons_tail"] <= k /\ got' = [got EXCEPT ![k] = data[k % cap]]
      BY <1>1, <2>2 DEF DeqTake, Control, Consuming, Taking
    <3> QED
      BY <1>2, <3>1 DEF TypeOK
  <2> QED
    BY <2>1, <2>2
<1>6. Buffered' = Buffered
  <2>1. \A i \in 1 .. cur["prod_tail"] - cur["cons_tail"] :
            item'[cur["cons_tail"] + i - 1] = item[cur["cons_tail"] + i - 1]
    BY <1>2, <1>4
  <2> QED
    BY <1>3, <2>1 DEF Buffered
<1>7. Delivered' = Delivered
  <2>1. \A i \in 1 .. cur["cons_tail"] : got'[i - 1] = got[i - 1]
    BY <1>2, <1>5
  <2> QED
    BY <1>3, <2>1 DEF Delivered
<1> QED
  BY <1>3, <1>6, <1>7 DEF Abstract!vars

\* Publishing prod_tail is a Put: there is room, and the element published is
\* the next one of the queue.
LEMMA PublishPuts ==
    ASSUME Control, Control', NEW t \in Threads, EnqPublish(t)
    PROVE  Abstract!Next
<1>1. PICK k : k = loc[t]
  OBVIOUS
<1>2. PICK n : n = cur["prod_tail"] - cur["cons_tail"]
  OBVIOUS
<1>3. /\ TypeOK /\ QueueSeqs /\ QueueSeqs' /\ k \in Nat /\ cap \in Nat \ {0} /\ n \in Nat
      /\ cur["prod_tail"] \in Nat /\ cur["cons_tail"] \in Nat
  <2>1. TypeOK /\ Order /\ (TypeOK /\ Order)'
    BY DEF Control
  <2>2. QueueSeqs /\ QueueSeqs'
    BY <2>1, AreSequences, PTL
  <2>3. k \in Nat /\ cap \in Nat \ {0} /\ cur["prod_tail"] \in Nat /\ cur["cons_tail"] \in Nat
    BY <1>1, <2>1, IndexRange DEF TypeOK, Cursors
  <2>4. cur["cons_tail"] <= cur["prod_tail"]
    BY <2>1 DEF Order
  <2> QED
    BY <1>2, <2>1, <2>2, <2>3, <2>4
<1>4. pc[t] = "e_publish" /\ k = cur["prod_tail"] /\ k < cur["cons_tail"] + cap
  BY <1>1 DEF EnqPublish, Control, Producing, Reserving
<1>5. UNCHANGED <<cap, item, got>> /\ cur'["prod_tail"] = k + 1 /\ cur'["cons_tail"] = cur["cons_tail"]
  BY <1>1, <1>3 DEF EnqPublish, Release, config, hist, TypeOK, Cursors
<1>6. PICK x : x = item[k]
  OBVIOUS
<1>7. x \in Elements
  <2>1. PICK f \in [0 .. Issued - 1 -> Elements] : Stamps(f)
    BY DEF Control, Stamped
  <2>2. Written(k)
    BY <1>1, <1>4 DEF Written
  <2>3. k \in 0 .. Issued - 1
    BY <1>3, <2>2, LiveRange
  <2> QED
    BY <1>6, <2>1, <2>2, <2>3 DEF Stamps
<1>8. /\ Buffered \in Seq(Elements \cup {None}) /\ Len(Buffered) = n
      /\ \A i \in 1 .. n : Buffered[i] = item[cur["cons_tail"] + i - 1]
  BY <1>2, <1>3 DEF QueueSeqs
<1>9. n < cap /\ cur'["prod_tail"] - cur'["cons_tail"] = n + 1
  BY <1>2, <1>3, <1>4, <1>5
<1>10. /\ Buffered' \in Seq(Elements \cup {None}) /\ Len(Buffered') = n + 1
       /\ \A i \in 1 .. n + 1 : Buffered'[i] = item[cur["cons_tail"] + i - 1]
  BY <1>3, <1>5, <1>9 DEF QueueSeqs
<1>11. \A i \in 1 .. n : Buffered'[i] = Buffered[i]
  <2> TAKE i \in 1 .. n
  <2>1. i \in 1 .. n + 1
    BY <1>3
  <2> QED
    BY <1>8, <1>10, <2>1
<1>12. Buffered'[n + 1] = x
  <2>1. cur["cons_tail"] + (n + 1) - 1 = k /\ n + 1 \in 1 .. n + 1
    BY <1>2, <1>3, <1>4
  <2> QED
    BY <1>6, <1>10, <2>1
<1>13. Buffered' = Append(Buffered, x)
  BY <1>3, <1>7, <1>8, <1>10, <1>11, <1>12, ExtendSeq
<1>14. Delivered' = Delivered
  BY <1>5 DEF Delivered
<1>15. Abstract!Put(x)
  BY <1>5, <1>8, <1>9, <1>13, <1>14 DEF Abstract!Put
<1> QED
  BY <1>7, <1>15 DEF Abstract!Next, Elements

\* Publishing cons_tail is a Take: what the consumer took from its slot is the
\* oldest element of the queue.
LEMMA PublishTakes ==
    ASSUME Control, Control', Contents, NEW t \in Threads, DeqPublish(t)
    PROVE  Abstract!Next
<1>1. PICK k : k = loc[t]
  OBVIOUS
<1>2. PICK n : n = cur["prod_tail"] - cur["cons_tail"]
  OBVIOUS
<1>3. /\ TypeOK /\ QueueSeqs /\ QueueSeqs' /\ k \in Nat /\ k \in Indices /\ n \in Nat
      /\ cur["prod_tail"] \in Nat /\ cur["cons_tail"] \in Nat
  <2>1. TypeOK /\ Order /\ (TypeOK /\ Order)'
    BY DEF Control
  <2>2. QueueSeqs /\ QueueSeqs'
    BY <2>1, AreSequences, PTL
  <2>3. /\ k \in Nat /\ k \in Indices /\ cur["prod_tail"] \in Nat /\ cur["cons_tail"] \in Nat
    BY <1>1, <2>1, IndexRange DEF TypeOK, Cursors
  <2>4. cur["cons_tail"] <= cur["prod_tail"]
    BY <2>1 DEF Order
  <2> QED
    BY <1>2, <2>1, <2>2, <2>3, <2>4
<1>4. pc[t] = "d_publish" /\ k = cur["cons_tail"] /\ k < cur["prod_tail"]
  BY <1>1 DEF DeqPublish, Control, Consuming, Taking
<1>5. UNCHANGED <<cap, item, got>> /\ cur'["cons_tail"] = k + 1 /\ cur'["prod_tail"] = cur["prod_tail"]
  BY <1>1, <1>3 DEF DeqPublish, Release, config, hist, TypeOK, Cursors
<1>6. got[k] = item[k]
  BY <1>1, <1>3, <1>4 DEF Contents, Taken
<1>7. n >= 1 /\ cur'["prod_tail"] - cur'["cons_tail"] = n - 1
  BY <1>2, <1>3, <1>4, <1>5
<1>8. /\ Buffered \in Seq(Elements \cup {None}) /\ Delivered \in Seq(Elements \cup {None})
      /\ Len(Buffered) = n /\ Len(Delivered) = k
      /\ \A i \in 1 .. n : Buffered[i] = item[k + i - 1]
      /\ \A i \in 1 .. k : Delivered[i] = got[i - 1]
  BY <1>2, <1>3, <1>4 DEF QueueSeqs
<1>9. /\ Buffered' \in Seq(Elements \cup {None}) /\ Delivered' \in Seq(Elements \cup {None})
      /\ Len(Buffered') = n - 1 /\ Len(Delivered') = k + 1
      /\ \A i \in 1 .. n - 1 : Buffered'[i] = item[(k + 1) + i - 1]
      /\ \A i \in 1 .. k + 1 : Delivered'[i] = got[i - 1]
  BY <1>3, <1>5, <1>7 DEF QueueSeqs
<1>10. Buffered # <<>> /\ Head(Buffered) = item[k]
  <2>1. Buffered[1] = item[k]
    BY <1>3, <1>7, <1>8
  <2> QED
    BY <1>7, <1>8, <2>1
<1>11. /\ Tail(Buffered) \in Seq(Elements \cup {None}) /\ Len(Tail(Buffered)) = n - 1
       /\ \A i \in 1 .. n - 1 : Tail(Buffered)[i] = Buffered[i + 1]
  BY <1>8, <1>10, HeadTailProperties
<1>12. Buffered' = Tail(Buffered)
  <2>1. \A i \in 1 .. n - 1 : Buffered'[i] = Tail(Buffered)[i]
    <3> TAKE i \in 1 .. n - 1
    <3>1. i + 1 \in 1 .. n /\ (k + 1) + i - 1 = k + (i + 1) - 1
      BY <1>3
    <3> QED
      BY <1>8, <1>9, <1>11, <3>1
  <2> QED
    BY <1>9, <1>11, <2>1, SeqEqual
<1>13. Delivered' = Append(Delivered, Head(Buffered))
  <2>1. PICK x : x = Head(Buffered) /\ x = got[k]
    BY <1>6, <1>10
  <2>2. x \in Elements \cup {None}
    BY <1>3, <2>1 DEF TypeOK
  <2>3. \A i \in 1 .. k : Delivered'[i] = Delivered[i]
    <3> TAKE i \in 1 .. k
    <3>1. i \in 1 .. k + 1
      BY <1>3
    <3> QED
      BY <1>8, <1>9, <3>1
  <2>4. Delivered'[k + 1] = x
    <3>1. k + 1 \in 1 .. k + 1 /\ (k + 1) - 1 = k
      BY <1>3
    <3> QED
      BY <1>9, <2>1, <3>1
  <2> QED
    BY <1>3, <1>8, <1>9, <2>1, <2>2, <2>3, <2>4, ExtendSeq
<1>14. Abstract!Take
  BY <1>5, <1>10, <1>12, <1>13 DEF Abstract!Take
<1> QED
  BY <1>14 DEF Abstract!Next

\* clear empties the queue.
LEMMA ClearAbstract ==
    ASSUME Clear
    PROVE  Abstract!Clear
<1>1. cap' = cap /\ cur'["prod_tail"] = 0 /\ cur'["cons_tail"] = 0
  BY DEF Clear, Cursors, config
<1>2. Buffered' = <<>> /\ Delivered' = <<>>
  BY <1>1 DEF Buffered, Delivered
<1> QED
  BY <1>1, <1>2 DEF Abstract!Clear

\* Every step of the ring is a step of the queue or hidden.
LEMMA NextAbstract ==
    ASSUME Control, Control', Contents, [Next]_vars
    PROVE  [Abstract!Next \/ Abstract!Clear]_Abstract!vars
<1>1. ASSUME NEW t \in Threads, EnqHead(t) \/ DeqHead(t) \/ Step(t)
      PROVE  Abstract!Next \/ UNCHANGED Abstract!vars
  BY <1>1, HiddenStep, AccessHidden, PublishPuts, PublishTakes DEF Step
<1>2. ASSUME UNCHANGED vars PROVE UNCHANGED Abstract!vars
  BY <1>2 DEF vars, config, hist, Abstract!vars, Buffered, Delivered
<1> QED
  BY <1>1, <1>2, ClearAbstract DEF Next

\* ring.lls implements the bounded FIFO queue, lock-free and on relaxed
\* memory, for every number of threads, capacity and number of calls: every
\* successful enqueue and dequeue takes effect at one point of its call.
THEOREM RingLinearizes == Spec => LinearizesToFifo
<1>1. IInv /\ IInv' /\ [Next]_vars => [Abstract!Next \/ Abstract!Clear]_Abstract!vars
  BY NextAbstract DEF IInv
<1> QED
  BY <1>1, InitAbstract, RingInvariant, PTL DEF Spec, LinearizesToFifo, Abstract!ClearableSpec

-----------------------------------------------------------------------------
(* No index is orphaned: the waits that order publication. *)

\* Every index handed out and not yet published belongs to a thread inside its
\* call.
NoOrphan ==
    multi =>
        /\ \A k \in cur["prod_tail"] .. cur["prod_head"] - 1 :
              \E t \in Threads : pc[t] \in Reserving /\ loc[t] = k
        /\ \A k \in cur["cons_tail"] .. cur["cons_head"] - 1 :
              \E t \in Threads : pc[t] \in Taking /\ loc[t] = k

\* Threads whose publish-order wait finds the tail at somebody else's index.
Spinning(t) ==
    \/ pc[t] = "e_wait" /\ cur["prod_tail"] # loc[t]
    \/ pc[t] = "d_wait" /\ cur["cons_tail"] # loc[t]

\* Nobody spins for nobody: a thread that waits for its predecessors to
\* publish has one inside its call, on the same side and at an earlier index,
\* that does not spin itself.
SpinsForSomebody ==
    \A t \in Threads : Spinning(t) =>
        \E s \in Threads : /\ pc[s] \in (IF pc[t] = "e_wait" THEN Reserving ELSE Taking)
                           /\ loc[s] < loc[t] /\ ~Spinning(s)

\* A step that moves neither reservation cursor nor tail and lets no holder go.
LEMMA OrphanKept ==
    ASSUME NoOrphan, UNCHANGED <<multi, cur>>,
           \A t \in Threads : /\ pc[t] \in Reserving => pc'[t] \in Reserving /\ loc'[t] = loc[t]
                              /\ pc[t] \in Taking => pc'[t] \in Taking /\ loc'[t] = loc[t]
    PROVE  NoOrphan'
BY DEF NoOrphan

\* Steps before the reservation, the access to the slot and the end of the wait.
LEMMA LocalNoOrphan ==
    ASSUME Control, NoOrphan, NEW t \in Threads,
           EnqHead(t) \/ EnqCheck(t) \/ EnqRetry(t) \/ EnqWrite(t) \/ EnqWait(t)
           \/ DeqHead(t) \/ DeqCheck(t) \/ DeqRetry(t) \/ DeqTake(t) \/ DeqWait(t)
    PROVE  NoOrphan'
<1> USE DEF Goto, config, hist, Reserving, Taking
<1>1. TypeOK /\ Modes
  BY DEF Control
<1>2. pc \in [Threads -> {"idle"} \cup Enqueuing \cup Dequeuing] /\ loc \in [Threads -> Indices]
  BY <1>1 DEF TypeOK
<1>3. CASE EnqHead(t) \/ DeqHead(t)
  BY <1>2, <1>3, OrphanKept DEF EnqHead, DeqHead
<1>4. CASE EnqCheck(t) \/ DeqCheck(t)
  BY <1>2, <1>4, OrphanKept DEF EnqCheck, DeqCheck
<1>5. CASE EnqRetry(t) \/ DeqRetry(t)
  BY <1>2, <1>5, OrphanKept DEF EnqRetry, DeqRetry
<1>6. CASE EnqWrite(t)
  BY <1>2, <1>6, OrphanKept DEF EnqWrite
<1>7. CASE DeqTake(t)
  BY <1>2, <1>7, OrphanKept DEF DeqTake
<1>8. CASE EnqWait(t) \/ DeqWait(t)
  BY <1>2, <1>8, OrphanKept DEF EnqWait, DeqWait
<1> QED
  BY <1>3, <1>4, <1>5, <1>6, <1>7, <1>8

\* The winner of a compare_set holds the index it reserved.
LEMMA CasNoOrphan ==
    ASSUME Control, NoOrphan, NEW t \in Threads, EnqCas(t) \/ DeqCas(t)
    PROVE  NoOrphan'
<1> USE DEF Goto, config, hist, Reserving, Taking
<1>1. TypeOK
  BY DEF Control
<1>2. /\ pc \in [Threads -> {"idle"} \cup Enqueuing \cup Dequeuing]
      /\ loc \in [Threads -> Nat] /\ cur \in [Cursors -> Nat]
  BY <1>1, IndexRange DEF TypeOK
<1>3. CASE EnqCas(t)
  BY <1>2, <1>3 DEF EnqCas, Swap, NoOrphan, Cursors
<1>4. CASE DeqCas(t)
  BY <1>2, <1>4 DEF DeqCas, Swap, NoOrphan, Cursors
<1> QED
  BY <1>3, <1>4

\* Publishing moves the tail past the publisher's index only; the holders of
\* the later indices are other threads.
LEMMA PublishNoOrphan ==
    ASSUME Control, NoOrphan, NEW t \in Threads, EnqPublish(t) \/ DeqPublish(t)
    PROVE  NoOrphan'
<1> USE DEF Goto, config, hist, Reserving, Taking
<1>1. TypeOK /\ Producing(t) /\ Consuming(t)
  BY DEF Control
<1>2. /\ pc \in [Threads -> {"idle"} \cup Enqueuing \cup Dequeuing]
      /\ loc \in [Threads -> Nat] /\ cur \in [Cursors -> Nat]
  BY <1>1, IndexRange DEF TypeOK
<1>3. CASE EnqPublish(t)
  <2>1. loc[t] = cur["prod_tail"]
    BY <1>1, <1>3 DEF EnqPublish, Producing
  <2> QED
    BY <1>2, <1>3, <2>1 DEF EnqPublish, Release, NoOrphan, Cursors
<1>4. CASE DeqPublish(t)
  <2>1. loc[t] = cur["cons_tail"]
    BY <1>1, <1>4 DEF DeqPublish, Consuming
  <2> QED
    BY <1>2, <1>4, <2>1 DEF DeqPublish, Release, NoOrphan, Cursors
<1> QED
  BY <1>3, <1>4

\* NoOrphan is preserved by every step.
LEMMA NextNoOrphan ==
    ASSUME Control, NoOrphan, [Next]_vars
    PROVE  NoOrphan'
<1>1. ASSUME NEW t \in Threads, EnqHead(t) \/ DeqHead(t) \/ Step(t)
      PROVE  NoOrphan'
  BY <1>1, LocalNoOrphan, CasNoOrphan, PublishNoOrphan DEF Step
<1>2. CASE Clear
  BY <1>2 DEF Clear, NoOrphan, Cursors
<1>3. CASE UNCHANGED vars
  BY <1>3 DEF vars, config, NoOrphan
<1> QED
  BY <1>1, <1>2, <1>3 DEF Next

\* Whoever waits in the publication order waits for a thread inside its call.
LEMMA SpinnerHasPeer ==
    ASSUME Control, NoOrphan
    PROVE  SpinsForSomebody
<1> SUFFICES ASSUME NEW t \in Threads, Spinning(t)
             PROVE  \E s \in Threads :
                        /\ pc[s] \in (IF pc[t] = "e_wait" THEN Reserving ELSE Taking)
                        /\ loc[s] < loc[t] /\ ~Spinning(s)
  BY DEF SpinsForSomebody
<1>1. /\ loc \in [Threads -> Nat] /\ cur \in [Cursors -> Nat] /\ multi \in BOOLEAN
      /\ Producing(t) /\ Consuming(t) /\ Modes
  BY IndexRange DEF Control, TypeOK
<1>2. CASE pc[t] = "e_wait" /\ cur["prod_tail"] # loc[t]
  <2>1. multi
    BY <1>1, <1>2 DEF Modes, Enqueuing
  <2>2. cur["prod_tail"] < loc[t] /\ loc[t] < cur["prod_head"]
    BY <1>1, <1>2, <2>1 DEF Producing, Reserving, Cursors
  <2>3. PICK s \in Threads : pc[s] \in Reserving /\ loc[s] = cur["prod_tail"]
    BY <1>1, <2>1, <2>2 DEF NoOrphan, Cursors
  <2> QED
    BY <1>2, <2>2, <2>3 DEF Spinning, Reserving
<1>3. CASE pc[t] = "d_wait" /\ cur["cons_tail"] # loc[t]
  <2>1. multi
    BY <1>1, <1>3 DEF Modes, Dequeuing
  <2>2. cur["cons_tail"] < loc[t] /\ loc[t] < cur["cons_head"]
    BY <1>1, <1>3, <2>1 DEF Consuming, Taking, Cursors
  <2>3. PICK s \in Threads : pc[s] \in Taking /\ loc[s] = cur["cons_tail"]
    BY <1>1, <2>1, <2>2 DEF NoOrphan, Cursors
  <2> QED
    BY <1>3, <2>2, <2>3 DEF Spinning, Taking
<1> QED
  BY <1>2, <1>3 DEF Spinning

\* The waits that order publication never wait for nobody.
THEOREM RingSpins == Spec => []SpinsForSomebody
<1>1. Init => NoOrphan
  BY DEF Init, NoOrphan, Cursors
<1> QED
  BY <1>1, NextNoOrphan, SpinnerHasPeer, RingControl, PTL DEF Spec
=============================================================================
