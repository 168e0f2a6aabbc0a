-------------------------- MODULE RegexCacheProofs --------------------------
(***************************************************************************)
(* Machine-checked proofs about the pattern cache: for any number of slots *)
(* and patterns, and any calls, it holds the patterns used last.           *)
(***************************************************************************)
EXTENDS RegexCache, FiniteSetTheorems, SequenceTheorems, WellFoundedInduction, TLAPS

TypeOK == /\ slots \in [Slot -> [pat : CachePatterns \cup {<<>>}, stamp : Nat]]
          /\ recent \in Seq(CachePatterns) /\ clock = Len(recent)

\* A slot is stamped with the last call for its pattern.
LastUse ==
  \A i \in Slot :
    /\ slots[i].pat = <<>> <=> slots[i].stamp = 0
    /\ slots[i].pat # <<>> =>
         /\ slots[i].stamp \in 1 .. clock /\ recent[slots[i].stamp] = slots[i].pat
         /\ \A k \in 1 .. clock : slots[i].stamp < k => recent[k] # slots[i].pat

\* No call is stamped on two slots.
OneSlot == \A i, j \in Slot : slots[i].stamp = slots[j].stamp /\ slots[i].stamp # 0 => i = j

Held(p) == \E i \in Slot : slots[i].pat = p

\* A pattern that was used and is not held was used before all that are.
Evicted == \A k \in 1 .. clock : ~Held(recent[k]) => \A i \in Slot : k < slots[i].stamp

IInv == TypeOK /\ LastUse /\ OneSlot /\ Evicted

\* A nonempty set of numbers has a least one.
LEMMA LeastNumber ==
    ASSUME NEW S, S \subseteq Nat, S # {}
    PROVE  \E n \in S : \A m \in S : n <= m
<1>1. PICK n \in S : \A m \in S : ~(<<m, n>> \in OpToRel(<, Nat))
  BY WFMin, NatLessThanWellFounded, Zenon
<1>2. \A m \in S : ~(m < n)
  BY <1>1 DEF OpToRel
<1> QED
  BY <1>2

\* The first of a nonempty set of slots.
LEMMA FirstSlot ==
    ASSUME NEW S \in SUBSET Slot, S # {}
    PROVE  First(S) \in S /\ \A j \in S : First(S) <= j
<1>1. CacheSlots \in Nat /\ S \in SUBSET Nat
  BY CacheAssumption DEF Slot
<1>2. \E i \in S : \A j \in S : i <= j
  BY <1>1, LeastNumber
<1> QED
  BY <1>2 DEF First

\* The victim is a slot with the least stamp.
LEMMA VictimOldest ==
    ASSUME TypeOK
    PROVE  Victim \in Slot /\ \A j \in Slot : slots[Victim].stamp <= slots[j].stamp
<1> DEFINE T == {slots[i].stamp : i \in Slot}
           S == {i \in Slot : \A j \in Slot : slots[i].stamp <= slots[j].stamp}
<1>1. 1 \in Slot /\ \A i \in Slot : slots[i].stamp \in Nat
  BY CacheAssumption DEF TypeOK, Slot
<1>2. T \in SUBSET Nat /\ T # {}
  BY <1>1
<1>3. \E t \in T : \A u \in T : t <= u
  BY <1>2, LeastNumber
<1>4. S # {}
  BY <1>3
<1>5. First(S) \in S
  BY <1>4, FirstSlot
<1> QED
  BY <1>5 DEF Victim

\* The cache starts with nothing held and nothing used.
LEMMA CacheInitInv == CacheInit => IInv
<1> SUFFICES ASSUME CacheInit PROVE IInv
  OBVIOUS
<1>1. clock = 0 /\ recent = <<>> /\ Len(recent) = 0 /\ slots = [i \in Slot |-> [pat |-> <<>>, stamp |-> 0]]
  BY DEF CacheInit
<1>2. \A i \in Slot : slots[i].pat = <<>> /\ slots[i].stamp = 0
  BY <1>1
<1>3. TypeOK
  BY <1>1, <1>2 DEF TypeOK
<1>4. LastUse /\ OneSlot /\ Evicted
  BY <1>1, <1>2 DEF LastUse, OneSlot, Evicted
<1> QED
  BY <1>3, <1>4 DEF IInv

\* What a lookup writes, on a hit as on a miss.
LEMMA LookupSlot ==
    ASSUME IInv, NEW p \in CachePatterns, Lookup(p)
    PROVE  \E s \in Slot :
             /\ slots' = [slots EXCEPT ![s] = [pat |-> p, stamp |-> clock + 1]]
             /\ \A j \in Slot : slots[j].pat = p => j = s
             /\ slots[s].pat = p \/ \A j \in Slot : slots[s].stamp <= slots[j].stamp
<1>1. TypeOK /\ LastUse /\ OneSlot
  BY DEF IInv
<1>2. p # <<>>
  BY CacheAssumption
<1>3. CASE Hit(p) # {}
  <2> DEFINE s == First(Hit(p))
  <2>1. s \in Hit(p)
    BY <1>3, FirstSlot DEF Hit
  <2>2. s \in Slot /\ slots[s].pat = p
    BY <2>1 DEF Hit
  <2>3. ASSUME NEW j \in Slot, slots[j].pat = p PROVE j = s
    <3>1. /\ slots[j].stamp \in 1 .. clock /\ recent[slots[j].stamp] = p
          /\ \A k \in 1 .. clock : slots[j].stamp < k => recent[k] # p
      BY <1>1, <1>2, <2>3 DEF LastUse
    <3>2. /\ slots[s].stamp \in 1 .. clock /\ recent[slots[s].stamp] = p
          /\ \A k \in 1 .. clock : slots[s].stamp < k => recent[k] # p
      BY <1>1, <1>2, <2>2 DEF LastUse
    <3>3. clock \in Nat
      BY <1>1 DEF TypeOK
    <3>4. slots[j].stamp = slots[s].stamp /\ slots[j].stamp # 0
      BY <3>1, <3>2, <3>3
    <3> QED
      BY <1>1, <2>2, <3>4 DEF OneSlot
  <2>4. slots' = [slots EXCEPT ![s] = [pat |-> p, stamp |-> clock + 1]]
    BY <1>3 DEF Lookup
  <2> QED
    BY <2>2, <2>3, <2>4
<1>4. CASE Hit(p) = {}
  <2>1. Victim \in Slot /\ \A j \in Slot : slots[Victim].stamp <= slots[j].stamp
    BY <1>1, VictimOldest
  <2>2. slots' = [slots EXCEPT ![Victim] = [pat |-> p, stamp |-> clock + 1]]
    BY <1>4 DEF Lookup
  <2>3. \A j \in Slot : slots[j].pat # p
    BY <1>4 DEF Hit
  <2> QED
    BY <2>1, <2>2, <2>3
<1> QED
  BY <1>3, <1>4

\* A lookup keeps the invariant: what is thrown out is older than all that stays.
LEMMA LookupInv ==
    ASSUME IInv, NEW p \in CachePatterns, Lookup(p)
    PROVE  IInv'
<1>1. TypeOK /\ LastUse /\ OneSlot /\ Evicted
  BY DEF IInv
<1>2. PICK s \in Slot : /\ slots' = [slots EXCEPT ![s] = [pat |-> p, stamp |-> clock + 1]]
                        /\ \A j \in Slot : slots[j].pat = p => j = s
                        /\ slots[s].pat = p \/ \A j \in Slot : slots[s].stamp <= slots[j].stamp
  BY LookupSlot
<1>3. p # <<>>
  BY CacheAssumption
<1>4. /\ clock \in Nat /\ clock = Len(recent) /\ clock' = clock + 1 /\ recent' = Append(recent, p)
      /\ recent' \in Seq(CachePatterns) /\ Len(recent') = clock + 1
      /\ recent'[clock + 1] = p /\ \A k \in 1 .. clock : recent'[k] = recent[k]
  BY <1>1 DEF TypeOK, Lookup
<1>5. /\ slots'[s].pat = p /\ slots'[s].stamp = clock + 1
      /\ \A j \in Slot : j # s => slots'[j] = slots[j]
      /\ \A j \in Slot : slots[j].stamp \in Nat /\ slots[j].stamp <= clock
  <2>1. \A j \in Slot : slots[j].stamp \in Nat
    BY <1>1 DEF TypeOK
  <2>2. \A j \in Slot : slots[j].stamp <= clock
    BY <1>1, <1>4 DEF LastUse
  <2>3. slots'[s] = [pat |-> p, stamp |-> clock + 1] /\ \A j \in Slot : j # s => slots'[j] = slots[j]
    BY <1>1, <1>2 DEF TypeOK
  <2> QED
    BY <2>1, <2>2, <2>3
<1>6. TypeOK'
  <2>1. slots' \in [Slot -> [pat : CachePatterns \cup {<<>>}, stamp : Nat]]
    BY <1>1, <1>2, <1>4 DEF TypeOK
  <2> QED
    BY <1>4, <2>1 DEF TypeOK
<1>7. LastUse'
  <2> SUFFICES ASSUME NEW i \in Slot
               PROVE  /\ slots'[i].pat = <<>> <=> slots'[i].stamp = 0
                      /\ slots'[i].pat # <<>> =>
                           /\ slots'[i].stamp \in 1 .. clock' /\ recent'[slots'[i].stamp] = slots'[i].pat
                           /\ \A k \in 1 .. clock' : slots'[i].stamp < k => recent'[k] # slots'[i].pat
    BY DEF LastUse, Slot
  <2>1. CASE i = s
    BY <1>3, <1>4, <1>5, <2>1
  <2>2. CASE i # s
    <3>1. slots'[i] = slots[i] /\ slots[i].pat # p
      BY <1>2, <1>5, <2>2
    <3>2. /\ slots[i].pat = <<>> <=> slots[i].stamp = 0
          /\ slots[i].pat # <<>> =>
               /\ slots[i].stamp \in 1 .. clock /\ recent[slots[i].stamp] = slots[i].pat
               /\ \A k \in 1 .. clock : slots[i].stamp < k => recent[k] # slots[i].pat
      BY <1>1 DEF LastUse
    <3>3. \A k \in 1 .. clock' : k \in 1 .. clock \/ k = clock + 1
      BY <1>4
    <3> QED
      BY <1>4, <3>1, <3>2, <3>3
  <2> QED
    BY <2>1, <2>2
<1>8. OneSlot'
  <2> SUFFICES ASSUME NEW i \in Slot, NEW j \in Slot, slots'[i].stamp = slots'[j].stamp, slots'[i].stamp # 0
               PROVE  i = j
    BY DEF OneSlot, Slot
  <2>1. CASE i # s /\ j # s
    BY <1>1, <1>5, <2>1 DEF OneSlot
  <2>2. CASE i = s \/ j = s
    BY <1>4, <1>5, <2>2
  <2> QED
    BY <2>1, <2>2
<1>9. Evicted'
  <2> SUFFICES ASSUME NEW k \in 1 .. clock', \A j \in Slot : slots'[j].pat # recent'[k], NEW i \in Slot
               PROVE  k < slots'[i].stamp
    BY DEF Evicted, Held, Slot
  <2>1. k \in 1 .. clock /\ recent'[k] = recent[k] /\ recent[k] # p
    BY <1>4, <1>5
  <2>2. CASE i = s
    BY <1>4, <1>5, <2>1, <2>2
  <2>3. CASE i # s /\ ~Held(recent[k])
    BY <1>1, <1>5, <2>1, <2>3 DEF Evicted
  <2>4. CASE i # s /\ Held(recent[k])
    <3>1. slots[s].pat = recent[k]
      BY <1>5, <2>1, <2>4 DEF Held
    <3>2. slots[s].pat # p /\ slots[s].pat # <<>>
      BY <1>1, <2>1, <3>1, CacheAssumption DEF TypeOK
    <3>3. slots[s].stamp # 0 /\ slots[s].stamp \in Nat /\ ~(slots[s].stamp < k)
      BY <1>1, <2>1, <3>1, <3>2 DEF LastUse, TypeOK
    <3>4. slots[s].stamp <= slots[i].stamp /\ slots[s].stamp # slots[i].stamp
      BY <1>1, <1>2, <2>4, <3>2, <3>3 DEF OneSlot
    <3>5. slots'[i].stamp = slots[i].stamp /\ slots[i].stamp \in Nat
      BY <1>5, <2>4
    <3> QED
      BY <2>1, <1>4, <3>3, <3>4, <3>5
  <2> QED
    BY <2>2, <2>3, <2>4
<1> QED
  BY <1>6, <1>7, <1>8, <1>9 DEF IInv

\* A stretch of calls that uses at most CacheSlots patterns.
LEMMA FewUsed ==
    ASSUME TypeOK, NEW k \in 1 .. clock
    PROVE  IsFiniteSet(Used(k))
<1> DEFINE D == k .. Len(recent)
           f == [j \in D |-> recent[j]]
<1>1. clock \in Nat /\ Len(recent) \in Nat
  BY DEF TypeOK
<1>2. IsFiniteSet(D)
  BY <1>1, FS_Interval
<1>3. f \in Surjection(D, Used(k))
  BY DEF Used, Surjection
<1> QED
  BY <1>2, <1>3, FS_Surjection

\* What is held was used within the last CacheSlots patterns.
LEMMA HeldRecent ==
    ASSUME IInv, NEW i \in Slot, slots[i].pat # <<>>
    PROVE  /\ slots[i].pat \in CachePatterns /\ slots[i].stamp \in DOMAIN recent
           /\ recent[slots[i].stamp] = slots[i].pat /\ Cardinality(Used(slots[i].stamp)) <= CacheSlots
<1> DEFINE k == slots[i].stamp
           all == {slots[j].pat : j \in Slot}
           f == [j \in Slot |-> slots[j].pat]
<1>1. TypeOK /\ LastUse /\ Evicted /\ CacheSlots \in Nat
  BY CacheAssumption DEF IInv
<1>2. k \in 1 .. clock /\ recent[k] = slots[i].pat /\ clock = Len(recent) /\ clock \in Nat /\ recent \in Seq(CachePatterns)
  BY <1>1 DEF TypeOK, LastUse
<1>3. Used(k) \subseteq all
  <2> SUFFICES ASSUME NEW j \in k .. Len(recent) PROVE Held(recent[j])
    BY DEF Used, Held
  <2>1. j \in 1 .. clock /\ ~(j < k)
    BY <1>2
  <2> QED
    BY <1>1, <2>1 DEF Evicted
<1>4. IsFiniteSet(Slot) /\ Cardinality(Slot) = CacheSlots
  BY <1>1, FS_Interval DEF Slot
<1>5. f \in Surjection(Slot, all)
  BY DEF Surjection
<1>6. IsFiniteSet(all) /\ Cardinality(all) <= CacheSlots
  BY <1>4, <1>5, FS_Surjection
<1>7. IsFiniteSet(Used(k)) /\ Cardinality(Used(k)) <= Cardinality(all)
  BY <1>3, <1>6, FS_Subset
<1>8. Cardinality(Used(k)) \in Nat /\ Cardinality(all) \in Nat
  BY <1>6, <1>7, FS_CardinalityType
<1>9. Cardinality(Used(k)) <= CacheSlots
  BY <1>1, <1>6, <1>7, <1>8
<1>10. slots[i].pat \in CachePatterns /\ k \in DOMAIN recent
  BY <1>1, <1>2 DEF TypeOK
<1> QED
  BY <1>2, <1>9, <1>10

\* What was used within the last CacheSlots patterns is held.
LEMMA RecentHeld ==
    ASSUME IInv, NEW k \in DOMAIN recent, Cardinality(Used(k)) <= CacheSlots
    PROVE  Held(recent[k])
<1> DEFINE all == {slots[j].pat : j \in Slot}
           f == [j \in Slot |-> slots[j].pat]
<1> SUFFICES ASSUME ~Held(recent[k]) PROVE FALSE
  OBVIOUS
<1>1. TypeOK /\ LastUse /\ OneSlot /\ Evicted /\ CacheSlots \in Nat
  BY CacheAssumption DEF IInv
<1>2. clock = Len(recent) /\ clock \in Nat /\ k \in 1 .. clock
  BY <1>1 DEF TypeOK
<1>3. \A j \in Slot : k < slots[j].stamp
  BY <1>1, <1>2 DEF Evicted
<1>4. \A j \in Slot : /\ slots[j].pat # <<>> /\ slots[j].stamp \in 1 .. clock /\ recent[slots[j].stamp] = slots[j].pat
                      /\ slots[j].stamp \in k .. Len(recent) /\ slots[j].stamp # 0
  <2> SUFFICES ASSUME NEW j \in Slot
               PROVE  /\ slots[j].pat # <<>> /\ slots[j].stamp \in 1 .. clock /\ recent[slots[j].stamp] = slots[j].pat
                      /\ slots[j].stamp \in k .. Len(recent) /\ slots[j].stamp # 0
    OBVIOUS
  <2>1. slots[j].stamp \in Nat /\ k < slots[j].stamp
    BY <1>1, <1>3 DEF TypeOK
  <2>2. slots[j].stamp # 0
    BY <1>2, <2>1
  <2>3. slots[j].pat # <<>> /\ slots[j].stamp \in 1 .. clock /\ recent[slots[j].stamp] = slots[j].pat
    BY <1>1, <2>2 DEF LastUse
  <2> QED
    BY <1>2, <2>1, <2>2, <2>3
<1>5. all \cup {recent[k]} \subseteq Used(k)
  BY <1>2, <1>4 DEF Used
<1>6. f \in Injection(Slot, all) /\ f \in Surjection(Slot, all)
  <2>1. ASSUME NEW i \in Slot, NEW j \in Slot, slots[i].pat = slots[j].pat PROVE i = j
    <3>1. \A n \in 1 .. clock : slots[i].stamp < n => recent[n] # slots[i].pat
      BY <1>1, <1>4 DEF LastUse
    <3>2. \A n \in 1 .. clock : slots[j].stamp < n => recent[n] # slots[j].pat
      BY <1>1, <1>4 DEF LastUse
    <3>3. slots[i].stamp = slots[j].stamp
      BY <1>2, <1>4, <2>1, <3>1, <3>2
    <3> QED
      BY <1>1, <1>4, <3>3 DEF OneSlot
  <2>2. f \in [Slot -> all]
    OBVIOUS
  <2>3. f \in Injection(Slot, all)
    BY <2>1, <2>2 DEF Injection, IsInjective
  <2>4. f \in Surjection(Slot, all)
    BY <2>2 DEF Surjection
  <2> QED
    BY <2>3, <2>4
<1>7. IsFiniteSet(Slot) /\ Cardinality(Slot) = CacheSlots
  BY <1>1, FS_Interval DEF Slot
<1>8. IsFiniteSet(all) /\ Cardinality(all) = CacheSlots
  BY <1>6, <1>7, FS_Surjection
<1>9. recent[k] \notin all
  BY DEF Held
<1>10. IsFiniteSet(all \cup {recent[k]}) /\ Cardinality(all \cup {recent[k]}) = CacheSlots + 1
  BY <1>8, <1>9, FS_AddElement
<1>11. IsFiniteSet(Used(k)) /\ Cardinality(Used(k)) \in Nat
  BY <1>1, <1>2, FewUsed, FS_CardinalityType
<1>12. CacheSlots + 1 <= Cardinality(Used(k))
  BY <1>5, <1>10, <1>11, FS_Subset
<1> QED
  BY <1>1, <1>11, <1>12

\* The invariant says what the cache holds.
LEMMA InvLRU ==
    ASSUME IInv
    PROVE  CacheIsLRU
<1> DEFINE window == {p \in CachePatterns : \E i \in DOMAIN recent :
                        recent[i] = p /\ Cardinality(Used(i)) <= CacheSlots}
<1>1. TypeOK /\ LastUse /\ OneSlot
  BY DEF IInv
<1>2. ASSUME NEW i \in Slot, slots[i].pat # <<>> PROVE slots[i].pat \in window
  BY <1>2, HeldRecent
<1>3. ASSUME NEW p \in window PROVE p # <<>> /\ Held(p)
  BY <1>3, RecentHeld, CacheAssumption
<1>4. {slots[i].pat : i \in Slot} \ {<<>>} = window
  <2> HIDE DEF window
  <2> QED
    BY <1>2, <1>3 DEF Held
<1>5. ASSUME NEW i \in Slot, NEW j \in Slot, slots[i].pat = slots[j].pat, slots[i].pat # <<>> PROVE i = j
  <2>1. /\ slots[i].stamp \in 1 .. clock /\ recent[slots[i].stamp] = slots[i].pat
        /\ \A k \in 1 .. clock : slots[i].stamp < k => recent[k] # slots[i].pat
    BY <1>1, <1>5 DEF LastUse
  <2>2. /\ slots[j].stamp \in 1 .. clock /\ recent[slots[j].stamp] = slots[j].pat
        /\ \A k \in 1 .. clock : slots[j].stamp < k => recent[k] # slots[j].pat
    BY <1>1, <1>5 DEF LastUse
  <2>3. clock \in Nat
    BY <1>1 DEF TypeOK
  <2>4. slots[i].stamp = slots[j].stamp /\ slots[i].stamp # 0
    BY <1>5, <2>1, <2>2, <2>3
  <2> QED
    BY <1>1, <2>4 DEF OneSlot
<1> QED
  BY <1>4, <1>5 DEF CacheIsLRU

\* For any number of slots and patterns, after any calls, the cache holds exactly
\* the patterns used last, as many as it has slots, and none of them twice.
THEOREM CacheLRU == CacheSpec => []CacheIsLRU
<1>1. IInv /\ [CacheNext]_cache => IInv'
  <2> SUFFICES ASSUME IInv, [CacheNext]_cache PROVE IInv'
    OBVIOUS
  <2>1. ASSUME NEW p \in CachePatterns, Lookup(p) PROVE IInv'
    BY <2>1, LookupInv
  <2>2. CASE UNCHANGED cache
    BY <2>2 DEF cache, IInv, TypeOK, LastUse, OneSlot, Evicted, Held
  <2> QED
    BY <2>1, <2>2 DEF CacheNext
<1>2. IInv => CacheIsLRU
  BY InvLRU
<1> QED
  BY <1>1, <1>2, CacheInitInv, PTL DEF CacheSpec
=============================================================================
