----------------------------- MODULE RegexCache -----------------------------
(***************************************************************************)
(* The thread-local cache of compiled patterns in runtime/ls_regex.c,      *)
(* behind the free functions of std.text.regex: a fixed array of slots, a  *)
(* clock that stamps every use, and the oldest stamp as the victim.  A     *)
(* pattern stands for its text with its flags.  Patterns that are refused  *)
(* or too long for a key return NULL before anything is written.           *)
(***************************************************************************)
EXTENDS Naturals, Sequences, FiniteSets

CONSTANTS CachePatterns,   \* patterns of the free functions
          CacheSlots,      \* RE_CACHE_SLOTS
          MaxClock         \* calls before the unsigned clock would wrap

ASSUME CacheAssumption == /\ CacheSlots \in Nat \ {0} /\ MaxClock \in Nat
                          /\ <<>> \notin CachePatterns

VARIABLES slots,           \* tls_cache: slot -> [pat, stamp], pat = <<>> when empty
          clock,           \* tls_clock
          recent           \* the calls, the most recent last
cache == <<slots, clock, recent>>

Slot == 1 .. CacheSlots
First(S) == CHOOSE i \in S : \A j \in S : i <= j

CacheInit == /\ slots = [i \in Slot |-> [pat |-> <<>>, stamp |-> 0]]
             /\ clock = 0 /\ recent = <<>>

Hit(p) == {i \in Slot : slots[i].pat = p}

Victim_Last == CacheSlots

\* The first slot with the least stamp; an empty slot was never stamped.
Victim == First({i \in Slot : \A j \in Slot : slots[i].stamp <= slots[j].stamp})

\* __ls_regex_cached on a pattern that compiles: the handle found, or one compiled in
\* the place of the victim, and stamped either way.
Lookup(p) ==
  /\ clock < MaxClock
  /\ clock' = clock + 1
  /\ slots' = [slots EXCEPT ![IF Hit(p) # {} THEN First(Hit(p)) ELSE Victim] =
                 [pat |-> p, stamp |-> clock + 1]]
  /\ recent' = Append(recent, p)

CacheNext == \E p \in CachePatterns : Lookup(p)
CacheSpec == CacheInit /\ [][CacheNext]_cache

-----------------------------------------------------------------------------
Used(i) == {recent[j] : j \in i .. Len(recent)}

\* The cache holds the CacheSlots most recently used patterns, one slot each.
CacheIsLRU ==
  /\ {slots[i].pat : i \in Slot} \ {<<>>} =
       {p \in CachePatterns : \E i \in DOMAIN recent : recent[i] = p /\ Cardinality(Used(i)) <= CacheSlots}
  /\ \A i, j \in Slot : slots[i].pat = slots[j].pat /\ slots[i].pat # <<>> => i = j
=============================================================================
