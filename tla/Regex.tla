------------------------------- MODULE Regex -------------------------------
(***************************************************************************)
(* The interface of runtime/ls_regex.c as its callers see it: an owned     *)
(* handle (compile, exec, exec_dfa, the capture accessors, free) and the   *)
(* thread-local cache of handles (RegexCache) behind the free functions of *)
(* std.text.regex.  A handle keeps state between calls: the captures of    *)
(* the last exec, the text it ran on, the note that only the DFA ran, and  *)
(* the DFA's transition table.                                             *)
(***************************************************************************)
EXTENDS RegexRef, RegexCache

CONSTANTS Patterns,        \* <<syntax tree, flags, calls made on the handle>>
          Malformed,       \* token sequences that are no pattern
          Texts            \* texts that get searched

VARIABLES
  src,      \* the pattern of the owned handle, or <<>>
  re,       \* the owned handle, or <<>>
  saved,    \* re->saved
  dfaOnly,  \* dfa_only_valid with its text and start: <<>> or <<text, start>>
  last,     \* last_text: <<>> or <<text>>
  trans,    \* dfa_trans
  calls,    \* calls made on the handle
  log       \* what the last exec answered: <<>> or [text, start, dfa, r]

handle == <<src, re, saved, dfaOnly, last, trans, calls, log>>
vars == <<src, re, saved, dfaOnly, last, trans, calls, log, slots, clock, recent>>

NoTable == [x \in {} |-> 0]
AllSlots == 0..(2 * MaxGroups - 1)
Cleared == [s \in AllSlots |-> -1]
Calloced == [s \in AllSlots |-> 0]

Init ==
  /\ src = <<>> /\ re = <<>> /\ saved = Calloced /\ dfaOnly = <<>> /\ last = <<>>
  /\ trans = NoTable /\ calls = 0 /\ log = <<>>
  /\ CacheInit

----------------------------------------------------------------------------
\* The owned handle.

\* __ls_regex_compile
Compile(p) ==
  /\ re = <<>> /\ clock = 0
  /\ src' = p
  /\ re' = Handle(Tokens(p[1]), p[2])
  /\ UNCHANGED <<saved, dfaOnly, last, trans, calls, log>> /\ UNCHANGED cache

\* A pattern that is refused leaves no handle behind.
CompileFails(pat) ==
  /\ re = <<>> /\ clock = 0 /\ src = <<>>
  /\ Compiled(pat, {}).err
  /\ src' = <<Leaf("refused"), {}, 0>>
  /\ UNCHANGED <<re, saved, dfaOnly, last, trans, calls, log>> /\ UNCHANGED cache

Stored_KeepsOld(r) ==
  IF r.found THEN [s \in AllSlots |-> IF s \in Slots(re) THEN r.ms[s] ELSE saved[s]] ELSE saved

\* What an exec leaves in saved: the slots in use, or all cleared.
Stored(r) ==
  IF r.found THEN [s \in AllSlots |-> IF s \in Slots(re) THEN r.ms[s] ELSE saved[s]] ELSE Cleared

StoredDfa(r) ==
  IF r.found THEN [Cleared EXCEPT ![0] = r.ms[0], ![1] = r.ms[1]] ELSE Cleared

Hung == log # <<>> /\ log.r.hang
Called(text, start, dfa, r) ==
  /\ calls' = calls + 1
  /\ last' = <<text>>
  /\ log' = [text |-> text, start |-> start, dfa |-> dfa, r |-> r]

\* __ls_regex_exec.  A walk that never ends leaves the call where it is.
CallExec(text, start) ==
  /\ re # <<>> /\ calls < src[3] /\ ~Hung
  /\ \E r \in {Exec(re, text, start)} :
       /\ Called(text, start, FALSE, r)
       /\ saved' = IF r.hang THEN saved ELSE Stored(r)
  /\ dfaOnly' = <<>>
  /\ UNCHANGED <<src, re, trans>> /\ UNCHANGED cache

\* __ls_regex_exec_dfa
CallExecDfa(text, start) ==
  /\ re # <<>> /\ calls < src[3] /\ ~Hung
  /\ \E r \in {ExecDfa(re, text, start, trans)}, fast \in {re.dfa /\ ~re.pre.whole} :
       /\ Called(text, start, TRUE, [found |-> r.found, hang |-> r.hang, ms |-> r.ms])
       /\ saved' = IF r.hang THEN saved ELSE IF fast THEN StoredDfa(r) ELSE Stored(r)
       /\ dfaOnly' = IF fast /\ r.found THEN <<text, start>> ELSE <<>>
       /\ trans' = r.trans
  /\ UNCHANGED <<src, re>> /\ UNCHANGED cache

\* re_dfa_fill_captures: the one-pass engine once more, from the same start.
Refill == Search(re, dfaOnly[1], Candidates(re, dfaOnly[1], dfaOnly[2]))

\* __ls_regex_cap_start and __ls_regex_cap_len of a group above 0.
ReadGroup ==
  /\ re # <<>> /\ dfaOnly # <<>>
  /\ dfaOnly' = <<>>
  /\ saved' = Stored(Refill)
  /\ UNCHANGED <<src, re, last, trans, calls, log>> /\ UNCHANGED cache

----------------------------------------------------------------------------
\* The free functions of std.text.regex use the cache and no owned handle.
Cached(p) == re = <<>> /\ src = <<>> /\ Lookup(p) /\ UNCHANGED handle

Next ==
  \/ \E p \in Patterns : Compile(p)
  \/ \E pat \in Malformed : CompileFails(pat)
  \/ \E text \in Texts : \E start \in 0..Len(text) :
       CallExec(text, start) \/ CallExecDfa(text, start)
  \/ ReadGroup
  \/ \E p \in CachePatterns : Cached(p)

Spec == Init /\ [][Next]_vars

----------------------------------------------------------------------------
\* The Pike VM finds the leftmost match and, there, the captures of the way
\* the pattern prefers: greedy before lazy, left alternative before right.
\* Excluded: a loop whose body can match nothing (EmptyLoop).  A lookahead
\* whose body can match nothing is not excluded: there the engine is held to
\* the reading it has (AsRun), which is not the pattern's (see AheadExact).
LeftmostFirst ==
  (log # <<>> /\ ~re.onepass /\ ~EmptyLoop(src[1])) =>
    LET want == Preferred(re.flags, log.text, Meant(src[1]), log.start)
    IN log.r.found = want.found /\ (want.found => log.r.ms = want.ms)

\* Nothing branches back to an anchor the whole pattern starts with.
AnchorEntered ==
  re.prog[2].op \in {"bol", "bos"} =>
    \A pc \in 1..Len(re.prog) :
      re.prog[pc].op \in {"jump", "split"} => re.prog[pc].a # 2 /\ re.prog[pc].b # 2

\* Whatever engine answers, the span it reports is a match of the pattern, a
\* lookahead whose body can match nothing being read as the engine reads it
\* (AsRun).  Excluded: the DFA on a pattern that branches back to the anchor it
\* starts with (AnchorEntered).
GenuineMatch ==
  (log # <<>> /\ log.r.found /\ (log.dfa => AnchorEntered)) =>
    LET ws == WaysAt(re.flags, log.text, Meant(src[1]), log.r.ms[0])
    IN /\ log.r.ms[0] >= log.start
       /\ \E i \in DOMAIN ws : ws[i].pos = log.r.ms[1]

\* __ls_regex_exec_dfa answers as __ls_regex_exec does, with the same span,
\* in whatever order its table was filled.
DfaAgrees ==
  (log # <<>> /\ log.dfa /\ AnchorEntered) =>
    LET want == Exec(re, log.text, log.start)
    IN /\ log.r.found = want.found /\ log.r.hang = want.hang
       /\ want.found => log.r.ms[0] = want.ms[0] /\ log.r.ms[1] = want.ms[1]

\* The captures a caller reads are those of the last exec: complete when they
\* were filled in at once or on demand, all absent when it failed.
CapturesOfLastExec ==
  (log # <<>> /\ dfaOnly = <<>> /\ ~Hung) =>
    LET want == Exec(re, log.text, log.start)
    IN IF want.found /\ AnchorEntered THEN \A s \in Slots(re) : saved[s] = want.ms[s]
       ELSE AnchorEntered => saved = Cleared

\* What the documentation says of lookahead: (?=x) holds where x matches and
\* (?!x) where it does not.  The code breaks it when x matches nothing there:
\* (?=a*)b fails on "b", (?!a*)b matches it, a(?=$) fails on "a".
AheadExact ==
  (log # <<>> /\ ~re.onepass /\ ~EmptyLoop(src[1])) =>
    log.r.found = Preferred(re.flags, log.text, src[1], log.start).found

\* What re_is_onepass promises: the single walk answers as the Pike VM would.
OnePassExact ==
  (log # <<>> /\ re.onepass /\ ~EmptyLoop(src[1])) =>
    LET want == Preferred(re.flags, log.text, src[1], log.start)
    IN log.r.found = want.found /\ (want.found => log.r.ms[0] = want.ms[0] /\ log.r.ms[1] = want.ms[1])
=============================================================================
