# LS in TLA+

LS (Low-level Script) is a compiled language: a C compiler with an LLVM back
end and a C back end (`src/src`), a C runtime (`src/runtime`) and a library
written in LS (`src/lib`). It promises memory safety without a collector (move
semantics, RAII, a moved flag per local), scalar code that means what its types
say in three evaluators, and a concurrency library that is correct without a
lifetime system. This project models the code behind those promises.

`PROJECT.json` maps every definition to the lines it models, lists every
component, hazard and finding, and gives each property a mutant: a plausible
slip in one definition that the property must catch.

## 1. Inventory

| Part | State | Operations | Interacts with |
|---|---|---|---|
| Channel, `lib/std/sync/chan.lls` | ring buffer, head, tail, count, closed, mutex, two condvars | `init send try_send recv try_recv close iter ~` | threads, `os_posix.c` |
| Ring, `lib/std/sync/ring.lls` | buffer, four atomic cursors, mp/mc mode | `new_ring new_mpmc_ring enqueue dequeue dequeue_burst clear ~` | threads, `atomic.lls`, orderings of `builtins_intrinsic_cg.c` |
| Locks, `lock.lls`; tasks, `task.lls`, `thread.lls` | OS handle or flag, guarded value; handle, result box | `lock unlock trylock read write`; `run join parallel_for` | threads, runtime, closures |
| Regex, `runtime/ls_regex.c` | program, prefilters, captures, DFA cells, thread-local cache | `compile exec exec_dfa` accessors `free cached` | `std.text.regex` |
| Scanner, `scanner.c` | cursor, mode (text, f-string text, f-string expression), `#if` frames | `scanner_next` | parser |
| Parser, `parser*.c` | token cursor, panic mode, nesting depth, two mode flags | one function per construct, lookaheads, recovery | scanner, AST |
| AST, `ast.c`, `checker_lower.c` | tree of owned nodes | `ast_new ast_free ast_clone_deep`, lowering, desugaring | parser, checker, generics |
| Move checker, `checker_borrow.c`, `checker_stmt.c`, `checker_expr.c`, `checker_call.c` | `is_moved`, `is_maybe_moved` per symbol, snapshots, silent flag | check of each statement; capture, restore, merge, elevate, preseed | tags AST nodes `moved_out` for codegen |
| Clone elision, `checker_elide.c` | `used` per candidate local | prescan, backward walk, loop preset | reads the checked tree, adds `moved_out` tags |
| Ownership codegen, `codegen_own.c`, `codegen_stmt.c`, `codegen_call.c` | scopes, slot and `moved_flag` per local | declare, assign, call, drop, cleanup, return | trusts the tags of both passes |
| Match, try and temporaries, `codegen_match.c`, `codegen_own.c` | ledger of statement temporaries with floors, scopes | track, flush, encapsulate, try, unwrap, arm selection | statements, ownership codegen |
| Scalars, `types.c`, `checker_expr.c`, `codegen_expr.c`, `checker_comptime.c`, `emit_c.c` | types, constants, environment and budget of the evaluator | type, widen, cast, fold, emit | four code paths that must agree |
| Generics, `checker_generics.c`, `checker_decl.c`, `checker.c` | type table, alias stack, impl registry, pending bodies, `has_drop` | resolve, instantiate, register methods, check lazily, settle `has_drop` | codegen, ownership |
| Closures, containers, arena, memcheck, module loader, derive, JIT, REPL, drivers, I/O, text, numeric, chart, simulator, O-RAN | see `PROJECT.json` | | |

What is hard here:

* **Interleavings.** The channel wakes one sleeper per element while other
  threads barge in; the ring is lock-free with relaxed and acquire/release
  accesses.
* **Passes that must agree.** The checker decides statically what is moved,
  elision turns clones into moves, codegen drops by a runtime flag. A constant
  is folded by one evaluator, typed by another and emitted by two more. A
  mistake in one shows up only on some path of some program.
* **State that outlives its call.** The regex handle keeps captures and DFA
  cells, the scanner its modes, the temporary ledger what earlier branches
  left in it, the alias stack the parameters of enclosing templates.
* **Re-entrance.** Instantiating a type checks destructors, whose bodies
  instantiate types, while the first registration is half done.
* **Recovery.** A parser that meets an error must still consume a token in
  every loop and hand out no tree with a hole in it.
* **Boundaries.** Power-of-two masks, full versus empty, zero iterations,
  counted repetition in patterns, bit widths.

The properties each part needs are those of section 3; `PROJECT.json` lists the
hazards they are for, at their lines.

## 2. Modules

| Module | Models | Builds on |
|---|---|---|
| `BoundedFifo` | what the channel and the ring promise: a bounded FIFO queue with its output | |
| `Chan` | the channel with its mutex, condvars and threads | `BoundedFifo` |
| `ChanProofs` | theorems about `Chan`: protocol, wakeups, contents, refinement | `Chan` |
| `Ring` | the lock-free ring on an acquire/release memory | `BoundedFifo` |
| `RingProofs` | theorems about `Ring`: control, knowledge, contents, refinement | `Ring` |
| `RegexCompile`, `RegexVM` | pattern compiler; analyses, Pike VM, one-pass walk, DFA | |
| `RegexRef`, `Regex` | what a pattern means; handles and captures | `RegexVM`, `RegexCache` |
| `RegexCache` | the thread-local cache of compiled patterns | |
| `RegexCacheProofs` | theorem about `RegexCache` | `RegexCache` |
| `Loops` | a while loop as a function, and the rule for proofs about it | |
| `Scanner`, `ScanText` | `scanner_next`; texts with the tokens they must give | `Loops` |
| `ScannerProofs` | theorems about `Scanner` and `ScanText` | `ScanText` |
| `ParserCore`, `Parser` | tree shapes and token-stream primitives; the grammar | |
| `SourceText` | how a tree is written; files, written and edited | `Parser` |
| `AstHeap` | allocations of trees: clone, lower, desugar, free | `Loops` |
| `AstHeapProofs` | theorems about `AstHeap` | `AstHeap` |
| `Program`, `MoveChecker`, `CloneElide`, `OwnedCode` | function bodies over owned locals; the forward move analysis; the backward last-use analysis; the emitted code, executed | in this order |
| `Ownership` | the pipeline: check, elide, run | `OwnedCode` |
| `OwnScopeProofs` | theorems about `Ownership`: scopes and leaks | `Ownership` |
| `OwnMoveProofs` | theorems about `Ownership`: moves, last uses, drops | `OwnScopeProofs` |
| `NumTypes`, `NumCheck` | scalar types and programs; the checker on them | |
| `Comptime`, `NumCode`, `NumC` | constant evaluator; LLVM code; C code and C's conversions | `NumTypes`, `NumCheck` |
| `NumRef`, `Numeric` | the meaning of a scalar program; one compilation, compared | all of these |
| `TempLedger`, `MatchCode`, `MatchRun` | the ledger of temporaries; code for match, try, unwrap; running it | in this order |
| `MatchSel` | patterns, exhaustiveness and the four ways an arm is selected | |
| `Generics` | the checker's walk over templates, its call stack explicit | |
| `MC…` | instances for TLC (`Chan`, `Ring` and `AstHeap` need only a `.cfg`) | |

### Channel

One step is one turn of the mutex: take it, run the body up to the next wait or
unlock, release it. `pc` says where a thread is: `lock` (waiting for the mutex,
on entry or on return from a condvar), `body`, `wait`, `unlock`, `again` (the
iterator, about to call `recv` again). Every body keeps the code's order: the
wait loop's condition is tested again after each wake, `closed` is tested after
the loop, the signal comes after the count is updated. `pthread_cond_signal`
wakes any one waiter; a spurious wakeup may happen `MaxSpurious` times.
`sent`, `rcvd` and `disposed` are histories. The destructor runs when no call
is under way, as the library prescribes (a channel is a global that outlives
its joined workers).

### Ring

Every atomic access and every slot access is one step. A load of a cursor may
return any value between the newest one the thread knows of and the current
one. A thread's *view* is the set of facts that happen-before it; a release
store attaches it to the value, an acquire load joins it. A write or take of a
slot whose predecessor is not in the view is a data race. SeqCst accesses get
no more than acquire/release, so the results hold a fortiori. In SPSC mode one
thread enqueues and one dequeues (possibly the same one); in MPMC mode anybody
does both. The abstract queue is what lies between the tails and its output what
consumers took below `cons_tail`: an enqueue takes effect when it publishes
`prod_tail`, a dequeue when it publishes `cons_tail`, and taking a slot, which
other threads may do in another order, is hidden. `clear` empties both. Calls
that find the ring full or empty change nothing; with a stale cursor they may
say so although a slot or an element is there, and the abstract queue does not
promise otherwise.

### Regex

A pattern is a sequence of tokens, a character class its set of characters.
`RegexCompile` keeps the code's one-pass emission, with the shifting of emitted
code and the repair of absolute targets. `RegexVM` has the three engines, each
with the code's order of threads, and the prefilters that choose where they
start. `Regex` holds one handle through any sequence of calls, and the cache.
`RegexRef` gives the reference: the ordered list of ways a syntax tree matches
at a position, preferred first. A lookahead whose body can match nothing is run
by the engine with another meaning (section 4): `AsRun` marks the lookaheads of
such a pattern, `Meant` is the pattern the engine is held to. Programs longer
than `MaxDfaProg` (the code's 160) have no DFA.

### Front end

`Scanner` works on symbols: a character, or a word that counts as an identifier
character. Blank, line break, quote, backslash, braces, semicolon and comma are
named constants. Every loop of the code is `Iterate` over the set of states its
variables range over, with the loop's condition and its body. `ScanText` composes texts of lexemes whose tokens are known, of
nested `#if` blocks and of loose openings, then calls `scanner_next` until the
end. `Parser` has one operator per parse function, from a parser record to the
record and the node after it; a lookahead works on a copy. `spin` records that
one turn of a loop left the whole parser as it was, which is a C loop that does
not end. `lost` collects the texts the code throws away without a message: the
default values of an extern function's parameters, and the segments of an import
path that do not fit `PathBuf` characters (256 in the code, 9 in the run). A
literal's token carries its text; what number the text means is not modelled.
`SourceText` writes a tree with exactly the parentheses and semicolons
the grammar requires. `AstHeap` reads the pointer fields freed, copied and
cleared off the two switches of `ast.c` separately, and gives each node a heap
allocation. An address is the operation that allocated it and a part of what it
made (for a clone, the address it copies), so a freed address is never used again
and a pointer to it stays visible.
What a tree reaches, releases or copies is the loop `Below` along its pointers.
`TextsOf` collects the source texts of a tree; it does not follow `desugared`,
which holds copies of the loop's own texts.
`CheckedAgain` lets the checker come back to a tree it has rewritten (section 4).

### Ownership

`Program` abstracts a function body to a sequence of statements over owned
(`has_drop`) locals; expressions are reduced to what they do to those locals.
A grammar of `Grammars` says which statements a body may use, over how many
names, how long it may be, and which unsound forms (section 4) it may contain.
`Ownership` runs three phases on each program:

1. *check*: `MoveChecker` walks forward with the status `live`, `maybe`,
   `moved` per local. `if` snapshots and merges; a loop body is walked twice,
   silently first. A program with an error is abandoned at that statement, so
   only accepted programs go on. The program is chosen statement by statement
   during this walk, so TLC covers every program of the grammar.
2. *elide*: `CloneElide` walks backward and tags last uses. What a loop
   mentions, the targets of its assignments included, counts as used across its
   back edge (`LoopPreset`).
3. *run*: `OwnedCode` executes the emitted code: a slot and a moved flag per
   local, drops at scope ends, at jumps, at assignment; every branch and loop
   is taken both ways, with up to `MaxBack` back edges. A by-value callee drops
   its parameter; the caller of the function drops what it returns.

`NoDoubleFree`, `NoUseAfterMove` and `LiveOwns` are stated for bodies without
the unsound forms (`SoundForms`); `NoLeak` for all.

### Scalars

The widths are constants whose order is all that the rules use (`WidthOrder`),
so words of 2, 3, 5 and 7 bits stand for 8, 16, 32 and 64 and their boundaries
are all enumerated. A program is a constant, a comptime block that may use it
and gives the next constant, a function body over locals and arrays that may use
that one, and a return type. `NumCode` follows each emitted value with the
type the checker gave it and the type LLVM sees, so that a width the two
disagree on is visible; `NumC` keeps C's promotions and conversions, which
`emit_c.c` relies on; `Comptime` evaluates in the widest integers with its flat
environment and its budget. `NumRef` is the meaning: exact integers brought
back into the static type.

### Match and temporaries

`TempLedger` is the compile-time array of slots to drop with its counts, bases
and floors; `MatchCode` emits code for functions that use match, try, unwrap,
constructors, jumps and loops in every position; `MatchRun` executes it on all
paths and counts drops per heap object. `MatchSel` compares the arm chosen by a
switch, a chain of comparisons or bit tests with the first arm that fits.

### Generics

A program is a list of declarations. The checker's recursion is a stack of
frames, one action per step of the topmost frame, so the half-done states in
which a nested instantiation finds the registries are states of the model. A
type is its path of constructors; templates have one parameter. The four hooks
of `generic_method_is_eager` are checked with the instance, other methods when
they are called. A hook comes from a block of its own interface, which the code
appends to the methods of the template, so it follows them in the sample too.
The two resolvers differ as in the code: `resolve_type_node` looks in the cache
before it tests the nesting depth, the one with a substitution (`direct`) after.

## 3. Runs

| Run | Bounds | Shows |
|---|---|---|
| `chan` | 3 threads, capacities 1 and 3 (4 after rounding), 2 calls each, 1 spurious wakeup | mutex discipline, FIFO exactly once, exact disposal, no lost wakeup, nobody sleeps after close, refinement of `BoundedFifo` |
| `chan_live` | 3 threads, requested capacities 0 and 1, 1 call each (a `for` loop over the channel is one call) | calls on a closed channel return; a sleeper over an element or a slot is served |
| `ring` | 3 threads, 1 or 2 slots, 2 calls each, SPSC and MPMC | no data race, FIFO exactly once, exact disposal, refinement of `BoundedFifo` that can be cleared (`LinearizesToFifo`) |
| `ring_live` | the same, 1 call each | every enqueue and dequeue ends |
| `regex` | two layers of operators over 4 atoms, anchors and lookaheads; every text of up to 3 letters and a few with line breaks and capitals; cache of 3 | a search finds the leftmost match and, of those, the preferred one, with its captures (`LeftmostFirst`); what it reports is a match (`GenuineMatch`); the DFA agrees with it whatever it has cached (`DfaAgrees`); accessors tell of the last call (`CapturesOfLastExec`); the cache evicts the least recently used (`CacheIsLRU`) |
| `scanner` | texts of weight 15: three to five lexemes, blocks and openings, 3 nested `#if` | known lexemes give their tokens on their lines, inside and around conditional blocks (`RoundTrip`); what is left open is reported (`Diagnosed`); every call moves the cursor or ends (`ScanMoves`) |
| `parser` | two steps, growths of an expression and edits of a text together, from two leaves, nine files of declarations and nine token sequences | a written tree is read back (`RoundTrip`); every parse ends (`Terminates`); an accepted tree has no hole and holds every name of the text, as often as it was written, but those in `lost` (`NothingDropped`) |
| `ast_heap` | every node kind around the four kinds the checker annotates, two steps of checking and cloning | each allocation is freed once and only once (`FreedOnce`); a clone carries what its source had (`CloneComplete`) |
| `own` | 2 locals and 7 statements of 17 kinds; 1 local and 10 statements of control flow; 2 locals and 6 statements with the unsound forms; 2 back edges | no double free, no use after move, no leak, static status agrees with the runtime flag |
| `numeric` | about 4000 programs: every operator over every pair of types at boundary values, stores, compound assignment, control flow, math, constants | LLVM code computes the meaning the static types give (`EmittedMeaning`), the constant evaluator too where it folds (`FoldAgrees`), and the C program (`CAgrees`) |
| `match` | every pair of arm bodies in every position, 2 iterations per loop; patterns over enums, integers, floats and bit fields at 3 to 8 bits | each owned value is dropped once (`DropsOnce`), none is lost (`NoTempLeak`), the arm that runs is the first that fits (`ArmAgrees`) |
| `generics` | programs of up to seven declarations, nesting limit 4 (the code's 64), call stack 24 | `has_drop` exact for every type (`DropExact`), every called instance emitted (`CallsResolved`), names in bodies mean their own parameters (`LexicalTypes`), errors exactly for wrong programs (`Verdict`) |

Why the bounds are enough. Three threads are two contenders and one that
interferes (two producers and a consumer; a sleeper, a signaller and a barger);
a ring of one slot is full and empty in turn, one of two or four wraps. Two
back edges distinguish the first iteration, one that follows another, and an
exit after either; two locals are the least with a source and a target, and
seven statements hold a branch or a loop around a transfer with uses on both
sides. Two layers of pattern operators put every quantifier inside and beside
every other, and a count of 2 or 3 copies a body once and more than once; three
letters tell greedy from lazy and leave a tail. Two growth steps put every
operator under every other, which is what precedence is about; an edit removes,
inserts or joins at one place of a text, and two of them (in short texts) reach
an error inside a recovery. Reduced widths keep their order, so every widening, narrowing and
sign change between neighbours happens. In `generics` a limit of 4 is reached
by the programs that recurse, which is what the limit is for.

Deadlock is checked in `generics` only, where a walk that cannot go on is a
defect of the checker (the stack cap of section 4 shows as one); a finished
program stutters there. Everywhere else the system may stop: a thread has used
up its calls, a program is rejected or has run, a text is read, a pattern has
been called as often as the bound allows. The
properties of `numeric` and `parser` are action properties: they compare the
program or file of a step with what the compiler makes of it in that step, so
nothing derived is kept in the state.
In `chan`, `ring` and `own` threads and locals are interchangeable, so symmetry
is sound (only safety is checked there).

**Fairness.** `FairSpec` of `Chan` and `Ring` asks only that a thread inside a
call is scheduled while it can run (weak fairness per thread): the operating
system's scheduler, and in the ring's case the header's advice to keep threads
within cores. Making a call, closing included, is never fair. For the mutex,
weak fairness means a waiter gets it when it stays free; with a bounded number
of calls nobody can barge for ever. The compiler's parts are sequential; where
termination matters it is stated as safety (`spin`, `ScanMoves`, the stack
cap).

## 4. Findings

The passing runs leave out the forms below and check everything else: a form is
in a group of its own (`Groups`, `Grammars`, `Leaves`, `Fragments`), beyond a
constant (`MaxParseDepth`, `CheckedAgain`), or excluded by a condition the
property names: `SoundForms` in `own`; `re.onepass`, `EmptyLoop` and
`AnchorEntered` in `regex`, where `Meant` also reads lookaheads as the engine
does; `lost` in `parser`; a pointer or array of an unknown name in
`LexicalTypes`. Each finding can be reproduced by changing one line of a
configuration; `PROJECT.json` quotes the comments the code contradicts.

| Where | What | Reproduce |
|---|---|---|
| `checker_elide.c:768` | a `return` in a loop makes the walk forget what follows the loop: a double free | `MCOwnership.cfg`, `Grammars <- LoopReturn`, `INVARIANT Faultless` |
| `checker_stmt.c:617` | a `while` condition that moves is checked once, run on every iteration | `Grammars <- CondMove` |
| `codegen_stmt.c:507` | `x = x` drops the value it stores | `Grammars <- SelfAssign` |
| `codegen_stmt.c:2011` | `@move(x)` as a statement or a returned value drops `x` twice | `Grammars <- StmtMove`, `<- RetMove` |
| `checker_expr.c:286` | the memo of a binary node hides moves from the second walk of a loop | `Grammars <- BinaryMemo` |
| `ls_regex.c:1534` | `a(?:bc)?` and `a+?` are run as one-pass patterns and match wrongly; a loop over an empty body never ends (`EmptyLoop`); `(?:^a)+b` matches inside "aab" under the DFA (`AnchorEntered`) | `MCRegex.cfg`, `INVARIANT OnePassExact` |
| `ls_regex.c:2138` | a lookahead whose body matches nothing counts as no match: `(?=a*)b` fails on "b", `(?!a*)b` matches it | `MCRegex.cfg`, only `INVARIANT AheadExact` |
| `parser_decl.c:340` | the default values of an extern function's parameters are read and thrown away | `MCParser.cfg`, `PathBuf = 256`, only `PROPERTY NoSilentLoss` |
| `parser_decl.c:1338` | segments of an import path that do not fit the buffer are skipped: another module is imported | `MCParser.cfg`, only `PROPERTY NoSilentLoss` |
| `parser_expr.c:976` | at the nesting limit the arm loop of `match` never ends | `MCParser.cfg`, `MaxParseDepth = 3`, only `PROPERTY Terminates` |
| `parser_expr.c:497` | `foo(x as int).bar()` is rejected | `ParenthesiseCasts = FALSE`, `Leaves <- MCCastLeaves` |
| `scanner.c:471` | an f-string open at the end of the file moves the cursor past it | `MCScanner.cfg`, `Fragments <- MCFragmentsF`, `INVARIANT CursorInSource` |
| `parser_stmt.c:247` | imports, aliases and extern declarations in a body end the compiler when it is cloned | by reading; `NotCloned` of `AstHeap` lists the kinds |
| `checker_lower.c:950`, `checker_stmt.c:729` | a for-in over an overloaded operator loses its operands; one in a loop leaks a tree | `AstHeap.cfg`, `CheckedAgain = TRUE` |
| `codegen_stmt.c:493`, `:476` | `a[0] += 1` stores 1; compound assignment ignores widths and signs | `MCNumeric.cfg`, `Groups = {"defect_compound_elem"}`, `_widen`, `_unsigned` |
| `codegen_expr.c:1427`, `checker_expr.c:139`, `builtins_math_cg.c:27` | the checker's type and the emitted one differ for mixed shifts, `char`, folded constants, unsigned `abs`/`min`/`max` | `defect_shift_mixed`, `defect_char_widen`, `defect_fold_width`, `defect_math_unsigned` |
| `checker_comptime.c:266` | the evaluator neither shadows nor short-circuits; its loop variable outlives the loop | `defect_ct_shadow`, `defect_ct_short_circuit`, `defect_ct_loop_variable` |
| `emit_c.c:720`, `:684` | `i += 2` in a C-style for becomes `i = 2`; a range's end is evaluated every time; `char` | `defect_c_update`, `defect_c_range`, `defect_c_char` |
| `codegen_match.c:1208` | `try` on a variable leaves it to be dropped again | `MCMatch.cfg`, `Groups = {"defect_try_named"}` |
| `codegen_match.c:149`, `codegen_stmt.c:1818` | an arm's temporary, or those before a loop that returns, are never dropped | `defect_tail_temp`, `defect_loop_return` |
| `checker_expr.c:1338` | bit matches without a catch-all, `1 \| _`, duplicates, arms behind `_`, literals too wide, many alternatives | `defect_bits_value`, `defect_or_wild`, `defect_duplicate`, `defect_wild_first`, `defect_two_wild`, `defect_truncated`, `defect_chain_width`, `defect_bits_sign` |
| `checker.c:1557`, `checker_decl.c:732` | `has_drop` misses arrays of types that flip late, and destructors of instances made in the forward pass | `MCGenerics.cfg`, `Groups = {"defect_array"}`, `{"defect_late_methods"}` |
| `checker_generics.c:2041`, `:1911` | errors in a destructor's body are swallowed; a re-entered registration rejects a valid program; parameters named differently by the block | `defect_silent`, `defect_conflict`, `defect_block_name` |
| `checker_generics.c:2050` | a method with an unknown type under a pointer or an array in its signature is registered and callable | `defect_signature` |
| `checker_generics.c:222` | a body sees the type parameters of its callers | `defect_alias` |
| `checker_generics.c:934` | the nesting limit does not count methods and functions: the compiler's stack overflows | `defect_method_recursion`, `defect_template_recursion`, `defect_function_recursion` |

## 5. Proofs

### Channel

For every finite set of threads, every set of capacities and every number of
calls (`ChanAssumption`), TLAPS checks, about `Chan!Spec`:

| Theorem | States |
|---|---|
| `TypeCorrect` | `TypeOK` |
| `MutexProtocol` | `LockDiscipline` |
| `CloseWakesAll` | `ClosedNobodySleeps` |
| `WakeupsSuffice` | `NoLostWakeup` |
| `DeliveryIsFifo` | `FifoExactlyOnce` |
| `DestructorIsExact` | `ResidualDisposed` |
| `ChanImplementsFifo` | `ImplementsFifo` (refinement of `BoundedFifo`) |
| `NoMutualSleep` | `StuckOnlyForCause` |

The argument has three layers.

* `Control == TypeOK /\ LockDiscipline` is inductive by itself: one lemma per
  group of actions. Without lock discipline a body could run twice and the
  cursors would leave the buffer.
* *Wakeups.* `NoLostWakeup` speaks of states where somebody sleeps. It is
  inductive together with `Control` when split into `RecvCovered` and
  `SendCovered`: the number of awake threads on each side is compared with the
  number of elements (free slots). A signal turns one sleeper into one awake
  thread exactly when an element is added; a thread that leaves without an
  element finds the channel empty, which makes the bound trivial. `CoveredKept`
  is the step that leaves count and wait sets alone.
* *Contents.* `Window` says that `tail` is `head + count` modulo the capacity
  and that `sent` is `rcvd` followed by the contents of the ring. Insertion
  appends at `tail`, which the modular lemmas (`ModSucc`, `ModAdd`) show to be
  outside the window; removal shifts the window by one. Delivery, disposal and
  the refinement follow from it.

`StuckOnlyForCause` is what the wakeup argument says of a standstill: when every
thread has returned or sleeps, receivers sleep only over an empty open channel,
senders only over a full open one, and never both. It is the safety half of
`SleeperServed`, for any number of threads.

### Ring

For every finite set of threads, every set of positive capacities and every
number of calls (`RingAssumption`), in both modes, TLAPS checks about
`Ring!Spec`:

| Theorem | States |
|---|---|
| `RingControl` | `Control`, the control part of the invariant |
| `RingNoDataRace` | `NoDataRace` |
| `RingExactlyOnce` | `ExactlyOnce` |
| `RingResidualExact` | `ResidualExact` |
| `RingLinearizes` | `LinearizesToFifo` (refinement of `BoundedFifo!ClearableSpec`) |
| `RingSpins` | `SpinsForSomebody` |

None of the three invariants is inductive. `IInv == Control /\ Sync /\ Contents`
is; TLC was run on it with two threads, capacities 1 and 2 and two calls each
before it was proved.

* `Control` is about indices. The cursors are ordered and at most `cap` apart
  (`Order`); a thread's index lies between the cursors its label promises
  (`Producing`, `Consuming`) although the cursor it compared with may have been
  stale: staleness only makes `cons_tail` and `prod_tail` smaller, which errs on
  the safe side. No two threads hold the same index (`Exclusive`): a successful
  `compare_set` reads the current head, and every index held is below it. In
  SPSC mode the thread knows its own cursor (`OwnCursor`), so the relaxed load
  of it cannot be stale. `Stamped` gives each index handed out the call it was
  handed to, injectively; it bounds the indices by the calls, which is what
  keeps the model's index range large enough, and makes elements distinct.
* `Sync` is about views. A view that knows the value `v` of a tail knows the
  accesses to all slots below `v` (`Closed`), and so does the view attached to
  that value. The acquire load of the other side's tail therefore brings the
  accesses the thread is about to follow; the wait for one's predecessors, an
  acquire load of one's own tail, makes the release store that follows pass on
  theirs as well.
* `Contents` is about slots. Indices written and not taken lie in one window of
  `cap`, so their slots differ (`SlotsDiffer`, `OwnSlot`) and each slot holds
  the item of its index; what is owed a drop is exactly those items, and what a
  consumer holds or handed out under an index is the item of that index.

The refinement follows step by step: writes lie at or above `prod_tail` and
takes at or above `cons_tail`, so neither shows (`AccessHidden`); publishing
`prod_tail` appends the item of an index below `cons_tail + cap`, so there was
room (`PublishPuts`); publishing `cons_tail` outputs what was taken under it,
which `Contents` says is the head of the queue (`PublishTakes`).

`SpinsForSomebody` is the safety half of `CallsEnd`: a thread that spins until
its predecessors have published waits for a thread that holds an earlier index
and does not spin itself, so publication is never waited for in a circle, nor
for an index nobody holds. It needs `NoOrphan`: every index between a tail and
its head is held by a thread that has reserved it and not yet published it.

### Ownership

For every grammar, every finite set of names, every program and every run of it
(`ProgramAssumption`), TLAPS checks about `Ownership!Spec`:

| Theorem | States |
|---|---|
| `ScopeInvariant` | `IInv`, the scope part of the pipeline's invariant |
| `OwnershipNoLeak` | `NoLeak` |
| `MoveInvariant` | `IInv /\ Harmless`, the whole invariant |
| `OwnershipNoDoubleFree` | `NoDoubleFree` |
| `OwnershipNoUseAfterMove` | `NoUseAfterMove` |
| `OwnershipLiveOwns` | `LiveOwns` |

`NoLeak` speaks of the last state only. That every live block has an owner who
will drop it is not inductive without knowing *when* the emitted code drops:
the code compares a local's recorded depth with a nesting depth, and a local is
declared anew in every iteration. If a local could still count as in scope when
its declaration is reached again, its old block would be overwritten; if an
assignment could reach a local that is no longer in scope, its new block would
have no owner. So `IInv == Shape /\ Walk /\ Closed /\ InBlock /\ Owned`:

* `Shape` is what the checker builds: every `end` closes the block opened last,
  an `if` has at most one `else`, a name is declared once and needed only where
  its declaration is visible. `Around(P, M, p)` are the blocks around position
  `p`, and `Visible` is stated with it alone, so that the facts about a program
  survive appending a statement to it (`Grow...` lemmas).
* `Walk` ties the checker's frame stack and status map to the program read so
  far: the stack is the list of open blocks, and a local is not `undef` exactly
  where it is visible. The second walk of a loop body comes back to a position
  it has seen, which is why this is stated for positions and not for the end.
* `Closed`: only a program whose blocks are closed is elided and run.
* `InBlock`: while the program runs, `depth[v] # 0` exactly when the declaration
  of `v` is visible at `pos`, and then it is the nesting depth of that block.
  Jumps are the hard case: `break` and `continue` leave several blocks at once
  (`LeaveBlock`), and `Nest` of a loop separates what is inside from what is not
  (`NestInner`).
* `Owned`: every live block is held by a local in scope whose flag is clear.

This first half needs neither the move checker's verdict nor the elision to be
right: `NoLeak` holds for the unsound forms of section 4 too, which free too
often and never too seldom.

The second half (`OwnMoveProofs`) is about what the two passes promise the code
generator. `Harmless` says it phase by phase, for the bodies of `SoundForms`:

* *Checking.* `Precedes(P, M, j, p)`: statement `j` may have run before `p`,
  which is a matter of positions and branches and not of runs. The checker's
  status is right (`Tracked`): what it holds live, no preceding statement
  moves; the snapshots on its frame stack are right where they were taken. In
  the second walk of a loop body, what is live and was declared outside is not
  moved anywhere in the body (`Rewalked`). That is what the silent first walk
  is for, and why errors count only once no enclosing loop can be walked again
  (`Settled`): `Verdict` is what an accepted statement then guarantees,
  `Sane` that it is none of the unsound forms.
* *Tagging.* Clone elision has its flow equations (`Flow`): what is read after a
  statement determines what is read before it, along every edge, with the preset
  of a loop as the unknown on the back edge. The walk computes one solution; the
  invariant only says that there is one (`\E U`) of which the current set and
  the branch frames are a part, and that each tag was put where the solution did
  not contain the local (`LastUses`).
* *Running.* `Gone(P, M, U, T, v, p)`: `v` was moved by a preceding statement or
  a tag, and nothing ahead of `p` reads it. It is carried along every edge: the
  next statement, both branches, the else skipped, the loop left, the back edge
  and the jumps of `break` and `continue`. `Flagged` says that a set `moved_flag`
  means `Gone`, so that a statement that reads `v` finds the flag clear; `Sole`
  that a local in scope with a clear flag holds a live block no other such local
  holds. `fault = {}` follows: each drop and each read hits a live block.

`SoundForms` is a real hypothesis: each form it excludes has a program in
section 4 for which TLC finds the fault.

### The pattern cache

| Theorem | States |
|---|---|
| `CacheLRU` | `CacheIsLRU` for `RegexCache!CacheSpec` |

Every step of `Regex!Spec` is a `Lookup` or leaves the cache alone, so the
theorem is about the cache of the whole model; it is stated in a module of its
own because the engines are recursive operators. The history `recent` is not in
the code, which has one stamp per slot. The invariant ties the two: a slot is
stamped with the *last* call for its pattern (`LastUse`), no call is on two slots
(`OneSlot`), and every call for a pattern no longer held is older than every
stamp (`Evicted`). The last one is what choosing the least stamp buys, and it
needs `OneSlot`: with equal stamps the victim could be a pattern used later.
`CacheIsLRU` follows by counting: the patterns used since a stamp are all held,
and a pattern not held has as many younger ones as there are slots.
`CacheAssumption` asks for one slot at least. `MaxClock` stands for the 2^32
calls after which the unsigned clock wraps: beyond them stamps are no longer
in order and a recent pattern may be the victim.

### Scanner

For every text over the alphabet `Symbols`, however it is put together
(`TextAssumption`), and every limit on nested `#if`, TLAPS checks about
`ScanText!Spec`:

| Theorem | States |
|---|---|
| `ScannerInvariant` | `ScanInv`, the inductive invariant |
| `ScannerMoves` | `ScanMoves` |
| `ScannerTokens` | `TokensBounded`: a text of n symbols has at most n + 1 tokens |
| `ScannerStaysInside` | `LeavesByOverrun` |
| `ScannerFrames` | `FramesAgree` |

What a loop computes would need induction over the text. `Iterate` avoids it:
`IterateUnfold` shows that the recursive function behind it exists (as the least
relation closed under the loop's steps), and `WhileRule`, by well-foundedness of
the naturals, that a loop with an invariant and a variant ends inside the
invariant with its condition false. Each loop then has one lemma: `SkipInStops`
and `SkipToStops` for the plain ones, `CommentEnds` (nested comments), `SpaceEnds`
(blanks and comments in turn), `StringAhead` and `RawAhead` (literals),
`FTextEnds` (the text of an f-string), and `NextTurns` for the outer `for (;;)`
of `scanner_next`, whose rounds are the tokens of inactive branches and the
directives.

The invariant is needed for that outer loop and for the f-string modes. Its
variant is the distance to the end, and a round moves the cursor only because
the modes are right: an f-string's depth is 0 outside an f-string (`Balanced`),
so a round in text mode takes text, a brace or the closing quote. The exception
is real: at the end of the file `scan_fstring_text` takes the terminating NUL
for a brace (section 4, `scanner.c:471`). `Overrun` describes exactly that state, one behind the NUL
and in an open f-string, and `LeavesByOverrun` says that the cursor leaves the
source in no other way. `Nested` is about the stack of frames: `parent_active`
means that everything around is active, so the top frame speaks for all of them
and `cond_is_emitting` means what the comment over it says (`scanner.c:503`).

### Syntax trees

For every set of node kinds, every way the parser nests them and every number of
clones and annotations, TLAPS checks about `AstHeap!Spec`:

| Theorem | States |
|---|---|
| `TreesFreedOnce` | `FreedOnce`, when `CheckedAgain = FALSE` |
| `ClonesComplete` | `CloneComplete`, when `CheckedAgain = FALSE` |
| `TreesNeverDangle` | `NoDangling`: the part of `FreedOnce` about double and early frees, for both values |

`CheckedAgain = FALSE` says that `build_foreach_desugar` runs once per loop and
that no lowered operator is cloned. The code keeps to neither (section 4,
`checker_stmt.c:729` and `checker_lower.c:950`): a loop inside a loop is walked
twice and the first tree is lost, and `for x in a + b` clones an operator without
its operands. `TreesNeverDangle` says that even then nothing is freed
twice and nothing held is freed.

* *The tables.* The header of `ast.c` demands that `ast_free` and
  `ast_clone_deep` agree field by field; nothing in C checks it. `SlotsFreed`
  (`ast_free` releases every pointer field of every kind) and `SlotsCopied` (the
  clone copies or clears each field of the kinds it accepts) prove it, table by
  table; `CopiedNotCleared` that no field is both.
* *The forest.* `Good(h, n, R, F)` is the inductive invariant: no allocation is
  pointed to twice (`Sole`), no root is pointed to (`Top`), and the roots reach
  exactly what was not freed (`Spans`: the least set closed under the pointers).
  `FreedOnce` alone is not inductive: it does not say that two trees are
  disjoint, and freeing one would free part of the other. `Shape` adds what the
  rewritings need: a lowered operator has given up its operands, a loop has an
  iterable and a body.
* *The operations.* `BelowLeast` (by `WhileRule`) says that the loops compute
  least closed sets. `FreeGood` follows from `ClosedAbove`: with one pointer per
  allocation a tree is entered only at its root. `CloneTree` shows that a clone
  is a tree of new allocations, by the tables; `GraftGood` puts it beside the
  others. The checker's rewritings are sequences of three moves, each with its
  lemma: drop a pointer, whose target becomes a root (`UnlinkGood`), put a node
  over roots (`WrapGood`), hang a root into an empty field (`LinkGood`).
  `LinkGood` would close a cycle if the field lay below the root; `StillReaches`
  rules it out, since the other roots reach the field without its own pointers.
* *Lost trees.* `Inv` has the lost trees `Q` as further roots: desugaring a loop
  again drops its old tree into `Q`. With `CheckedAgain = FALSE` there are none.
* *Texts.* `CopiesTexts` shows that what the clone skips of a source carries no
  text: `lowered` is NULL by hypothesis, `desugared` is no source and the captures
  of a closure are blank (`Sealed`, which every operation keeps: `SealedNext`).
  `CloneTexts` carries this to the clone as it stands in the heap after the
  operation, where it reaches exactly its own allocations (`CloneTree`).

### What is only model-checked

All liveness (`CloseEndsCalls`, `SleeperServed`, `CallsEnd`): the prover does not
do fairness; their safety halves are proved. `RoundTrip` and `Diagnosed` of
`ScanText`, which relate a text to the tokens of all its parts: that needs
induction over the text. The regex engines, parser, scalars and
match, which are recursive over trees. `Generics`, whose worklists are sequences
filtered as they are read, so that what holds of them for every program needs
induction over a sequence.

## 6. Not modelled

* Of the modelled parts: `len`, `is_closed` and the other unlocked counters
  (declared approximate); failure to create an OS lock; overflow of the
  capacity rounding; columns and wording of diagnostics; debug counters of the
  regex runtime.
* In the ownership pipeline: borrows, closures, `for`, fields and containers
  (`match` and temporaries have a model of their own, without moves of locals).
* In the scalar and match models: f16, bf16, SIMD, strings and collections.
* In the parser: the number a literal's text means, and the limits of that
  conversion (`prefix_int_lit` refuses a literal of 256 characters or more; that
  of a bit pattern, `parser_expr.c:895`, is cut at 63).
* In generics: interfaces, constraints, derive, templates of several
  parameters.
* Locks, tasks, closures, containers, the arena, the module loader: no module
  yet (section 7). JIT, REPL, drivers, editor glue and I/O: calls into LLVM,
  the terminal and the operating system. Numerics and charts: floating point.
  The simulator, LSM model and O-RAN codec are applications in the language.

## 7. Plan

Done: channel and ring (model, refinement, proofs), ownership pipeline (model,
proofs), pattern cache (model, proof), scanner and AST heap (models, proofs),
regex engines, parser, scalars, match and temporaries, generics (models).
Next:

1. The lemmas that would carry a proof about `Generics`: its worklists as sets
   with an order instead of filtered sequences.
2. `Tasks` and `Locks`: spawn, join, failure of `pthread_create`, the partition
   of `parallel_for`; SpinLock, RwLock and Guard as one abstract critical
   section.
3. `Program` with borrows, `match` and fields; `BlockEnv`: environments with
   their count.
4. `RobinHood`: insertion, backward-shift removal and growth against a plain
   function; `Deque` with growth across the wrap; memcheck's table; the arena.
