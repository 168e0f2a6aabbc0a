-------------------------------- MODULE Ring --------------------------------
(***************************************************************************)
(* std.sync.ring: the lock-free bounded ring (lib/std/sync/ring.lls) in    *)
(* its two modes, on the memory model its orderings buy.                   *)
(*                                                                         *)
(* Every atomic access and every access to a slot is one step.  Cursors    *)
(* only grow, so their modification order is their numeric order: a load   *)
(* returns any value from the newest one the thread knows of up to the     *)
(* current one.  What a thread knows is its view, a set of facts           *)
(* <<cursor, value>>, <<"write", k>> and <<"take", k>>, where k is the     *)
(* index of an element.  A release store attaches the storing thread's     *)
(* view to the value, an acquire load that reads the value joins it: this  *)
(* is happens-before.  Two accesses to a slot of which neither             *)
(* happens-before the other are a data race.  SeqCst loads and stores are  *)
(* given no more than acquire and release, so what holds here holds with   *)
(* the stronger order.                                                     *)
(***************************************************************************)
EXTENDS Naturals, FiniteSets, FiniteSetsExt

CONSTANTS
    Threads,    \* threads that share the ring
    RingCaps,   \* capacities, powers of two
    MaxCalls,   \* bound: calls each thread makes
    None        \* no element

ASSUME RingAssumption ==
    /\ IsFiniteSet(Threads)
    /\ RingCaps \subseteq Nat \ {0}
    /\ MaxCalls \in Nat

VARIABLES
    cap, multi,             \* size; mp and mc (both set or both clear)
    producers, consumers,   \* threads the mode entitles to each operation
    cur, msg,               \* value of each cursor; view attached to each value
    data,                   \* the slots
    pc, loc, calls, view,   \* control, reserved index, calls and view of each thread
    item, got,              \* histories by index: stored, dequeued
    owed,                   \* stored and neither dequeued nor disposed
    race                    \* two unordered accesses to one slot happened

config == <<cap, multi, producers, consumers>>
hist   == <<item, got, owed, race>>
vars   == <<config, cur, msg, data, pc, loc, calls, view, hist>>

Cursors == {"prod_head", "prod_tail", "cons_head", "cons_tail"}
Indices == 0 .. Cardinality(Threads) * MaxCalls

-----------------------------------------------------------------------------
(* Construction, clear, destructor. *)

Empty == [k \in Indices |-> None]

\* new_ring: one producer, one consumer, possibly the same thread.
\* new_mpmc_ring: anybody.
Init ==
    /\ cap \in RingCaps
    /\ multi \in BOOLEAN
    /\ IF multi THEN producers = Threads /\ consumers = Threads
       ELSE \E p, c \in Threads : producers = {p} /\ consumers = {c}
    /\ cur = [c \in Cursors |-> 0]
    /\ msg = [c \in Cursors |-> [v \in Indices |-> {}]]
    /\ data = [i \in 0 .. cap - 1 |-> None]
    /\ pc = [t \in Threads |-> "idle"]
    /\ loc = [t \in Threads |-> 0]
    /\ calls = [t \in Threads |-> 0]
    /\ view = [t \in Threads |-> {}]
    /\ item = Empty /\ got = Empty /\ owed = {} /\ race = FALSE

Quiet == \A t \in Threads : pc[t] = "idle"

Residual_Short == cur["cons_tail"] + 1 .. cur["prod_tail"] - 1

\* What clear and the destructor dispose: [cons_tail, prod_tail).
Residual == cur["cons_tail"] .. cur["prod_tail"] - 1

\* clear, for one thread only, after the others were joined.  The destructor is
\* the same walk and frees the buffer.
Clear ==
    /\ Quiet /\ cur["prod_tail"] > 0
    /\ owed' = owed \ {data[k % cap] : k \in Residual}
    /\ cur' = [c \in Cursors |-> 0]
    /\ msg' = [c \in Cursors |-> [v \in Indices |-> {}]]
    /\ data' = [i \in 0 .. cap - 1 |->
                   IF \E k \in Residual : k % cap = i THEN None ELSE data[i]]
    /\ view' = [t \in Threads |-> {}]
    /\ item' = Empty /\ got' = Empty
    /\ UNCHANGED <<config, pc, loc, calls, race>>

-----------------------------------------------------------------------------
(* Atomic accesses (atomic.lls). *)

Goto(t, label) == pc' = [pc EXCEPT ![t] = label]

\* The newest value of cursor c that view V knows.
Known(V, c) == Max({0} \cup {v \in Indices : <<c, v>> \in V})

\* Values a load of c by thread t may return.
Loads(t, c) == Known(view[t], c) .. cur[c]

\* View of t after an acquire (or SeqCst) load of v from c; a relaxed load
\* learns the value and nothing else.
Acquire(t, c, v) == view' = [view EXCEPT ![t] = @ \cup msg[c][v] \cup {<<c, v>>}]
Relaxed(t, c, v) == view' = [view EXCEPT ![t] = @ \cup {<<c, v>>}]

Release_Relaxed(t, c, v) ==
    /\ cur' = [cur EXCEPT ![c] = v]
    /\ view' = [view EXCEPT ![t] = @ \cup {<<c, v>>}]
    /\ msg' = [msg EXCEPT ![c][v] = {<<c, v>>}]

\* Release (or SeqCst) store of v to c.
Release(t, c, v) ==
    LET V == view[t] \cup {<<c, v>>}
    IN  /\ cur' = [cur EXCEPT ![c] = v]
        /\ view' = [view EXCEPT ![t] = V]
        /\ msg' = [msg EXCEPT ![c][v] = V]

\* compare_set(loc, loc + 1) that succeeds: reads the current value, releases.
Swap(t, c) ==
    LET V == view[t] \cup msg[c][loc[t]] \cup {<<c, loc[t] + 1>>}
    IN  /\ cur[c] = loc[t]
        /\ cur' = [cur EXCEPT ![c] = loc[t] + 1]
        /\ view' = [view EXCEPT ![t] = V]
        /\ msg' = [msg EXCEPT ![c][loc[t] + 1] = V]

\* compare_set that fails: an acquire load of some other, hence newer, value.
CasFails(t, c) ==
    /\ cur[c] # loc[t]
    /\ \E v \in Loads(t, c) \ {loc[t]} : Acquire(t, c, v)

-----------------------------------------------------------------------------
(* enqueue. *)

\* Read the reservation cursor: prod_head, or the producer's own prod_tail.
EnqHead(t) ==
    /\ \/ pc[t] = "idle" /\ t \in producers /\ calls[t] < MaxCalls
          /\ calls' = [calls EXCEPT ![t] = @ + 1]
       \/ pc[t] = "e_head" /\ UNCHANGED calls
    /\ LET c == IF multi THEN "prod_head" ELSE "prod_tail"
       IN  \E v \in Loads(t, c) :
              /\ loc' = [loc EXCEPT ![t] = v]
              /\ IF multi THEN Acquire(t, c, v) ELSE Relaxed(t, c, v)
    /\ Goto(t, "e_check")
    /\ UNCHANGED <<config, cur, msg, data, hist>>

HasRoom_OffByOne(slot, ct) == slot <= ct + cap

\* Is there a free slot, as far as this load of cons_tail tells?
HasRoom(slot, ct) == slot < ct + cap

EnqCheck(t) ==
    /\ pc[t] = "e_check"
    /\ \E ct \in Loads(t, "cons_tail") :
          /\ Acquire(t, "cons_tail", ct)
          /\ Goto(t, IF ~HasRoom(loc[t], ct) THEN "idle"
                     ELSE IF multi THEN "e_cas" ELSE "e_write")
    /\ UNCHANGED <<config, cur, msg, data, loc, calls, hist>>

EnqCas(t) ==
    /\ pc[t] = "e_cas"
    /\ Swap(t, "prod_head")
    /\ Goto(t, "e_write")
    /\ UNCHANGED <<config, data, loc, calls, hist>>

\* Another producer was faster: start over.
EnqRetry(t) ==
    /\ pc[t] = "e_cas" /\ CasFails(t, "prod_head")
    /\ Goto(t, "e_head")
    /\ UNCHANGED <<config, cur, msg, data, loc, calls, hist>>

\* data[slot & mask] = x.  Ordered after the take of the element that used
\* the slot one turn earlier.
EnqWrite(t) ==
    LET k == loc[t] IN
    /\ pc[t] = "e_write"
    /\ data' = [data EXCEPT ![k % cap] = <<t, calls[t]>>]
    /\ item' = [item EXCEPT ![k] = <<t, calls[t]>>]
    /\ owed' = owed \cup {<<t, calls[t]>>}
    /\ race' = (race \/ (k >= cap /\ <<"take", k - cap>> \notin view[t]))
    /\ view' = [view EXCEPT ![t] = @ \cup {<<"write", k>>}]
    /\ Goto(t, IF multi THEN "e_wait" ELSE "e_publish")
    /\ UNCHANGED <<config, cur, msg, loc, calls, got>>

EnqWait_Late(t) ==
    /\ pc[t] = "e_wait" /\ cur["prod_tail"] > loc[t]
    /\ Goto(t, "e_publish")
    /\ UNCHANGED <<config, cur, msg, data, loc, calls, view, hist>>

\* Wait until every earlier producer has published.
EnqWait(t) ==
    /\ pc[t] = "e_wait" /\ cur["prod_tail"] = loc[t]
    /\ Acquire(t, "prod_tail", loc[t])
    /\ Goto(t, "e_publish")
    /\ UNCHANGED <<config, cur, msg, data, loc, calls, hist>>

EnqPublish(t) ==
    /\ pc[t] = "e_publish"
    /\ Release(t, "prod_tail", loc[t] + 1)
    /\ Goto(t, "idle")
    /\ UNCHANGED <<config, data, loc, calls, hist>>

-----------------------------------------------------------------------------
(* dequeue; dequeue_burst is a loop of it. *)

DeqHead(t) ==
    /\ \/ pc[t] = "idle" /\ t \in consumers /\ calls[t] < MaxCalls
          /\ calls' = [calls EXCEPT ![t] = @ + 1]
       \/ pc[t] = "d_head" /\ UNCHANGED calls
    /\ LET c == IF multi THEN "cons_head" ELSE "cons_tail"
       IN  \E v \in Loads(t, c) :
              /\ loc' = [loc EXCEPT ![t] = v]
              /\ IF multi THEN Acquire(t, c, v) ELSE Relaxed(t, c, v)
    /\ Goto(t, "d_check")
    /\ UNCHANGED <<config, cur, msg, data, hist>>

DeqCheck(t) ==
    /\ pc[t] = "d_check"
    /\ \E pt \in Loads(t, "prod_tail") :
          /\ Acquire(t, "prod_tail", pt)
          /\ Goto(t, IF loc[t] >= pt THEN "idle"
                     ELSE IF multi THEN "d_cas" ELSE "d_take")
    /\ UNCHANGED <<config, cur, msg, data, loc, calls, hist>>

DeqCas(t) ==
    /\ pc[t] = "d_cas"
    /\ Swap(t, "cons_head")
    /\ Goto(t, "d_take")
    /\ UNCHANGED <<config, data, loc, calls, hist>>

DeqRetry(t) ==
    /\ pc[t] = "d_cas" /\ CasFails(t, "cons_head")
    /\ Goto(t, "d_head")
    /\ UNCHANGED <<config, cur, msg, data, loc, calls, hist>>

\* @take(data[oh & mask]): ordered after the write of the same element.
DeqTake(t) ==
    LET k == loc[t] IN
    /\ pc[t] = "d_take"
    /\ got' = [got EXCEPT ![k] = data[k % cap]]
    /\ owed' = owed \ {data[k % cap]}
    /\ data' = [data EXCEPT ![k % cap] = None]
    /\ race' = (race \/ <<"write", k>> \notin view[t])
    /\ view' = [view EXCEPT ![t] = @ \cup {<<"take", k>>}]
    /\ Goto(t, IF multi THEN "d_wait" ELSE "d_publish")
    /\ UNCHANGED <<config, cur, msg, loc, calls, item>>

DeqWait_None(t) ==
    /\ pc[t] = "d_wait"
    /\ Goto(t, "d_publish")
    /\ UNCHANGED <<config, cur, msg, data, loc, calls, view, hist>>

DeqWait(t) ==
    /\ pc[t] = "d_wait" /\ cur["cons_tail"] = loc[t]
    /\ Acquire(t, "cons_tail", loc[t])
    /\ Goto(t, "d_publish")
    /\ UNCHANGED <<config, cur, msg, data, loc, calls, hist>>

DeqPublish(t) ==
    /\ pc[t] = "d_publish"
    /\ Release(t, "cons_tail", loc[t] + 1)
    /\ Goto(t, "idle")
    /\ UNCHANGED <<config, data, loc, calls, hist>>

-----------------------------------------------------------------------------
\* What the scheduler runs once thread t is inside a call.
Step(t) ==
    \/ pc[t] # "idle" /\ (EnqHead(t) \/ DeqHead(t))
    \/ EnqCheck(t) \/ EnqCas(t) \/ EnqRetry(t) \/ EnqWrite(t) \/ EnqWait(t) \/ EnqPublish(t)
    \/ DeqCheck(t) \/ DeqCas(t) \/ DeqRetry(t) \/ DeqTake(t) \/ DeqWait(t) \/ DeqPublish(t)

Next == Clear \/ \E t \in Threads : EnqHead(t) \/ DeqHead(t) \/ Step(t)

Spec == Init /\ [][Next]_vars

\* A thread inside a call is scheduled again and again, the peer it spins on
\* too (ring.lls: keep threads <= cores).
FairSpec == Spec /\ \A t \in Threads : WF_vars(Step(t))

-----------------------------------------------------------------------------
(* Properties. *)

\* The slot protocol is race-free: every write of a slot happens-before the
\* take of its element and every take before the next write of the slot, by
\* the orderings the code asks for and under stale reads of every cursor.
NoDataRace == ~race

\* Exactly-once FIFO: the element dequeued under index k is the one enqueued
\* under index k.
ExactlyOnce == \A k \in Indices : got[k] # None => got[k] = item[k]

\* When nobody is inside a call, the slots [cons_tail, prod_tail) hold exactly
\* the elements still owed a drop, so that clear and the destructor dispose of
\* each one and of nothing else.
ResidualExact ==
    Quiet => owed = {data[k % cap] : k \in cur["cons_tail"] .. cur["prod_tail"] - 1}

\* The elements between the tails, oldest first, and what consumers have
\* handed out so far, in the order of the cursor.
Buffered  == [i \in 1 .. cur["prod_tail"] - cur["cons_tail"] |-> item[cur["cons_tail"] + i - 1]]
Delivered == [i \in 1 .. cur["cons_tail"] |-> got[i - 1]]

Abstract == INSTANCE BoundedFifo
    WITH Values <- Threads \X (1 .. MaxCalls), q <- Buffered, out <- Delivered,
         closed <- FALSE, dead <- FALSE

\* The ring implements the bounded FIFO queue, in both modes and on relaxed
\* memory: an enqueue takes effect when it publishes prod_tail, a dequeue when
\* it publishes cons_tail, and what it took from its slot long before is the
\* oldest element of the queue at that moment.
LinearizesToFifo == Abstract!ClearableSpec

\* Every operation ends: no producer waits for ever for its predecessors to
\* publish, no consumer either, and the retry loops are bounded by the peers.
CallsEnd == \A t \in Threads : pc[t] # "idle" ~> pc[t] = "idle"

\* The threads run the same code: TLC may exchange them.
LOCAL INSTANCE TLC
Symmetry == Permutations(Threads)
=============================================================================
