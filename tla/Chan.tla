------------------------------- MODULE Chan -------------------------------
(***************************************************************************)
(* std.sync.chan: the blocking bounded channel (lib/std/sync/chan.lls).    *)
(*                                                                         *)
(* A mutex and two condition variables over a ring of `cap' slots.  Every  *)
(* operation is a lock, one pass through the body with the lock held, and  *)
(* an unlock; a body that has to block releases the mutex and joins the    *)
(* wait set of its condition variable in one step (pthread_cond_wait).     *)
(* The scheduler interleaves the threads between those steps, a signal     *)
(* wakes an arbitrary waiter, and POSIX lets a waiter wake for no reason.  *)
(*                                                                         *)
(* `sent', `rcvd' and `disposed' are histories: what the ring accepted, in *)
(* order, what receivers took out, in order, and what the destructor drops.*)
(* The k-th call of thread t offers the value <<t, k>>.                    *)
(***************************************************************************)
EXTENDS Naturals, Sequences, FiniteSets

CONSTANTS
    Threads,      \* threads that share the channel
    Capacities,   \* values the `capacity' argument of init may take
    MaxCalls,     \* bound: calls each thread makes
    MaxSpurious,  \* bound: spurious wakeups in one behaviour
    None          \* no thread holds the mutex; no value in a slot

ASSUME ChanAssumption ==
    /\ IsFiniteSet(Threads)
    /\ Capacities \subseteq Nat
    /\ MaxCalls \in Nat
    /\ MaxSpurious \in Nat
    /\ None \notin Threads
    /\ None \notin Threads \X Nat

VARIABLES
    want, cap, phase,                  \* init: argument, rounded size, life cycle
    data, head, tail, count, closed,   \* the ring, guarded by mtx
    mtx, not_full, not_empty,          \* owner of the mutex, wait sets
    pc, op, calls, spurious,           \* control of each thread, bounds
    sent, rcvd, disposed               \* histories

ring == <<data, head, tail, count, closed>>
sync == <<mtx, not_full, not_empty>>
ctl  == <<op, calls, spurious>>
hist == <<sent, rcvd, disposed>>
vars == <<want, cap, phase, ring, sync, pc, ctl, hist>>

SendOps == {"send", "try_send"}
RecvOps == {"recv", "try_recv", "drain"}   \* drain is `for x in ch'
Ops     == SendOps \cup RecvOps \cup {"close"}

Values == Threads \X (1 .. MaxCalls)

\* The next slot: (i + 1) & mask with mask = cap - 1, a remainder because RoundUp
\* only doubles.
Succ(i) == (i + 1) % cap

-----------------------------------------------------------------------------
(* Construction and destruction. *)

Init ==
    /\ want \in Capacities
    /\ cap = 1
    /\ phase = "init"
    /\ data = <<>>
    /\ head = 0 /\ tail = 0 /\ count = 0 /\ closed = FALSE
    /\ mtx = None /\ not_full = {} /\ not_empty = {}
    /\ pc = [t \in Threads |-> "idle"]
    /\ op = [t \in Threads |-> "close"]
    /\ calls = [t \in Threads |-> 0]
    /\ spurious = 0
    /\ sent = <<>> /\ rcvd = <<>> /\ disposed = <<>>

\* One turn of the rounding loop of init.
RoundUp ==
    /\ phase = "init" /\ cap < want
    /\ cap' = cap * 2
    /\ UNCHANGED <<want, phase, ring, sync, pc, ctl, hist>>

\* The rest of init: allocate the buffer, create the lock and the condvars.
Create ==
    /\ phase = "init" /\ cap >= want
    /\ phase' = "live"
    /\ data' = [i \in 0 .. cap - 1 |-> None]
    /\ UNCHANGED <<want, cap, head, tail, count, closed, sync, pc, ctl, hist>>

Residual_FromSlotZero == [i \in 1 .. count |-> data[i - 1]]

\* What the destructor walks over: `count' slots from `head', wrapping.
Residual == [i \in 1 .. count |-> data[(head + i - 1) % cap]]

\* The destructor.  The channel is a global that outlives the joined workers,
\* so no call is under way when it runs.
Destroy ==
    /\ phase = "live"
    /\ \A t \in Threads : pc[t] = "idle"
    /\ phase' = "dead"
    /\ disposed' = Residual
    /\ UNCHANGED <<want, cap, ring, sync, pc, ctl, sent, rcvd>>

-----------------------------------------------------------------------------
(* Calls, the mutex, the condition variables. *)

Goto(t, label) == pc' = [pc EXCEPT ![t] = label]

\* A thread calls a method (the environment chooses which).
Call(t) ==
    /\ phase = "live" /\ pc[t] = "idle" /\ calls[t] < MaxCalls
    /\ \E o \in Ops : op' = [op EXCEPT ![t] = o]
    /\ calls' = [calls EXCEPT ![t] = @ + 1]
    /\ Goto(t, "lock")
    /\ UNCHANGED <<want, cap, phase, ring, sync, spurious, hist>>

Lock_Barging(t) ==
    /\ pc[t] = "lock"
    /\ mtx' = t
    /\ Goto(t, "body")
    /\ UNCHANGED <<want, cap, phase, ring, not_full, not_empty, ctl, hist>>

\* __mutex_lock at the head of a method, or the re-acquisition inside
\* __cond_wait; both continue with the condition of the wait loop.
Lock(t) ==
    /\ pc[t] = "lock" /\ mtx = None
    /\ mtx' = t
    /\ Goto(t, "body")
    /\ UNCHANGED <<want, cap, phase, ring, not_full, not_empty, ctl, hist>>

\* __mutex_unlock and return; `for x in ch' calls recv again after a Some.
Unlock(t) ==
    /\ pc[t] \in {"unlock", "again"}
    /\ mtx' = None
    /\ Goto(t, IF pc[t] = "again" THEN "lock" ELSE "idle")
    /\ UNCHANGED <<want, cap, phase, ring, not_full, not_empty, ctl, hist>>

\* pc after thread t goes to `label' and a signal on wait set W woke `woken'.
Wake(t, label, woken) ==
    pc' = [u \in Threads |->
              IF u = t THEN label ELSE IF u \in woken THEN "lock" ELSE pc[u]]

Signalled_Lost(W) == {{}}

\* __cond_signal: one waiter, any of them, or nobody when none waits.
Signalled(W) == IF W = {} THEN {{}} ELSE {{w} : w \in W}

SpuriousWake(t) ==
    /\ pc[t] = "wait" /\ spurious < MaxSpurious
    /\ spurious' = spurious + 1
    /\ not_full' = not_full \ {t}
    /\ not_empty' = not_empty \ {t}
    /\ Goto(t, "lock")
    /\ UNCHANGED <<want, cap, phase, ring, mtx, op, calls, hist>>

-----------------------------------------------------------------------------
(* Bodies, run with the mutex held. *)

Holds(t, ops) == pc[t] = "body" /\ op[t] \in ops

Full_Late == count > cap

\* The test of the wait loop of send and of try_send.
Full == count = cap

CanPut_Reopened == ~Full

\* What send and try_send need before they store.
CanPut == ~Full /\ ~closed

\* send: the channel is full and open.
SendBlock(t) ==
    /\ Holds(t, {"send"}) /\ Full /\ ~closed
    /\ mtx' = None /\ not_full' = not_full \cup {t}
    /\ Goto(t, "wait")
    /\ UNCHANGED <<want, cap, phase, ring, not_empty, ctl, hist>>

\* send drops its value and returns false on a closed channel; try_send hands
\* it back when the channel is closed or full.
SendRefused(t) ==
    /\ Holds(t, SendOps)
    /\ closed \/ (op[t] = "try_send" /\ Full)
    /\ Goto(t, "unlock")
    /\ UNCHANGED <<want, cap, phase, ring, sync, ctl, hist>>

SendPut(t) ==
    /\ Holds(t, SendOps) /\ CanPut
    /\ data' = [data EXCEPT ![tail] = <<t, calls[t]>>]
    /\ tail' = Succ(tail)
    /\ count' = count + 1
    /\ sent' = Append(sent, <<t, calls[t]>>)
    /\ \E woken \in Signalled(not_empty) :
          /\ not_empty' = not_empty \ woken
          /\ Wake(t, "unlock", woken)
    /\ UNCHANGED <<want, cap, phase, head, closed, mtx, not_full, ctl, rcvd, disposed>>

\* recv: the channel is empty and open.
RecvBlock(t) ==
    /\ Holds(t, {"recv", "drain"}) /\ count = 0 /\ ~closed
    /\ mtx' = None /\ not_empty' = not_empty \cup {t}
    /\ Goto(t, "wait")
    /\ UNCHANGED <<want, cap, phase, ring, not_full, ctl, hist>>

\* None: recv on a drained closed channel, try_recv on an empty one.
RecvNone(t) ==
    /\ Holds(t, RecvOps) /\ count = 0
    /\ closed \/ op[t] = "try_recv"
    /\ Goto(t, "unlock")
    /\ UNCHANGED <<want, cap, phase, ring, sync, ctl, hist>>

RecvTake(t) ==
    /\ Holds(t, RecvOps) /\ count # 0
    /\ rcvd' = Append(rcvd, data[head])
    /\ data' = [data EXCEPT ![head] = None]
    /\ head' = Succ(head)
    /\ count' = count - 1
    /\ \E woken \in Signalled(not_full) :
          /\ not_full' = not_full \ woken
          /\ Wake(t, IF op[t] = "drain" THEN "again" ELSE "unlock", woken)
    /\ UNCHANGED <<want, cap, phase, tail, closed, mtx, not_empty, ctl, sent, disposed>>

Close_WakesReceivers(t) ==
    /\ Holds(t, {"close"})
    /\ closed' = TRUE
    /\ not_empty' = {}
    /\ Wake(t, "unlock", not_empty)
    /\ UNCHANGED <<want, cap, phase, data, head, tail, count, mtx, not_full, ctl, hist>>

\* close: set the flag, broadcast both condition variables.
Close(t) ==
    /\ Holds(t, {"close"})
    /\ closed' = TRUE
    /\ not_empty' = {} /\ not_full' = {}
    /\ Wake(t, "unlock", not_empty \cup not_full)
    /\ UNCHANGED <<want, cap, phase, data, head, tail, count, mtx, ctl, hist>>

-----------------------------------------------------------------------------
\* What the scheduler runs once thread t is inside a call.
Step(t) ==
    \/ Lock(t) \/ Unlock(t)
    \/ SendBlock(t) \/ SendRefused(t) \/ SendPut(t)
    \/ RecvBlock(t) \/ RecvNone(t) \/ RecvTake(t)
    \/ Close(t)

Next ==
    \/ RoundUp \/ Create \/ Destroy
    \/ \E t \in Threads : Call(t) \/ SpuriousWake(t) \/ Step(t)

Spec == Init /\ [][Next]_vars

\* A runnable thread is eventually scheduled and the lock is eventually taken
\* by whoever waits for it while it stays free.  Calls, close included, are
\* the caller's choice and carry no fairness.
FairSpec == Spec /\ \A t \in Threads : WF_vars(Step(t))

-----------------------------------------------------------------------------
(* Properties. *)

\* The buffered elements, oldest first.
Contents == [i \in 1 .. count |-> data[(head + i - 1) % cap]]

\* The channel implements the bounded FIFO queue: hidden behind the ring, the
\* cursors, the lock and the condition variables there is one queue that each
\* call touches once.
Abstract == INSTANCE BoundedFifo
    WITH q <- IF phase = "live" THEN Contents ELSE <<>>, out <- rcvd, dead <- phase = "dead"

Labels == {"idle", "lock", "body", "wait", "unlock", "again"}

\* Type invariant: cursors index the buffer once init has run, the wait sets
\* and the mutex name threads.
TypeOK ==
    /\ want \in Capacities /\ cap \in Nat \ {0}
    /\ phase \in {"init", "live", "dead"}
    /\ phase # "init" => data \in [0 .. cap - 1 -> Values \cup {None}]
    /\ head \in 0 .. cap - 1 /\ tail \in 0 .. cap - 1
    /\ count \in 0 .. cap
    /\ closed \in BOOLEAN
    /\ mtx \in Threads \cup {None}
    /\ not_full \in SUBSET Threads /\ not_empty \in SUBSET Threads
    /\ pc \in [Threads -> Labels]
    /\ op \in [Threads -> Ops]
    /\ calls \in [Threads -> 0 .. MaxCalls]
    /\ spurious \in 0 .. MaxSpurious
    /\ sent \in Seq(Values) /\ rcvd \in Seq(Values \cup {None})
    /\ disposed \in Seq(Values \cup {None})

\* The mutex protocol: the owner of the mutex is the one thread inside a body,
\* a wait set holds exactly the threads asleep in the matching wait loop, and
\* nobody is inside a call before init has run or after the destructor.
LockDiscipline ==
    /\ \A t \in Threads : pc[t] \in {"body", "unlock", "again"} <=> mtx = t
    /\ not_full = {t \in Threads : pc[t] = "wait" /\ op[t] = "send"}
    /\ not_empty = {t \in Threads : pc[t] = "wait" /\ op[t] \in {"recv", "drain"}}
    /\ \A t \in Threads : pc[t] # "idle" => phase = "live" /\ calls[t] > 0

\* Exactly-once FIFO delivery across every interleaving: what receivers took,
\* in order, followed by what the ring still holds is what was accepted, in
\* order.  Nothing is lost, duplicated, reordered or overwritten by send,
\* try_send, recv, try_recv or the iterator.
FifoExactlyOnce == phase # "init" => sent = rcvd \o Contents

\* The destructor drops exactly the elements nobody received, each once.
ResidualDisposed == phase = "dead" => sent = rcvd \o disposed

\* Threads that will test the wait condition of `ops' without being woken.
Active(ops) == {t \in Threads : op[t] \in ops /\ pc[t] \in {"lock", "body"}}

\* No lost wakeup.  One signal per element is enough: while receivers sleep,
\* every buffered element has a receiver that is awake and on its way to the
\* lock, and while senders sleep, so has every free slot a sender.
NoLostWakeup ==
    phase # "init" =>
        /\ not_empty # {} => count <= Cardinality(Active(RecvOps))
        /\ not_full # {} => cap - count <= Cardinality(Active(SendOps))

\* After close nobody sleeps: the broadcast reached every waiter and no later
\* call can start to wait.
ClosedNobodySleeps == closed => not_empty = {} /\ not_full = {}

\* Every step of the channel is a step of the bounded FIFO queue or hidden; in
\* particular a closed channel accepts nothing more and never reopens.
ImplementsFifo == Abstract!Spec

\* Every call on a closed channel returns: blocked senders and receivers wake,
\* an iterator drains what is left and ends.
CloseEndsCalls ==
    \A t \in Threads : (closed /\ pc[t] # "idle") ~> (pc[t] = "idle")

\* A receiver asleep over a buffered element is woken, a sender asleep over a
\* free slot too, unless another call consumes the element or slot first.
SleeperServed ==
    /\ (not_empty # {} /\ count > 0) ~> (not_empty = {} \/ count = 0)
    /\ (not_full # {} /\ count < cap) ~> (not_full = {} \/ count = cap)

\* The threads run the same code: TLC may exchange them.
LOCAL INSTANCE TLC
Symmetry == Permutations(Threads)
=============================================================================
