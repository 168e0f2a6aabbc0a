----------------------------- MODULE ChanProofs -----------------------------
(***************************************************************************)
(* Machine-checked proofs about std.sync.chan, for every set of threads,   *)
(* every capacity and every number of calls.  The argument is one chain:   *)
(* typing and the mutex protocol are inductive together (Control); on top  *)
(* of them the cursors describe the buffered window (Window), which gives  *)
(* exactly-once FIFO delivery; the mutex protocol and ClosedNobodySleeps   *)
(* give the counting argument that no wakeup is lost; and the FIFO facts   *)
(* make every step a step of BoundedFifo.                                  *)
(***************************************************************************)
EXTENDS Chan, FiniteSetTheorems, SequenceTheorems, TLAPS

-----------------------------------------------------------------------------
(* Arithmetic of the cursors. *)

\* Succ: the remainder after one step is a wrap at the capacity.
LEMMA ModSucc ==
    ASSUME NEW c \in Nat \ {0}, NEW i \in 0 .. c - 1
    PROVE  /\ (i + 1) % c = IF i + 1 = c THEN 0 ELSE i + 1
           /\ (i + 1) % c \in 0 .. c - 1
  BY SMT

\* The slot j places behind cursor i, for at most one turn of the ring.
LEMMA ModAdd ==
    ASSUME NEW c \in Nat \ {0}, NEW i \in 0 .. c - 1, NEW j \in 0 .. c
    PROVE  /\ (i + j) % c = IF i + j >= c THEN i + j - c ELSE i + j
           /\ (i + j) % c \in 0 .. c - 1
  BY SMT

-----------------------------------------------------------------------------
(* Typing and the mutex protocol. *)

Control == TypeOK /\ LockDiscipline

\* The initial state satisfies the control invariant.
LEMMA InitControl == Init => Control
<1> SUFFICES ASSUME Init PROVE Control
  OBVIOUS
<1>1. /\ cap \in Nat \ {0} /\ head \in 0 .. cap - 1 /\ tail \in 0 .. cap - 1
      /\ count \in 0 .. cap /\ spurious \in 0 .. MaxSpurious
  BY ChanAssumption DEF Init
<1>2. /\ pc \in [Threads -> Labels] /\ op \in [Threads -> Ops]
      /\ calls \in [Threads -> 0 .. MaxCalls]
  BY ChanAssumption DEF Init, Labels, Ops
<1>3. /\ phase \in {"init", "live", "dead"} /\ closed \in BOOLEAN
      /\ phase # "init" => data \in [0 .. cap - 1 -> Values \cup {None}]
  BY DEF Init
<1>4. /\ sent \in Seq(Values) /\ rcvd \in Seq(Values \cup {None})
      /\ disposed \in Seq(Values \cup {None})
  BY DEF Init
<1>5. /\ want \in Capacities /\ mtx \in Threads \cup {None}
      /\ not_full \in SUBSET Threads /\ not_empty \in SUBSET Threads
  BY DEF Init
<1>6. TypeOK
  BY <1>1, <1>2, <1>3, <1>4, <1>5 DEF TypeOK
<1>7. LockDiscipline
  BY ChanAssumption DEF Init, LockDiscipline
<1> QED
  BY <1>6, <1>7 DEF Control

\* init and the destructor.
LEMMA LifeControl == Control /\ (RoundUp \/ Create \/ Destroy) => Control'
<1> SUFFICES ASSUME Control, RoundUp \/ Create \/ Destroy PROVE Control'
  OBVIOUS
<1>1. CASE RoundUp
  BY <1>1 DEF Control, TypeOK, LockDiscipline, RoundUp, ring, sync, ctl, hist
<1>2. CASE Create
  BY <1>2 DEF Control, TypeOK, LockDiscipline, Create, sync, ctl, hist
<1>3. CASE Destroy
  <2>1. disposed' \in Seq(Values \cup {None})
    <3>1. \A i \in 1 .. count : data[(head + i - 1) % cap] \in Values \cup {None}
      <4> TAKE i \in 1 .. count
      <4>1. (head + (i - 1)) % cap \in 0 .. cap - 1
        BY ModAdd DEF Control, TypeOK
      <4> QED
        BY <1>3, <4>1 DEF Control, TypeOK, Destroy
    <3> QED
      BY <1>3, <3>1 DEF Control, TypeOK, Destroy, Residual
  <2> QED
    BY <1>3, <2>1 DEF Control, TypeOK, LockDiscipline, Destroy, ring, sync, ctl
<1> QED
  BY <1>1, <1>2, <1>3

\* Calls and the lock.
LEMMA LockControl ==
    ASSUME Control, NEW t \in Threads, Call(t) \/ Lock(t) \/ Unlock(t) \/ SpuriousWake(t)
    PROVE  Control'
<1>1. CASE Call(t)
  <2>1. op' \in [Threads -> Ops] /\ calls' \in [Threads -> 0 .. MaxCalls]
    BY <1>1, ChanAssumption DEF Control, TypeOK, Call
  <2>2. TypeOK'
    BY <1>1, <2>1 DEF Control, TypeOK, Call, Goto, ring, sync, hist, Labels
  <2>3. LockDiscipline'
    BY <1>1, ChanAssumption DEF Control, TypeOK, LockDiscipline, Call, Goto, sync
  <2> QED
    BY <2>2, <2>3 DEF Control
<1>2. CASE Lock(t)
  BY <1>2, ChanAssumption DEF Control, TypeOK, LockDiscipline, Lock, Goto, ring, ctl, hist, Labels
<1>3. CASE Unlock(t)
  BY <1>3, ChanAssumption DEF Control, TypeOK, LockDiscipline, Unlock, Goto, ring, ctl, hist, Labels
<1>4. CASE SpuriousWake(t)
  BY <1>4, ChanAssumption DEF Control, TypeOK, LockDiscipline, SpuriousWake, Goto, ring, hist, Labels
<1> QED
  BY <1>1, <1>2, <1>3, <1>4

\* What a signal on a wait set can do.
LEMMA SignalledSubset ==
    ASSUME NEW W, NEW woken \in Signalled(W)
    PROVE  /\ woken \subseteq W
           /\ W # {} => \E w \in W : woken = {w}
  BY DEF Signalled

\* The bodies that only move the control of their thread, or start to wait.
LEMMA QuietControl ==
    ASSUME Control, NEW t \in Threads,
           SendBlock(t) \/ SendRefused(t) \/ RecvBlock(t) \/ RecvNone(t)
    PROVE  Control'
<1>1. CASE SendBlock(t)
  BY <1>1, ChanAssumption
     DEF Control, TypeOK, LockDiscipline, SendBlock, Holds, Goto, ring, ctl, hist, Labels
<1>2. CASE SendRefused(t)
  BY <1>2, ChanAssumption
     DEF Control, TypeOK, LockDiscipline, SendRefused, Holds, Goto, ring, sync, ctl, hist, Labels
<1>3. CASE RecvBlock(t)
  BY <1>3, ChanAssumption
     DEF Control, TypeOK, LockDiscipline, RecvBlock, Holds, Goto, ring, ctl, hist, Labels
<1>4. CASE RecvNone(t)
  BY <1>4, ChanAssumption
     DEF Control, TypeOK, LockDiscipline, RecvNone, Holds, Goto, ring, sync, ctl, hist, Labels
<1> QED
  BY <1>1, <1>2, <1>3, <1>4

\* The bodies that change the ring and signal.
LEMMA PutControl ==
    ASSUME Control, NEW t \in Threads, SendPut(t)
    PROVE  Control'
<1>1. PICK woken \in Signalled(not_empty) :
          not_empty' = not_empty \ woken /\ Wake(t, "unlock", woken)
  BY DEF SendPut
<1>2. woken \subseteq not_empty
  BY SignalledSubset
<1>3. phase = "live" /\ <<t, calls[t]>> \in Values /\ mtx = t
  BY ChanAssumption DEF Control, TypeOK, LockDiscipline, SendPut, Holds, Values
<1>4. /\ data' \in [0 .. cap - 1 -> Values \cup {None}]
      /\ tail' \in 0 .. cap - 1 /\ count' \in 0 .. cap /\ sent' \in Seq(Values)
  <2>1. tail' \in 0 .. cap - 1
    BY ModSucc DEF SendPut, Succ, Control, TypeOK
  <2> QED
    BY <1>3, <2>1 DEF SendPut, CanPut, Full, Control, TypeOK
<1>5. pc' \in [Threads -> Labels]
  BY <1>1 DEF Wake, Control, TypeOK, Labels
<1>6. TypeOK'
  BY <1>1, <1>2, <1>4, <1>5 DEF SendPut, Control, TypeOK, ctl
<1>7. LockDiscipline'
  BY <1>1, <1>2, <1>3 DEF SendPut, Holds, Control, TypeOK, LockDiscipline, Wake, ctl, SendOps
<1> QED
  BY <1>6, <1>7 DEF Control

\* A receive that takes an element keeps it: head moves inside the buffer.
LEMMA TakeControl ==
    ASSUME Control, NEW t \in Threads, RecvTake(t)
    PROVE  Control'
<1> DEFINE next == IF op[t] = "drain" THEN "again" ELSE "unlock"
<1>1. PICK woken \in Signalled(not_full) :
          not_full' = not_full \ woken /\ Wake(t, next, woken)
  BY DEF RecvTake
<1>2. woken \subseteq not_full
  BY SignalledSubset
<1>3. phase = "live" /\ mtx = t
  BY DEF Control, TypeOK, LockDiscipline, RecvTake, Holds
<1>4. /\ data' \in [0 .. cap - 1 -> Values \cup {None}]
      /\ head' \in 0 .. cap - 1 /\ count' \in 0 .. cap
      /\ rcvd' \in Seq(Values \cup {None})
  <2>1. head' \in 0 .. cap - 1
    BY ModSucc DEF RecvTake, Succ, Control, TypeOK
  <2>2. data[head] \in Values \cup {None}
    BY <1>3 DEF Control, TypeOK
  <2> QED
    BY <1>3, <2>1, <2>2 DEF RecvTake, Control, TypeOK
<1>5. next \in {"again", "unlock"}
  OBVIOUS
<1> HIDE DEF next
<1>6. pc' \in [Threads -> Labels]
  BY <1>1, <1>5 DEF Wake, Control, TypeOK, Labels
<1>7. TypeOK'
  BY <1>1, <1>2, <1>4, <1>6 DEF RecvTake, Control, TypeOK, ctl
<1>8. LockDiscipline'
  BY <1>1, <1>2, <1>3, <1>5 DEF RecvTake, Holds, Control, TypeOK, LockDiscipline, Wake, ctl, RecvOps
<1> QED
  BY <1>7, <1>8 DEF Control

\* Closing wakes sleepers into the queue for the mutex, never into the section.
LEMMA CloseControl ==
    ASSUME Control, NEW t \in Threads, Close(t)
    PROVE  Control'
<1>1. phase = "live" /\ mtx = t
  BY DEF Control, TypeOK, LockDiscipline, Close, Holds
<1>2. TypeOK'
  BY <1>1 DEF Close, Wake, Control, TypeOK, ctl, hist, Labels
<1>3. LockDiscipline'
  BY <1>1 DEF Close, Wake, Holds, Control, TypeOK, LockDiscipline, ctl
<1> QED
  BY <1>2, <1>3 DEF Control

\* Every step keeps types and lock discipline.
LEMMA NextControl == Control /\ [Next]_vars => Control'
<1> SUFFICES ASSUME Control, [Next]_vars PROVE Control'
  OBVIOUS
<1>1. CASE RoundUp \/ Create \/ Destroy
  BY <1>1, LifeControl
<1>2. ASSUME NEW t \in Threads, Call(t) \/ SpuriousWake(t) \/ Step(t)
      PROVE  Control'
  BY <1>2, LockControl, QuietControl, PutControl, TakeControl, CloseControl DEF Step
<1>3. CASE UNCHANGED vars
  BY <1>3 DEF vars, ring, sync, ctl, hist, Control, TypeOK, LockDiscipline
<1> QED
  BY <1>1, <1>2, <1>3 DEF Next

\* Type correctness: cursors stay inside the buffer and every variable keeps
\* its type, whatever the capacity asked of init and however many threads call.
THEOREM TypeCorrect == Spec => []TypeOK
<1>1. Control => TypeOK
  BY DEF Control
<1> QED
  BY InitControl, NextControl, <1>1, PTL DEF Spec

\* The mutex protocol of chan.lls: at most one thread is inside a body, and a
\* thread is in a wait set exactly while it sleeps in the matching wait loop.
THEOREM MutexProtocol == Spec => []LockDiscipline
<1>1. Control => LockDiscipline
  BY DEF Control
<1> QED
  BY InitControl, NextControl, <1>1, PTL DEF Spec

-----------------------------------------------------------------------------
(* Closing and sleeping. *)

\* close wakes every sleeper, and nobody goes to sleep on a closed channel.
LEMMA NextClosed == Control /\ ClosedNobodySleeps /\ [Next]_vars => ClosedNobodySleeps'
<1> SUFFICES ASSUME Control, ClosedNobodySleeps, [Next]_vars PROVE ClosedNobodySleeps'
  OBVIOUS
<1> USE DEF ClosedNobodySleeps
<1>1. CASE RoundUp \/ Create \/ Destroy
  BY <1>1 DEF RoundUp, Create, Destroy, ring, sync
<1>2. ASSUME NEW t \in Threads, Call(t) \/ SpuriousWake(t) \/ Step(t)
      PROVE  ClosedNobodySleeps'
  <2>1. CASE Call(t) \/ SpuriousWake(t) \/ Lock(t) \/ Unlock(t)
    BY <2>1 DEF Call, SpuriousWake, Lock, Unlock, ring, sync
  <2>2. CASE SendBlock(t) \/ SendRefused(t) \/ RecvBlock(t) \/ RecvNone(t)
    BY <2>2 DEF SendBlock, SendRefused, RecvBlock, RecvNone, ring, sync
  <2>3. CASE SendPut(t)
    BY <2>3 DEF SendPut
  <2>4. CASE RecvTake(t)
    BY <2>4 DEF RecvTake
  <2>5. CASE Close(t)
    BY <2>5 DEF Close
  <2> QED
    BY <1>2, <2>1, <2>2, <2>3, <2>4, <2>5 DEF Step
<1>3. CASE UNCHANGED vars
  BY <1>3 DEF vars, ring, sync
<1> QED
  BY <1>1, <1>2, <1>3 DEF Next

\* close() reaches every sleeper and no later call falls asleep.
THEOREM CloseWakesAll == Spec => []ClosedNobodySleeps
<1>1. Init => ClosedNobodySleeps
  BY DEF Init, ClosedNobodySleeps
<1> QED
  BY <1>1, InitControl, NextControl, NextClosed, PTL DEF Spec

-----------------------------------------------------------------------------
(* No lost wakeup.  The threads awake on one side of the channel are counted *)
(* against the elements (or free slots) they were woken for.                 *)

\* NoLostWakeup without its guard: nobody sleeps before init is done.
RecvCovered == not_empty # {} => count <= Cardinality(Active(RecvOps))
SendCovered == not_full # {} => cap - count <= Cardinality(Active(SendOps))

\* The sets of threads the counting argument compares are finite.
LEMMA ActiveFinite ==
    ASSUME NEW ops
    PROVE  /\ IsFiniteSet(Active(ops)) /\ Cardinality(Active(ops)) \in Nat
           /\ IsFiniteSet(Active(ops)') /\ Cardinality(Active(ops)') \in Nat
<1>1. Active(ops) \in SUBSET Threads /\ Active(ops)' \in SUBSET Threads
  BY DEF Active
<1> QED
  BY <1>1, ChanAssumption, FS_Subset, FS_CardinalityType

\* More threads awake: the count on that side does not fall.
LEMMA ActiveGrows ==
    ASSUME NEW ops, Active(ops) \subseteq Active(ops)'
    PROVE  Cardinality(Active(ops)) <= Cardinality(Active(ops)')
  BY ActiveFinite, FS_Subset

\* Exactly thread u woke.
LEMMA ActiveGains ==
    ASSUME NEW ops, NEW u, u \notin Active(ops), Active(ops)' = Active(ops) \cup {u}
    PROVE  Cardinality(Active(ops)') = Cardinality(Active(ops)) + 1
  BY ActiveFinite, FS_AddElement

\* Exactly thread u went on.
LEMMA ActiveLoses ==
    ASSUME NEW ops, NEW u, u \in Active(ops), Active(ops)' = Active(ops) \ {u}
    PROVE  Cardinality(Active(ops)') = Cardinality(Active(ops)) - 1
  BY ActiveFinite, FS_RemoveElement

\* Steps that leave the ring alone and wake or admit threads.
LEMMA CoveredKept ==
    ASSUME RecvCovered, SendCovered, TypeOK,
           count' = count, cap' = cap,
           not_empty' \subseteq not_empty, not_full' \subseteq not_full,
           Active(RecvOps) \subseteq Active(RecvOps)',
           Active(SendOps) \subseteq Active(SendOps)'
    PROVE  RecvCovered' /\ SendCovered'
<1>1. Cardinality(Active(RecvOps)) <= Cardinality(Active(RecvOps)')
  BY ActiveGrows
<1>2. Cardinality(Active(SendOps)) <= Cardinality(Active(SendOps)')
  BY ActiveGrows
<1>3. /\ Cardinality(Active(RecvOps)) \in Nat /\ Cardinality(Active(RecvOps)') \in Nat
      /\ Cardinality(Active(SendOps)) \in Nat /\ Cardinality(Active(SendOps)') \in Nat
  BY ActiveFinite
<1> QED
  BY <1>1, <1>2, <1>3 DEF RecvCovered, SendCovered, TypeOK

\* Taking the mutex moves a thread between two counted places.
LEMMA LockCovered ==
    ASSUME Control, RecvCovered, SendCovered, NEW t \in Threads,
           Call(t) \/ Lock(t) \/ Unlock(t) \/ SpuriousWake(t)
    PROVE  RecvCovered' /\ SendCovered'
<1>1. count' = count /\ cap' = cap
  BY DEF Call, Lock, Unlock, SpuriousWake, ring
<1>2. not_empty' \subseteq not_empty /\ not_full' \subseteq not_full
  BY DEF Call, Lock, Unlock, SpuriousWake, sync
<1>3. ASSUME NEW ops PROVE Active(ops) \subseteq Active(ops)'
  BY DEF Control, TypeOK, Active, Call, Lock, Unlock, SpuriousWake, Goto, ctl
<1> QED
  BY <1>1, <1>2, <1>3, CoveredKept DEF Control

\* A body that blocks or gives up found no element (no free slot) to take, or
\* a closed channel on which nobody sleeps.
LEMMA QuietCovered ==
    ASSUME Control, ClosedNobodySleeps, RecvCovered, SendCovered, NEW t \in Threads,
           SendBlock(t) \/ SendRefused(t) \/ RecvBlock(t) \/ RecvNone(t)
    PROVE  RecvCovered' /\ SendCovered'
<1>1. /\ count' = count /\ cap' = cap /\ closed' = closed
      /\ count \in Nat /\ cap \in Nat
  BY DEF SendBlock, SendRefused, RecvBlock, RecvNone, ring, Control, TypeOK
<1>2. /\ Cardinality(Active(RecvOps)) \in Nat /\ Cardinality(Active(RecvOps)') \in Nat
      /\ Cardinality(Active(SendOps)) \in Nat /\ Cardinality(Active(SendOps)') \in Nat
  BY ActiveFinite
<1>3. CASE SendBlock(t) \/ SendRefused(t)
  <2>1. Active(RecvOps)' = Active(RecvOps)
    BY <1>3 DEF Control, TypeOK, Active, SendBlock, SendRefused, Holds, Goto, ctl,
                SendOps, RecvOps
  <2>2. RecvCovered'
    BY <1>1, <1>3, <2>1 DEF RecvCovered, SendBlock, SendRefused, sync
  <2>3. SendCovered'
    BY <1>1, <1>2, <1>3 DEF SendCovered, ClosedNobodySleeps, SendBlock, SendRefused,
                            Full, sync
  <2> QED
    BY <2>2, <2>3
<1>4. CASE RecvBlock(t) \/ RecvNone(t)
  <2>1. Active(SendOps)' = Active(SendOps)
    BY <1>4 DEF Control, TypeOK, Active, RecvBlock, RecvNone, Holds, Goto, ctl,
                SendOps, RecvOps
  <2>2. SendCovered'
    BY <1>1, <1>4, <2>1 DEF SendCovered, RecvBlock, RecvNone, sync
  <2>3. RecvCovered'
    BY <1>1, <1>2, <1>4 DEF RecvCovered, RecvBlock, RecvNone
  <2> QED
    BY <2>2, <2>3
<1> QED
  BY <1>3, <1>4

\* A stored element wakes one receiver; the sender leaves its own side.
LEMMA PutCovered ==
    ASSUME Control, RecvCovered, SendCovered, NEW t \in Threads, SendPut(t)
    PROVE  RecvCovered' /\ SendCovered'
<1>1. PICK woken \in Signalled(not_empty) :
          not_empty' = not_empty \ woken /\ Wake(t, "unlock", woken)
  BY DEF SendPut
<1>2. woken \subseteq not_empty /\ (not_empty # {} => \E w \in not_empty : woken = {w})
  BY SignalledSubset
<1>3. /\ count' = count + 1 /\ cap' = cap /\ count \in Nat /\ cap \in Nat
      /\ not_full' = not_full /\ op' = op
  BY DEF SendPut, Control, TypeOK, ctl
<1>4. /\ Cardinality(Active(RecvOps)) \in Nat /\ Cardinality(Active(RecvOps)') \in Nat
      /\ Cardinality(Active(SendOps)) \in Nat /\ Cardinality(Active(SendOps)') \in Nat
  BY ActiveFinite
<1>5. SendCovered'
  <2>1. t \in Active(SendOps) /\ Active(SendOps)' = Active(SendOps) \ {t}
    BY <1>1, <1>2, <1>3 DEF Active, SendPut, Holds, Wake, Control, LockDiscipline,
                            SendOps, RecvOps
  <2>2. Cardinality(Active(SendOps)') = Cardinality(Active(SendOps)) - 1
    BY <2>1, ActiveLoses
  <2> QED
    BY <1>3, <1>4, <2>2 DEF SendCovered
<1>6. RecvCovered'
  <2> SUFFICES ASSUME not_empty' # {} PROVE count' <= Cardinality(Active(RecvOps)')
    BY DEF RecvCovered
  <2>1. PICK w \in not_empty : woken = {w}
    BY <1>1, <1>2
  <2>2. w \notin Active(RecvOps) /\ Active(RecvOps)' = Active(RecvOps) \cup {w}
    BY <1>1, <1>3, <2>1 DEF Active, SendPut, Holds, Wake, Control, LockDiscipline,
                            SendOps, RecvOps
  <2>3. Cardinality(Active(RecvOps)') = Cardinality(Active(RecvOps)) + 1
    BY <2>2, ActiveGains
  <2> QED
    BY <1>3, <1>4, <2>1, <2>3 DEF RecvCovered
<1> QED
  BY <1>5, <1>6

\* A taken element wakes one sender; the receiver leaves its own side.
LEMMA TakeCovered ==
    ASSUME Control, RecvCovered, SendCovered, NEW t \in Threads, RecvTake(t)
    PROVE  RecvCovered' /\ SendCovered'
<1> DEFINE next == IF op[t] = "drain" THEN "again" ELSE "unlock"
<1>1. PICK woken \in Signalled(not_full) :
          not_full' = not_full \ woken /\ Wake(t, next, woken)
  BY DEF RecvTake
<1>2. woken \subseteq not_full /\ (not_full # {} => \E w \in not_full : woken = {w})
  BY SignalledSubset
<1>3. /\ count' = count - 1 /\ cap' = cap /\ count \in Nat /\ cap \in Nat
      /\ not_empty' = not_empty /\ op' = op
  BY DEF RecvTake, Control, TypeOK, ctl
<1>4. /\ Cardinality(Active(RecvOps)) \in Nat /\ Cardinality(Active(RecvOps)') \in Nat
      /\ Cardinality(Active(SendOps)) \in Nat /\ Cardinality(Active(SendOps)') \in Nat
  BY ActiveFinite
<1>5. next \in {"again", "unlock"}
  OBVIOUS
<1> HIDE DEF next
<1>6. RecvCovered'
  <2>1. t \in Active(RecvOps) /\ Active(RecvOps)' = Active(RecvOps) \ {t}
    BY <1>1, <1>2, <1>3, <1>5 DEF Active, RecvTake, Holds, Wake, Control, LockDiscipline,
                                  SendOps, RecvOps
  <2>2. Cardinality(Active(RecvOps)') = Cardinality(Active(RecvOps)) - 1
    BY <2>1, ActiveLoses
  <2> QED
    BY <1>3, <1>4, <2>2 DEF RecvCovered
<1>7. SendCovered'
  <2> SUFFICES ASSUME not_full' # {} PROVE cap' - count' <= Cardinality(Active(SendOps)')
    BY DEF SendCovered
  <2>1. PICK w \in not_full : woken = {w}
    BY <1>1, <1>2
  <2>2. w \notin Active(SendOps) /\ Active(SendOps)' = Active(SendOps) \cup {w}
    BY <1>1, <1>3, <1>5, <2>1 DEF Active, RecvTake, Holds, Wake, Control, LockDiscipline,
                                  SendOps, RecvOps
  <2>3. Cardinality(Active(SendOps)') = Cardinality(Active(SendOps)) + 1
    BY <2>2, ActiveGains
  <2> QED
    BY <1>3, <1>4, <2>1, <2>3 DEF SendCovered
<1> QED
  BY <1>6, <1>7

\* Every step keeps every sleeper covered by a wakeup on its way.
LEMMA NextCovered ==
    Control /\ ClosedNobodySleeps /\ RecvCovered /\ SendCovered /\ [Next]_vars
        => RecvCovered' /\ SendCovered'
<1> SUFFICES ASSUME Control, ClosedNobodySleeps, RecvCovered, SendCovered, [Next]_vars
             PROVE  RecvCovered' /\ SendCovered'
  OBVIOUS
<1>1. CASE RoundUp \/ Create \/ Destroy
  <2>1. CASE RoundUp
    <3>1. not_empty = {} /\ not_full = {}
      BY <2>1 DEF RoundUp, Control, LockDiscipline
    <3> QED
      BY <2>1, <3>1 DEF RoundUp, sync, RecvCovered, SendCovered
  <2>2. CASE Create \/ Destroy
    <3>1. \A ops : Active(ops)' = Active(ops)
      BY <2>2 DEF Create, Destroy, ctl, Active
    <3> QED
      BY <2>2, <3>1 DEF Create, Destroy, sync, ring, RecvCovered, SendCovered
  <2> QED
    BY <1>1, <2>1, <2>2
<1>2. ASSUME NEW t \in Threads, Call(t) \/ SpuriousWake(t) \/ Step(t)
      PROVE  RecvCovered' /\ SendCovered'
  <2>1. CASE Close(t)
    BY <2>1 DEF Close, RecvCovered, SendCovered
  <2> QED
    BY <1>2, <2>1, LockCovered, QuietCovered, PutCovered, TakeCovered DEF Step
<1>3. CASE UNCHANGED vars
  BY <1>3 DEF vars, ring, sync, ctl, RecvCovered, SendCovered, Active
<1> QED
  BY <1>1, <1>2, <1>3 DEF Next

\* No lost wakeup, for any number of senders and receivers: one cond_signal
\* per element and per freed slot never leaves a sleeper behind work that
\* nobody awake is on its way to.
THEOREM WakeupsSuffice == Spec => []NoLostWakeup
<1>1. Init => ClosedNobodySleeps /\ RecvCovered /\ SendCovered
  BY DEF Init, ClosedNobodySleeps, RecvCovered, SendCovered
<1>2. RecvCovered /\ SendCovered => NoLostWakeup
  BY DEF RecvCovered, SendCovered, NoLostWakeup
<1> QED
  BY <1>1, <1>2, InitControl, NextControl, NextClosed, NextCovered, PTL DEF Spec

\* What is left when every thread has returned or sleeps: a receiver sleeps
\* over an empty open channel only, a sender over a full open one only, and so
\* never both sides at once.
StuckOnlyForCause ==
    (\A t \in Threads : pc[t] \in {"idle", "wait"}) =>
        /\ not_empty # {} => count = 0 /\ ~closed
        /\ not_full # {} => count = cap /\ ~closed
        /\ not_empty = {} \/ not_full = {}

\* The two sides never wait for each other: with nobody on its way to the
\* lock, NoLostWakeup leaves no element to a sleeping receiver and no free
\* slot to a sleeping sender.
THEOREM NoMutualSleep == Spec => []StuckOnlyForCause
<1>1. Control /\ ClosedNobodySleeps /\ NoLostWakeup => StuckOnlyForCause
  <2> SUFFICES ASSUME Control, ClosedNobodySleeps, NoLostWakeup,
                      \A t \in Threads : pc[t] \in {"idle", "wait"},
                      not_empty # {} \/ not_full # {}
               PROVE  /\ not_empty # {} => count = 0 /\ ~closed
                      /\ not_full # {} => count = cap /\ ~closed
                      /\ not_empty = {} \/ not_full = {}
    BY DEF StuckOnlyForCause
  <2>1. cap \in Nat \ {0} /\ count \in 0 .. cap /\ phase # "init" /\ ~closed
    <3>1. TypeOK /\ LockDiscipline
      BY DEF Control
    <3>2. \E t \in Threads : pc[t] # "idle"
      BY <3>1 DEF LockDiscipline
    <3>3. phase # "init"
      BY <3>1, <3>2 DEF LockDiscipline
    <3> QED
      BY <3>1, <3>3 DEF TypeOK, ClosedNobodySleeps
  <2>2. Cardinality(Active(RecvOps)) = 0 /\ Cardinality(Active(SendOps)) = 0
    <3>1. Active(RecvOps) = {} /\ Active(SendOps) = {}
      BY DEF Active
    <3> QED
      BY <3>1, FS_EmptySet
  <2>3. /\ not_empty # {} => count = 0
        /\ not_full # {} => count = cap
    BY <2>1, <2>2 DEF NoLostWakeup
  <2> QED
    BY <2>1, <2>3
<1>2. TypeOK /\ LockDiscipline => Control
  BY DEF Control
<1> QED
  BY <1>1, <1>2, TypeCorrect, MutexProtocol, CloseWakesAll, WakeupsSuffice, PTL

-----------------------------------------------------------------------------
(* What the ring of the channel holds: the window of `count' slots from       *)
(* `head' is the queue.  From it follow exactly-once FIFO delivery, the        *)
(* destructor's exactness and the refinement of BoundedFifo.                   *)

\* The cursors delimit the window, and the window is what was sent and not yet
\* received.
Window ==
    /\ phase = "init" => /\ head = 0 /\ tail = 0 /\ count = 0 /\ ~closed
                         /\ sent = <<>> /\ rcvd = <<>>
    /\ phase # "init" => tail = (head + count) % cap
    /\ FifoExactlyOnce
    /\ ResidualDisposed

Slots == Values \cup {None}

-----------------------------------------------------------------------------
(* The window as a sequence. *)

\* The window is a sequence of as many slots as count says.
LEMMA ContentsSeq ==
    ASSUME Control, phase # "init"
    PROVE  Contents \in Seq(Slots) /\ Len(Contents) = count /\ DOMAIN Contents = 1 .. count
<1>1. \A i \in 1 .. count : data[(head + i - 1) % cap] \in Slots
  <2> TAKE i \in 1 .. count
  <2>1. (head + (i - 1)) % cap \in 0 .. cap - 1
    BY ModAdd DEF Control, TypeOK
  <2> QED
    BY <2>1 DEF Control, TypeOK, Slots
<1> QED
  BY <1>1 DEF Contents, Control, TypeOK

\* Storing at tail appends to the window: the other slots of the window are
\* different slots because the ring is not full.
LEMMA PutAppends ==
    ASSUME Control, Window, NEW t \in Threads, SendPut(t)
    PROVE  Contents' = Append(Contents, <<t, calls[t]>>)
<1> DEFINE v == <<t, calls[t]>>
<1>1. phase # "init"
  BY DEF SendPut, Holds, Control, LockDiscipline
<1>2. /\ count' = count + 1 /\ count \in 0 .. cap - 1 /\ cap' = cap /\ cap \in Nat \ {0}
      /\ head' = head /\ head \in 0 .. cap - 1
  BY DEF SendPut, CanPut, Full, Control, TypeOK
<1>3. tail = (head + count) % cap /\ tail \in 0 .. cap - 1
  BY <1>1 DEF Window, Control, TypeOK
<1>4. data' = [data EXCEPT ![tail] = v] /\ DOMAIN data = 0 .. cap - 1
  BY <1>1 DEF SendPut, Control, TypeOK
<1>5. ASSUME NEW i \in 1 .. count
      PROVE  data'[(head + i - 1) % cap] = data[(head + i - 1) % cap]
  <2>0. i - 1 \in 0 .. cap /\ count \in 0 .. cap
    BY <1>2
  <2>1. /\ (head + (i - 1)) % cap = IF head + (i - 1) >= cap THEN head + (i - 1) - cap
                                                             ELSE head + (i - 1)
        /\ (head + (i - 1)) % cap \in 0 .. cap - 1
    BY <1>2, <2>0, ModAdd
  <2>2. tail = IF head + count >= cap THEN head + count - cap ELSE head + count
    BY <1>2, <1>3, <2>0, ModAdd
  <2>3. (head + (i - 1)) % cap # tail
    BY <1>2, <2>1, <2>2
  <2>4. head + i - 1 = head + (i - 1)
    BY <1>2
  <2> QED
    BY <1>4, <2>1, <2>3, <2>4
<1>6. data'[(head + (count + 1) - 1) % cap] = v
  <2>1. head + (count + 1) - 1 = head + count
    BY <1>2
  <2> QED
    BY <1>3, <1>4, <2>1
<1>7. Contents' = [i \in 1 .. count + 1 |-> data'[(head + i - 1) % cap]]
  BY <1>2 DEF Contents
<1>8. Contents \in Seq(Slots) /\ Len(Contents) = count
  BY <1>1, ContentsSeq
<1>9. Append(Contents, v) = [i \in 1 .. count + 1 |-> IF i <= count THEN Contents[i] ELSE v]
  BY <1>2, <1>8, AppendProperties
<1>10. \A i \in 1 .. count : Contents[i] = data[(head + i - 1) % cap]
  BY DEF Contents
<1> HIDE DEF v
<1>11. \A i \in 1 .. count + 1 :
          data'[(head + i - 1) % cap] = IF i <= count THEN Contents[i] ELSE v
  <2> TAKE i \in 1 .. count + 1
  <2>1. CASE i <= count
    BY <1>2, <1>5, <1>10, <2>1
  <2>2. CASE i = count + 1
    BY <1>2, <1>6, <2>2
  <2> QED
    BY <1>2, <2>1, <2>2
<1> QED
  BY <1>7, <1>9, <1>11 DEF v

\* Taking at head removes the oldest element of the window.
LEMMA TakeRemoves ==
    ASSUME Control, Window, NEW t \in Threads, RecvTake(t)
    PROVE  /\ Contents # <<>> /\ data[head] = Head(Contents)
           /\ Contents' = Tail(Contents)
<1>1. phase # "init"
  BY DEF RecvTake, Holds, Control, LockDiscipline
<1>2. /\ count' = count - 1 /\ count \in 1 .. cap /\ cap' = cap /\ cap \in Nat \ {0}
      /\ head \in 0 .. cap - 1 /\ head' = (head + 1) % cap
  BY DEF RecvTake, Succ, Control, TypeOK
<1>3. data' = [data EXCEPT ![head] = None] /\ DOMAIN data = 0 .. cap - 1
  BY <1>1 DEF RecvTake, Control, TypeOK
<1>4. Contents \in Seq(Slots) /\ Len(Contents) = count
  BY <1>1, ContentsSeq
<1>5. head % cap = head
  BY <1>2
<1>6. Contents[1] = data[head]
  BY <1>2, <1>5 DEF Contents
<1>7. Contents # <<>> /\ data[head] = Head(Contents)
  BY <1>2, <1>4, <1>6
<1>8. ASSUME NEW i \in 1 .. count - 1
      PROVE  data'[(head' + i - 1) % cap] = Contents[i + 1]
  <2>0. i \in 0 .. cap
    BY <1>2
  <2>1. head' = IF head + 1 = cap THEN 0 ELSE head + 1
    BY <1>2, ModSucc
  <2>2. (head + i) % cap = IF head + i >= cap THEN head + i - cap ELSE head + i
    BY <1>2, <2>0, ModAdd
  <2>3. head' \in 0 .. cap - 1 /\ i - 1 \in 0 .. cap
    BY <1>2, <2>1
  <2>4. (head' + (i - 1)) % cap = IF head' + (i - 1) >= cap THEN head' + (i - 1) - cap
                                                            ELSE head' + (i - 1)
    BY <1>2, <2>3, ModAdd
  <2>5. (head' + (i - 1)) % cap = (head + i) % cap /\ (head + i) % cap # head
        /\ (head + i) % cap \in 0 .. cap - 1
    BY <1>2, <2>1, <2>2, <2>4
  <2>6. head' + i - 1 = head' + (i - 1) /\ head + (i + 1) - 1 = head + i
    BY <1>2, <2>3
  <2>7. Contents[i + 1] = data[(head + i) % cap]
    BY <1>2, <2>6 DEF Contents
  <2> QED
    BY <1>3, <2>5, <2>6, <2>7
<1>9. Contents' = [i \in 1 .. count - 1 |-> data'[(head' + i - 1) % cap]]
  BY <1>2 DEF Contents
<1>10. /\ Tail(Contents) \in Seq(Slots) /\ Len(Tail(Contents)) = count - 1
       /\ \A i \in 1 .. count - 1 : Tail(Contents)[i] = Contents[i + 1]
  BY <1>4, <1>7, HeadTailProperties
<1>11. \A i \in 1 .. count - 1 : data'[(head' + i - 1) % cap] = Tail(Contents)[i]
  BY <1>8, <1>10
<1>12. \A i \in 1 .. count - 1 : Tail(Contents)[i] \in Slots
  BY <1>10, ElementOfSeq
<1>13. count - 1 \in Nat
  BY <1>2
<1>14. Contents' \in Seq(Slots) /\ Len(Contents') = count - 1
  <2>1. \A i \in 1 .. count - 1 : data'[(head' + i - 1) % cap] \in Slots
    BY <1>11, <1>12
  <2>2. [i \in 1 .. count - 1 |-> data'[(head' + i - 1) % cap]] \in Seq(Slots)
    BY <1>13, <2>1, IsASeq
  <2>3. DOMAIN Contents' = 1 .. count - 1
    BY <1>9
  <2> QED
    BY <1>9, <1>13, <2>2, <2>3, LenProperties
<1>15. Contents' = Tail(Contents)
  BY <1>9, <1>10, <1>11, <1>14, SeqEqual
<1> QED
  BY <1>7, <1>15

-----------------------------------------------------------------------------
(* Sequences: received, then buffered. *)

\* Taking the head of one sequence to the end of another moves the boundary only.
LEMMA HeadOver ==
    ASSUME NEW S, NEW a \in Seq(S), NEW b \in Seq(S), b # <<>>
    PROVE  Append(a, Head(b)) \o Tail(b) = a \o b
<1>1. Head(b) \in S /\ Tail(b) \in Seq(S) /\ <<Head(b)>> \in Seq(S)
  BY HeadTailProperties
<1>2. Append(a, Head(b)) = a \o <<Head(b)>>
  BY <1>1, AppendIsConcat
<1>3. <<Head(b)>> \o Tail(b) = b
  <2>1. /\ <<Head(b)>> \o Tail(b) \in Seq(S)
        /\ Len(<<Head(b)>> \o Tail(b)) = 1 + Len(Tail(b))
        /\ \A i \in 1 .. 1 + Len(Tail(b)) :
              (<<Head(b)>> \o Tail(b))[i] = IF i <= 1 THEN <<Head(b)>>[i] ELSE Tail(b)[i - 1]
    BY <1>1, ConcatProperties
  <2>2. Len(Tail(b)) = Len(b) - 1 /\ \A i \in 1 .. Len(Tail(b)) : Tail(b)[i] = b[i + 1]
    BY HeadTailProperties
  <2>3. Len(b) \in Nat /\ Len(b) >= 1
    BY EmptySeq, LenProperties
  <2>4. \A i \in 1 .. Len(b) : (<<Head(b)>> \o Tail(b))[i] = b[i]
    <3> TAKE i \in 1 .. Len(b)
    <3>1. CASE i = 1
      BY <2>1, <2>2, <2>3, <3>1
    <3>2. CASE i > 1
      <4>1. i - 1 \in 1 .. Len(Tail(b)) /\ (i - 1) + 1 = i
        BY <2>2, <2>3, <3>2
      <4> QED
        BY <2>1, <2>2, <2>3, <3>2, <4>1
    <3> QED
      BY <3>1, <3>2
  <2> QED
    BY <2>1, <2>2, <2>3, <2>4, SeqEqual
<1> QED
  BY <1>1, <1>2, <1>3, ConcatAssociative

-----------------------------------------------------------------------------
(* The window is kept. *)

\* Steps that touch neither the ring nor the histories.
LEMMA WindowFrame ==
    ASSUME Window, UNCHANGED <<cap, phase, data, head, tail, count>>,
           UNCHANGED <<sent, rcvd, disposed>>, phase = "init" => closed' = closed
    PROVE  Window'
<1>1. Contents' = Contents
  BY DEF Contents
<1>2. FifoExactlyOnce' /\ ResidualDisposed'
  BY <1>1 DEF Window, FifoExactlyOnce, ResidualDisposed
<1>3. phase' = "init" => ~closed'
  BY DEF Window
<1> QED
  BY <1>2, <1>3 DEF Window

\* Creating and destroying a channel keep the window: a new one is empty, a
\* destroyed one has handed its residual elements over.
LEMMA LifeWindow ==
    ASSUME Control, Window, RoundUp \/ Create \/ Destroy
    PROVE  Window'
<1>1. CASE RoundUp
  BY <1>1 DEF RoundUp, Window, FifoExactlyOnce, ResidualDisposed, ring, hist
<1>2. CASE Create
  <2>1. /\ count' = 0 /\ head' = 0 /\ tail' = 0 /\ cap' = cap /\ cap \in Nat \ {0}
        /\ sent' = <<>> /\ rcvd' = <<>> /\ phase' = "live"
    BY <1>2 DEF Create, Window, hist, Control, TypeOK
  <2>2. Contents' = <<>>
    BY <2>1 DEF Contents
  <2>3. <<>> \o <<>> = <<>>
    OBVIOUS
  <2> QED
    BY <2>1, <2>2, <2>3 DEF Window, FifoExactlyOnce, ResidualDisposed
<1>3. CASE Destroy
  BY <1>3 DEF Destroy, Window, FifoExactlyOnce, ResidualDisposed, Contents, Residual, ring
<1> QED
  BY <1>1, <1>2, <1>3

\* An insertion extends the window at its tail and leaves the other slots alone.
LEMMA PutWindow ==
    ASSUME Control, Window, NEW t \in Threads, SendPut(t)
    PROVE  Window'
<1>1. phase = "live" /\ phase' = "live" /\ <<t, calls[t]>> \in Slots
  BY ChanAssumption DEF SendPut, Holds, Control, LockDiscipline, TypeOK, Values, Slots
<1>2. tail' = (head' + count') % cap'
  <2>1. /\ count' = count + 1 /\ cap' = cap /\ head' = head /\ tail' = (tail + 1) % cap
        /\ cap \in Nat \ {0} /\ count \in 0 .. cap /\ count + 1 \in 0 .. cap
        /\ head \in 0 .. cap - 1 /\ tail \in 0 .. cap - 1
    BY DEF SendPut, CanPut, Full, Succ, Control, TypeOK
  <2>0. tail = (head + count) % cap
    BY <1>1 DEF Window
  <2>2. tail = IF head + count >= cap THEN head + count - cap ELSE head + count
    BY <2>0, <2>1, ModAdd
  <2>3. (tail + 1) % cap = IF tail + 1 = cap THEN 0 ELSE tail + 1
    BY <2>1, ModSucc
  <2>4. (head + (count + 1)) % cap = IF head + (count + 1) >= cap THEN head + (count + 1) - cap
                                                                  ELSE head + (count + 1)
    BY <2>1, ModAdd
  <2> QED
    BY <2>1, <2>2, <2>3, <2>4
<1>3. sent' = rcvd' \o Contents'
  <2>1. PICK v \in Slots : v = <<t, calls[t]>>
    BY <1>1
  <2>2. /\ sent' = Append(sent, v) /\ rcvd' = rcvd
        /\ Contents' = Append(Contents, v)
    BY <2>1, PutAppends DEF SendPut
  <2>3. rcvd \in Seq(Slots) /\ Contents \in Seq(Slots) /\ sent = rcvd \o Contents
    BY <1>1, ContentsSeq DEF Control, TypeOK, Slots, Window, FifoExactlyOnce
  <2>4. Append(rcvd \o Contents, v) = rcvd \o Append(Contents, v)
    BY <2>3
  <2> QED
    BY <2>2, <2>3, <2>4
<1> QED
  BY <1>1, <1>2, <1>3 DEF Window, FifoExactlyOnce, ResidualDisposed

\* A removal shrinks the window at its head and delivers the oldest element.
LEMMA TakeWindow ==
    ASSUME Control, Window, NEW t \in Threads, RecvTake(t)
    PROVE  Window'
<1>1. phase = "live" /\ phase' = "live"
  BY DEF RecvTake, Holds, Control, LockDiscipline
<1>2. tail' = (head' + count') % cap'
  <2>1. /\ count' = count - 1 /\ cap' = cap /\ tail' = tail /\ head' = (head + 1) % cap
        /\ tail = (head + count) % cap
        /\ cap \in Nat \ {0} /\ count \in 1 .. cap /\ count \in 0 .. cap
        /\ count - 1 \in 0 .. cap /\ head \in 0 .. cap - 1
    BY <1>1 DEF RecvTake, Succ, Window, Control, TypeOK
  <2>2. tail = IF head + count >= cap THEN head + count - cap ELSE head + count
    BY <2>1, ModAdd
  <2>3. head' = (IF head + 1 = cap THEN 0 ELSE head + 1) /\ head' \in 0 .. cap - 1
    BY <2>1, ModSucc
  <2>4. (head' + (count - 1)) % cap =
           IF head' + (count - 1) >= cap THEN head' + (count - 1) - cap ELSE head' + (count - 1)
    BY <2>1, <2>3, ModAdd
  <2> QED
    BY <2>1, <2>2, <2>3, <2>4
<1>3. sent' = rcvd' \o Contents'
  <2>1. /\ sent' = sent /\ rcvd' = Append(rcvd, Head(Contents))
        /\ Contents' = Tail(Contents) /\ Contents # <<>>
    BY TakeRemoves DEF RecvTake
  <2>2. rcvd \in Seq(Slots) /\ Contents \in Seq(Slots) /\ sent = rcvd \o Contents
    BY <1>1, ContentsSeq DEF Control, TypeOK, Slots, Window, FifoExactlyOnce
  <2> QED
    BY <2>1, <2>2, HeadOver
<1> QED
  BY <1>1, <1>2, <1>3 DEF Window, FifoExactlyOnce, ResidualDisposed

\* Every step keeps the window.
LEMMA NextWindow == Control /\ Window /\ [Next]_vars => Window'
<1> SUFFICES ASSUME Control, Window, [Next]_vars PROVE Window'
  OBVIOUS
<1>1. CASE RoundUp \/ Create \/ Destroy
  BY <1>1, LifeWindow
<1>2. ASSUME NEW t \in Threads, Call(t) \/ SpuriousWake(t) \/ Step(t)
      PROVE  Window'
  <2>1. CASE Call(t) \/ SpuriousWake(t) \/ Lock(t) \/ Unlock(t)
    BY <2>1, WindowFrame DEF Call, SpuriousWake, Lock, Unlock, ring, hist
  <2>2. CASE SendBlock(t) \/ SendRefused(t) \/ RecvBlock(t) \/ RecvNone(t)
    BY <2>2, WindowFrame DEF SendBlock, SendRefused, RecvBlock, RecvNone, ring, hist
  <2>3. CASE Close(t)
    BY <2>3, WindowFrame DEF Close, Holds, hist, Control, LockDiscipline
  <2> QED
    BY <1>2, <2>1, <2>2, <2>3, PutWindow, TakeWindow DEF Step
<1>3. CASE UNCHANGED vars
  BY <1>3, WindowFrame DEF vars, ring, hist
<1> QED
  BY <1>1, <1>2, <1>3 DEF Next

\* Before any channel exists the window is empty.
LEMMA InitWindow == Init => Window
  BY DEF Init, Window, FifoExactlyOnce, ResidualDisposed

\* Exactly-once FIFO delivery for any number of threads, calls and slots: no
\* interleaving of send, try_send, recv, try_recv and the iterator loses,
\* duplicates, reorders or overwrites an element.
THEOREM DeliveryIsFifo == Spec => []FifoExactlyOnce
<1>1. Window => FifoExactlyOnce
  BY DEF Window
<1> QED
  BY <1>1, InitControl, NextControl, InitWindow, NextWindow, PTL DEF Spec

\* The destructor drops exactly what nobody received.
THEOREM DestructorIsExact == Spec => []ResidualDisposed
<1>1. Window => ResidualDisposed
  BY DEF Window
<1> QED
  BY <1>1, InitControl, NextControl, InitWindow, NextWindow, PTL DEF Spec

-----------------------------------------------------------------------------
(* Every step of the channel is a step of the bounded FIFO, or hidden. *)

\* A new channel is an empty queue.
LEMMA InitAbstract == Init => Abstract!Init
  BY DEF Init, Abstract!Init

\* Steps that leave the queue alone.
LEMMA QueueFrame ==
    ASSUME UNCHANGED <<cap, phase, data, head, count, closed, rcvd>>
    PROVE  UNCHANGED Abstract!vars
<1>1. Contents' = Contents
  BY DEF Contents
<1> QED
  BY <1>1 DEF Abstract!vars

\* Rounding the capacity is the abstract Size, Create stutters, Destroy is Drop.
LEMMA LifeAbstract ==
    ASSUME Control, Window, RoundUp \/ Create \/ Destroy
    PROVE  [Abstract!Next]_Abstract!vars
<1>1. CASE RoundUp
  <2>1. cap \in Nat \ {0} /\ cap' = cap * 2
    BY <1>1 DEF RoundUp, Control, TypeOK
  <2>2. cap' > cap
    BY <2>1
  <2>3. phase = "init" /\ phase' = phase /\ closed' = closed /\ ~closed /\ rcvd' = rcvd
    BY <1>1 DEF RoundUp, ring, hist, Window
  <2>4. Abstract!Size
    BY <2>2, <2>3 DEF Abstract!Size
  <2> QED
    BY <2>4 DEF Abstract!Next
<1>2. CASE Create
  <2>1. /\ count' = 0 /\ cap' = cap /\ closed' = closed /\ rcvd' = rcvd
        /\ phase = "init" /\ phase' = "live"
    BY <1>2 DEF Create, Window, hist
  <2>2. Contents' = <<>>
    BY <2>1 DEF Contents
  <2> QED
    BY <2>1, <2>2 DEF Abstract!vars
<1>3. CASE Destroy
  <2>1. phase = "live" /\ phase' = "dead" /\ cap' = cap /\ closed' = closed /\ rcvd' = rcvd
    BY <1>3 DEF Destroy, ring
  <2>2. Abstract!Drop
    BY <2>1 DEF Abstract!Drop
  <2> QED
    BY <2>2 DEF Abstract!Next
<1> QED
  BY <1>1, <1>2, <1>3

\* An insertion in the ring buffer is a Put of the abstract queue.
LEMMA PutAbstract ==
    ASSUME Control, Window, NEW t \in Threads, SendPut(t)
    PROVE  Abstract!Next
<1>1. phase = "live" /\ phase' = "live"
  BY DEF SendPut, Holds, Control, LockDiscipline
<1>2. <<t, calls[t]>> \in Values
  BY ChanAssumption DEF SendPut, Holds, Control, LockDiscipline, TypeOK, Values
<1>3. ~closed /\ closed' = closed /\ cap' = cap /\ rcvd' = rcvd /\ count < cap
  BY DEF SendPut, CanPut, Full, Control, TypeOK
<1>4. Len(Contents) = count /\ Contents' = Append(Contents, <<t, calls[t]>>)
  BY <1>1, ContentsSeq, PutAppends
<1>5. Abstract!Put(<<t, calls[t]>>)
  BY <1>1, <1>3, <1>4 DEF Abstract!Put
<1> QED
  BY <1>2, <1>5 DEF Abstract!Next

\* A removal from the ring buffer is a Take of the abstract queue.
LEMMA TakeAbstract ==
    ASSUME Control, Window, NEW t \in Threads, RecvTake(t)
    PROVE  Abstract!Next
<1>1. phase = "live" /\ phase' = "live"
  BY DEF RecvTake, Holds, Control, LockDiscipline
<1>2. closed' = closed /\ cap' = cap /\ rcvd' = Append(rcvd, data[head])
  BY DEF RecvTake
<1>3. Abstract!Take
  BY <1>1, <1>2, TakeRemoves DEF Abstract!Take
<1> QED
  BY <1>3 DEF Abstract!Next

\* Closing the channel is closing the abstract queue.
LEMMA CloseAbstract ==
    ASSUME Control, NEW t \in Threads, Close(t)
    PROVE  Abstract!Next
<1>1. phase = "live" /\ phase' = phase /\ cap' = cap /\ closed' = TRUE /\ rcvd' = rcvd
  BY DEF Close, Holds, hist, Control, LockDiscipline
<1>2. Contents' = Contents
  BY DEF Close, Contents
<1>3. Abstract!Close
  BY <1>1, <1>2 DEF Abstract!Close
<1> QED
  BY <1>3 DEF Abstract!Next

\* Every step of the channel is a step of the abstract queue or a stutter.
LEMMA NextAbstract == Control /\ Window /\ [Next]_vars => [Abstract!Next]_Abstract!vars
<1> SUFFICES ASSUME Control, Window, [Next]_vars PROVE [Abstract!Next]_Abstract!vars
  OBVIOUS
<1>1. CASE RoundUp \/ Create \/ Destroy
  BY <1>1, LifeAbstract
<1>2. ASSUME NEW t \in Threads, Call(t) \/ SpuriousWake(t) \/ Step(t)
      PROVE  [Abstract!Next]_Abstract!vars
  <2>1. CASE Call(t) \/ SpuriousWake(t) \/ Lock(t) \/ Unlock(t)
    BY <2>1, QueueFrame DEF Call, SpuriousWake, Lock, Unlock, ring, hist
  <2>2. CASE SendBlock(t) \/ SendRefused(t) \/ RecvBlock(t) \/ RecvNone(t)
    BY <2>2, QueueFrame DEF SendBlock, SendRefused, RecvBlock, RecvNone, ring, hist
  <2> QED
    BY <1>2, <2>1, <2>2, PutAbstract, TakeAbstract, CloseAbstract DEF Step
<1>3. CASE UNCHANGED vars
  BY <1>3, QueueFrame DEF vars, ring, hist
<1> QED
  BY <1>1, <1>2, <1>3 DEF Next

\* chan.lls implements the bounded FIFO queue: the ring, the cursors, the lock
\* and the condition variables are invisible to its callers.
THEOREM ChanImplementsFifo == Spec => ImplementsFifo
  BY InitAbstract, NextAbstract, InitControl, NextControl, InitWindow, NextWindow, PTL
     DEF Spec, ImplementsFifo, Abstract!Spec
=============================================================================
