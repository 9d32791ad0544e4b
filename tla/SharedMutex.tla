----------------------------- MODULE SharedMutex -----------------------------
(***************************************************************************)
(* cxx17::shared_mutex: one writer or many readers, built from a mutex and *)
(* two condition variables.  A writer enters first, which keeps new        *)
(* readers out, and waits at the second gate until the old ones have left. *)
(* Every step below is one critical section of mut_.                       *)
(***************************************************************************)
EXTENDS Integers, FiniteSets

CONSTANTS Threads,
          n_readers_   \* the most readers that fit into state_

SharedMutexAssumption ==
  /\ IsFiniteSet(Threads)
  /\ n_readers_ \in Nat \ {0} /\ Cardinality(Threads) <= n_readers_

VARIABLES pc,             \* out, w1 and r1 (at gate1_), w2 (at gate2_), writing, reading
          asleep,         \* threads that wait to be notified
          write_entered_, \* the top bit of state_
          readers         \* the rest of state_
state_ == <<write_entered_, readers>>
vars == <<pc, asleep, state_>>

Places == {"out", "w1", "w2", "writing", "r1", "reading"}
Init == /\ pc = [t \in Threads |-> "out"] /\ asleep = {}
        /\ write_entered_ = 0 /\ readers = 0

Goes(t, p) == pc' = [pc EXCEPT ![t] = p]
no_writer == write_entered_ = 0
no_readers == readers = 0
no_writer_no_max_readers == no_writer /\ readers # n_readers_

(***************************************************************************)
(* lock, try_lock, unlock                                                  *)
(***************************************************************************)
Asks(t, p) == /\ pc[t] = "out" /\ Goes(t, p)
              /\ UNCHANGED <<asleep, state_>>

\* The form that walks in while readers are inside.
EntersAtOnce(t) == /\ write_entered_' = 1 /\ Goes(t, "writing")
                   /\ UNCHANGED <<asleep, readers>>
\* gate1_ has let it in: write_entered_ is set, and gate2_ asked.
Enters(t) == /\ write_entered_' = 1 /\ UNCHANGED readers
             /\ IF no_readers THEN Goes(t, "writing") /\ UNCHANGED asleep
                ELSE Goes(t, "w2") /\ asleep' = asleep \cup {t}
lock(t) ==
  /\ pc[t] = "w1" /\ t \notin asleep
  /\ \/ no_writer /\ Enters(t)
     \/ /\ ~no_writer /\ asleep' = asleep \cup {t}
        /\ UNCHANGED <<pc, state_>>
lock2(t) ==
  /\ pc[t] = "w2" /\ t \notin asleep
  /\ \/ no_readers /\ Goes(t, "writing") /\ UNCHANGED asleep
     \/ ~no_readers /\ asleep' = asleep \cup {t} /\ UNCHANGED pc
  /\ UNCHANGED state_
try_lock(t) ==
  /\ pc[t] = "out" /\ no_writer /\ no_readers
  /\ Goes(t, "writing") /\ write_entered_' = 1
  /\ UNCHANGED <<asleep, readers>>

AtGate1(t) == pc[t] \in {"w1", "r1"}
\* The form that notifies one.
unlock_one(t) ==
  /\ pc[t] = "writing" /\ Goes(t, "out")
  /\ write_entered_' = 0 /\ readers' = 0
  /\ \/ \E u \in asleep : AtGate1(u) /\ asleep' = asleep \ {u}
     \/ (\A u \in asleep : ~AtGate1(u)) /\ UNCHANGED asleep
unlock(t) ==
  /\ pc[t] = "writing" /\ Goes(t, "out")
  /\ write_entered_' = 0 /\ readers' = 0
  /\ asleep' = {u \in asleep : ~AtGate1(u)}

(***************************************************************************)
(* lock_shared, try_lock_shared, unlock_shared                             *)
(***************************************************************************)
lock_shared(t) ==
  /\ pc[t] = "r1" /\ t \notin asleep
  /\ \/ no_writer_no_max_readers /\ Goes(t, "reading") /\ readers' = readers + 1 /\ UNCHANGED asleep
     \/ ~no_writer_no_max_readers /\ asleep' = asleep \cup {t} /\ UNCHANGED <<pc, readers>>
  /\ UNCHANGED write_entered_
try_lock_shared(t) ==
  /\ pc[t] = "out" /\ no_writer_no_max_readers
  /\ Goes(t, "reading") /\ readers' = readers + 1
  /\ UNCHANGED <<asleep, write_entered_>>

NotifyOne(waiters) ==
  \/ \E u \in waiters : asleep' = asleep \ {u}
  \/ waiters = {} /\ UNCHANGED asleep
AtGate2(t) == pc[t] = "w2"

\* The form that tells no writer.
unlock_shared_silent(t) ==
  /\ pc[t] = "reading" /\ Goes(t, "out")
  /\ readers' = readers - 1
  /\ UNCHANGED <<write_entered_, asleep>>
unlock_shared(t) ==
  /\ pc[t] = "reading" /\ Goes(t, "out")
  /\ readers' = readers - 1
  /\ IF no_writer /\ readers = n_readers_ THEN NotifyOne({u \in asleep : AtGate1(u)})
     ELSE IF ~no_writer /\ readers = 1 THEN NotifyOne({u \in asleep : AtGate2(u)})
     ELSE UNCHANGED asleep
  /\ UNCHANGED write_entered_

\* wait() may return by itself.
Spurious(t) == t \in asleep /\ asleep' = asleep \ {t} /\ UNCHANGED <<pc, state_>>

Step(t) == \/ Asks(t, "w1") \/ Asks(t, "r1")
           \/ lock(t) \/ lock2(t) \/ try_lock(t) \/ unlock(t)
           \/ lock_shared(t) \/ try_lock_shared(t) \/ unlock_shared(t)
           \/ Spurious(t)
Next == \E t \in Threads : Step(t)
Spec == Init /\ [][Next]_vars

\* Threads that are awake run, and those inside leave.
FairSpec == /\ Spec
            /\ \A t \in Threads : /\ WF_vars(lock(t) \/ lock2(t) \/ lock_shared(t))
                                  /\ WF_vars(unlock(t)) /\ WF_vars(unlock_shared(t))

(***************************************************************************)
(* Properties.                                                             *)
(***************************************************************************)
TypeOK == /\ pc \in [Threads -> Places] /\ asleep \subseteq Threads
          /\ write_entered_ \in {0, 1} /\ readers \in Int

\* A writer is alone, through spurious wakeups and threads that only try.
Exclusion == \A t, u \in Threads :
  (pc[t] = "writing" /\ u # t) => pc[u] \notin {"writing", "reading"}

\* No thread sleeps at a gate that is open: each change of state_ that opens
\* one notifies those it lets in.
NoLostWakeup == \A t \in asleep :
  /\ AtGate1(t) => write_entered_ = 1
  /\ AtGate2(t) => readers # 0

\* Both.
LocksSound == Exclusion /\ NoLostWakeup

\* A writer that has entered gets the lock: no reader that comes later, and no
\* forgotten notification, keeps it out.
Entered(t) == pc[t] = "w2"
Writing(t) == pc[t] = "writing"
WriterGetsIn == \A t \in Threads : Entered(t) ~> Writing(t)

Readers == {t \in Threads : pc[t] = "reading"}
\* Inductive: the top bit is set while one thread has entered, and the count is
\* that of the threads reading.
IInv == /\ TypeOK
        /\ readers = Cardinality(Readers)
        /\ \A t \in asleep : pc[t] \in {"w1", "w2", "r1"}
        /\ \A t, u \in Threads : (pc[t] \in {"w2", "writing"} /\ pc[u] \in {"w2", "writing"}) => t = u
        /\ \A t \in Threads : pc[t] \in {"w2", "writing"} => write_entered_ = 1
        /\ \A t \in Threads : pc[t] = "writing" => readers = 0
        /\ NoLostWakeup
=============================================================================
