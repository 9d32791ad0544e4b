------------------------------- MODULE LockProofs -------------------------------
(***************************************************************************)
(* LocksSound of SharedMutex, Singleton and SharedLock, for any threads,   *)
(* objects, locks and mutexes.                                             *)
(***************************************************************************)
EXTENDS SharedMutex, FiniteSetTheorems, TLAPS

CONSTANTS null, MaxObjects, Destroys,      \* of Singleton
          Locks, Mutexes, MaxShares        \* of SharedLock
VARIABLES single, mutex, at, mine, made, ready, gone, deletes,
          lk, shares, raw
Single == INSTANCE Singleton WITH none <- null, __single__ <- single, __mutex__ <- mutex, pc <- at
Share == INSTANCE SharedLock WITH none <- null

(***************************************************************************)
(* shared_mutex                                                            *)
(***************************************************************************)

\* The threads that read are finitely many, fewer than n_readers_ while one
\* does not, and none when the count is 0.
LEMMA ReadersCount ==
  ASSUME SharedMutexAssumption
  PROVE  /\ IsFiniteSet(Readers) /\ Cardinality(Readers) \in Nat
         /\ \A t \in Threads : pc[t] # "reading" => Cardinality(Readers) < n_readers_
         /\ Cardinality(Readers) = 0 => Readers = {}
<1> USE DEF SharedMutexAssumption
<1>1. Readers \subseteq Threads
  BY DEF Readers
<1>2. IsFiniteSet(Readers) /\ Cardinality(Readers) \in Nat
  BY <1>1, FS_Subset, FS_CardinalityType
<1>3. ASSUME NEW t \in Threads, pc[t] # "reading" PROVE Cardinality(Readers) < n_readers_
  <2>1. Readers \subseteq Threads \ {t}
    BY <1>3 DEF Readers
  <2>2. IsFiniteSet(Threads \ {t}) /\ Cardinality(Threads \ {t}) = Cardinality(Threads) - 1
    BY FS_RemoveElement
  <2>3. Cardinality(Readers) <= Cardinality(Threads \ {t})
    BY <2>1, <2>2, FS_Subset
  <2>4. Cardinality(Threads) \in Nat
    BY FS_CardinalityType
  <2> QED
    BY <1>2, <2>2, <2>3, <2>4
<1>4. Cardinality(Readers) = 0 => Readers = {}
  BY <1>2, FS_EmptySet, Zenon
<1> QED
  BY <1>2, <1>3, <1>4

\* A thread that starts reading, or stops, changes their number by one.
LEMMA ReadersStep ==
  ASSUME SharedMutexAssumption, TypeOK, NEW t \in Threads, NEW p \in Places, Goes(t, p)
  PROVE  /\ pc' \in [Threads -> Places]
         /\ pc'[t] = p /\ \A u \in Threads : u # t => pc'[u] = pc[u]
         /\ (pc[t] # "reading" /\ p # "reading") => Readers' = Readers
         /\ (pc[t] # "reading" /\ p = "reading") => Cardinality(Readers') = Cardinality(Readers) + 1
         /\ (pc[t] = "reading" /\ p # "reading") => Cardinality(Readers') = Cardinality(Readers) - 1
<1>1. pc' \in [Threads -> Places] /\ pc'[t] = p /\ \A u \in Threads : u # t => pc'[u] = pc[u]
  BY DEF TypeOK, Goes
<1>2. (pc[t] # "reading" /\ p # "reading") => Readers' = Readers
  BY <1>1 DEF Readers
<1>3. ASSUME pc[t] # "reading", p = "reading" PROVE Cardinality(Readers') = Cardinality(Readers) + 1
  <2>1. Readers' = Readers \cup {t} /\ t \notin Readers
    BY <1>1, <1>3 DEF Readers
  <2> QED
    BY <2>1, ReadersCount, FS_AddElement
<1>4. ASSUME pc[t] = "reading", p # "reading" PROVE Cardinality(Readers') = Cardinality(Readers) - 1
  <2>1. Readers' = Readers \ {t} /\ t \in Readers
    BY <1>1, <1>4 DEF Readers
  <2> QED
    BY <2>1, ReadersCount, FS_RemoveElement
<1> QED
  BY <1>1, <1>2, <1>3, <1>4

\* At first nobody is at a gate or inside.
LEMMA InitIInv == Init => IInv
<1> SUFFICES ASSUME Init PROVE IInv
  OBVIOUS
<1>1. Readers = {}
  BY DEF Init, Readers
<1>2. Cardinality(Readers) = 0
  BY <1>1, FS_EmptySet
<1> QED
  BY <1>2 DEF Init, IInv, TypeOK, Places, NoLostWakeup, AtGate1, AtGate2

\* Every critical section keeps the invariant.
LEMMA StepIInv ==
  ASSUME SharedMutexAssumption, IInv, NEW t \in Threads, Step(t)
  PROVE  IInv'
<1> USE DEF IInv, TypeOK, NoLostWakeup, AtGate1, AtGate2
<1>a. Cardinality(Readers) \in Nat /\ \A u \in Threads : pc[u] # "reading" => Cardinality(Readers) < n_readers_
  BY ReadersCount
<1>b. n_readers_ \in Nat
  BY DEF SharedMutexAssumption
<1>c. ASSUME NEW p \in Places, Goes(t, p)
      PROVE  /\ pc' \in [Threads -> Places]
             /\ pc'[t] = p /\ \A u \in Threads : u # t => pc'[u] = pc[u]
             /\ (pc[t] # "reading" /\ p # "reading") => Cardinality(Readers') = Cardinality(Readers)
             /\ (pc[t] # "reading" /\ p = "reading") => Cardinality(Readers') = Cardinality(Readers) + 1
             /\ (pc[t] = "reading" /\ p # "reading") => Cardinality(Readers') = Cardinality(Readers) - 1
  BY <1>c, ReadersStep
<1>d. {"out", "w1", "w2", "writing", "r1", "reading"} = Places
  BY DEF Places
<1>e. UNCHANGED pc => Readers' = Readers
  BY DEF Readers
<1>1. CASE Asks(t, "w1") \/ Asks(t, "r1")
  <2>1. PICK p \in {"w1", "r1"} : Asks(t, p)
    BY <1>1
  <2>2. Goes(t, p) /\ pc[t] = "out" /\ UNCHANGED <<asleep, write_entered_, readers>> /\ p \in Places
    BY <2>1, <1>d DEF Asks, state_
  <2> QED
    BY <2>2, <1>c
<1>2. CASE lock(t)
  <2>1. CASE no_writer /\ Enters(t) /\ no_readers
    <3>1. Goes(t, "writing") /\ pc[t] = "w1" /\ write_entered_' = 1 /\ UNCHANGED <<asleep, readers>>
          /\ write_entered_ = 0 /\ readers = 0
      BY <1>2, <2>1 DEF lock, Enters, no_writer, no_readers
    <3> QED
      BY <3>1, <1>c, <1>d
  <2>2. CASE no_writer /\ Enters(t) /\ ~no_readers
    <3>1. Goes(t, "w2") /\ pc[t] = "w1" /\ write_entered_' = 1 /\ asleep' = asleep \cup {t}
          /\ UNCHANGED readers /\ write_entered_ = 0 /\ readers # 0
      BY <1>2, <2>2 DEF lock, Enters, no_writer, no_readers
    <3> QED
      BY <3>1, <1>c, <1>d
  <2>3. CASE ~no_writer
    <3>1. pc[t] = "w1" /\ write_entered_ = 1 /\ asleep' = asleep \cup {t} /\ UNCHANGED <<pc, write_entered_, readers>>
      BY <1>2, <2>3 DEF lock, no_writer, state_
    <3> QED
      BY <3>1, <1>e
  <2> QED
    BY <1>2, <2>1, <2>2, <2>3 DEF lock
<1>3. CASE lock2(t)
  <2>1. CASE no_readers
    <3>1. Goes(t, "writing") /\ pc[t] = "w2" /\ readers = 0 /\ UNCHANGED <<asleep, write_entered_, readers>>
          /\ t \notin asleep
      BY <1>3, <2>1 DEF lock2, no_readers, state_
    <3> QED
      BY <3>1, <1>c, <1>d
  <2>2. CASE ~no_readers
    <3>1. pc[t] = "w2" /\ readers # 0 /\ asleep' = asleep \cup {t} /\ UNCHANGED <<pc, write_entered_, readers>>
      BY <1>3, <2>2 DEF lock2, no_readers, state_
    <3> QED
      BY <3>1, <1>e
  <2> QED
    BY <2>1, <2>2
<1>4. CASE try_lock(t)
  <2>1. Goes(t, "writing") /\ pc[t] = "out" /\ write_entered_' = 1 /\ UNCHANGED <<asleep, readers>>
        /\ write_entered_ = 0 /\ readers = 0
    BY <1>4 DEF try_lock, no_writer, no_readers
  <2> QED
    BY <2>1, <1>c, <1>d
<1>5. CASE unlock(t)
  <2>1. Goes(t, "out") /\ pc[t] = "writing" /\ write_entered_' = 0 /\ readers' = 0 /\ readers = 0
        /\ asleep' = {u \in asleep : pc[u] \notin {"w1", "r1"}}
    BY <1>5 DEF unlock
  <2>2. asleep' = {}
    BY <2>1
  <2> QED
    BY <2>1, <2>2, <1>c, <1>d
<1>6. CASE lock_shared(t) \/ try_lock_shared(t)
  <2>1. CASE no_writer_no_max_readers
    <3>1. Goes(t, "reading") /\ pc[t] \in {"r1", "out"} /\ readers' = readers + 1 /\ write_entered_ = 0
          /\ UNCHANGED <<asleep, write_entered_>> /\ t \notin asleep
      BY <1>6, <2>1 DEF lock_shared, try_lock_shared, no_writer_no_max_readers, no_writer
    <3> QED
      BY <3>1, <1>a, <1>c, <1>d
  <2>2. CASE ~no_writer_no_max_readers
    <3>1. pc[t] = "r1" /\ asleep' = asleep \cup {t} /\ UNCHANGED <<pc, write_entered_, readers>>
      BY <1>6, <2>2 DEF lock_shared, try_lock_shared
    <3>2. write_entered_ = 1
      BY <3>1, <2>2, <1>a, <1>b DEF no_writer_no_max_readers, no_writer
    <3> QED
      BY <3>1, <3>2, <1>e
  <2> QED
    BY <2>1, <2>2
<1>7. CASE unlock_shared(t)
  <2>1. Goes(t, "out") /\ pc[t] = "reading" /\ readers' = readers - 1 /\ UNCHANGED write_entered_
        /\ asleep' \subseteq asleep
    BY <1>7 DEF unlock_shared, NotifyOne
  <2>2. ASSUME NEW u \in asleep', pc[u] = "w2" PROVE readers # 1
    <3>1. SUFFICES ASSUME readers = 1 PROVE FALSE
      OBVIOUS
    <3>2. u \in asleep /\ u \in Threads /\ write_entered_ = 1
      BY <2>1, <2>2
    <3>3. NotifyOne({x \in asleep : AtGate2(x)})
      BY <1>7, <3>1, <3>2 DEF unlock_shared, no_writer
    <3>4. \E v \in asleep : AtGate2(v) /\ asleep' = asleep \ {v}
      BY <3>2, <3>3, <2>2 DEF NotifyOne
    <3>5. PICK v \in asleep : pc[v] = "w2" /\ asleep' = asleep \ {v}
      BY <3>4
    <3> QED
      BY <3>5, <3>2, <2>2
  <2>3. t \notin asleep
    BY <2>1
  <2>4. readers # 0 /\ \A u \in Threads : pc[u] # "writing"
    <3>1. Readers # {}
      BY <2>1 DEF Readers
    <3> QED
      BY <3>1, ReadersCount
  <2>5. pc' \in [Threads -> Places] /\ pc'[t] = "out" /\ (\A u \in Threads : u # t => pc'[u] = pc[u])
        /\ readers' = Cardinality(Readers')
    BY <2>1, <1>a, <1>c, <1>d
  <2>6. NoLostWakeup'
    BY <2>1, <2>2, <2>3, <2>4, <2>5
  <2> QED
    BY <2>1, <2>3, <2>4, <2>5, <2>6
<1>8. CASE Spurious(t)
  BY <1>8, <1>e DEF Spurious, state_
<1> QED
  BY <1>1, <1>2, <1>3, <1>4, <1>5, <1>6, <1>7, <1>8 DEF Step

\* IInv holds throughout.
THEOREM Inductive ==
  ASSUME SharedMutexAssumption
  PROVE  Spec => []IInv
<1>1. ASSUME IInv, [Next]_vars PROVE IInv'
  <2>1. CASE Next
    BY <2>1, <1>1, StepIInv DEF Next
  <2>2. CASE UNCHANGED vars
    <3>1. Readers' = Readers
      BY <2>2 DEF Readers, vars
    <3> QED
      BY <2>2, <3>1, <1>1 DEF vars, state_, IInv, TypeOK, NoLostWakeup, AtGate1, AtGate2
  <2> QED
    BY <1>1, <2>1, <2>2
<1> QED
  BY <1>1, InitIInv, PTL DEF Spec

\* A writer is alone: lock and lock_shared exclude each other for any number of
\* threads.
THEOREM ExclusionCorrect ==
  ASSUME SharedMutexAssumption
  PROVE  Spec => []Exclusion
<1>1. IInv => Exclusion
  <2> SUFFICES ASSUME IInv, NEW t \in Threads, NEW u \in Threads, pc[t] = "writing", u # t
               PROVE  pc[u] \notin {"writing", "reading"}
    BY DEF Exclusion
  <2>1. Readers = {}
    BY ReadersCount DEF IInv
  <2>2. pc[u] # "reading"
    BY <2>1 DEF Readers
  <2>3. pc[u] # "writing"
    BY DEF IInv
  <2> QED
    BY <2>2, <2>3
<1> QED
  BY <1>1, Inductive, PTL

\* No thread sleeps at an open gate: every unlock and unlock_shared that opens
\* one wakes those it lets in.
THEOREM WakeupCorrect ==
  ASSUME SharedMutexAssumption
  PROVE  Spec => []NoLostWakeup
<1>1. IInv => NoLostWakeup
  BY DEF IInv
<1> QED
  BY <1>1, Inductive, PTL

\* shared_mutex: both of the above.
THEOREM SharedMutexCorrect ==
  ASSUME SharedMutexAssumption
  PROVE  Spec => []LocksSound
<1> QED
  BY ExclusionCorrect, WakeupCorrect, PTL DEF LocksSound

(***************************************************************************)
(* singleton                                                               *)
(***************************************************************************)
\* Where a thread of singleton can be, and where it holds the mutex.
Spots == {"out", "load", "lock", "again", "construct", "store", "unlock", "result", "has", "delete"}
Holding == {"again", "construct", "store", "unlock"}
SingleType ==
  /\ single \in Nat \cup {null} /\ mine \in [Threads -> Nat \cup {null}]
  /\ at \in [Threads -> Spots] /\ made \in Nat
  /\ gone \subseteq ready /\ ready \subseteq 1..made
\* The mutex is held exactly in the critical section; the object under
\* construction is the newest, and nobody else can have it yet.
SingleHeld ==
  /\ \A t \in Threads : at[t] \in Holding <=> mutex = t
  /\ \A t \in Threads : at[t] = "construct" => single = null /\ mine[t] = made /\ made > 0 /\ made \notin ready
  /\ \A t \in Threads : at[t] = "store" => single = null /\ mine[t] = made /\ made \in ready \ gone
\* What is to be deleted is complete, no longer published, and in the hands of
\* one thread.
SingleDeleted ==
  /\ \A t \in Threads : at[t] = "delete" => /\ mine[t] \in ready \ gone /\ mine[t] # single
                                            /\ \A u \in Threads : at[u] = "store" => mine[u] # mine[t]
  /\ \A t, u \in Threads : at[t] = "delete" /\ at[u] = "delete" /\ t # u => mine[t] # mine[u]
SingleKept ==
  ~Destroys =>
    /\ \A t \in Threads : at[t] # "delete"
    /\ \A t \in Threads : at[t] \in {"unlock", "result"} => single # null
    /\ \A t \in Threads : at[t] = "has" => single # null /\ mine[t] = single
SingleInv == /\ SingleType /\ SingleHeld /\ SingleDeleted /\ SingleKept
             /\ Single!PublishedWhole /\ Single!DeletedOnce

\* The instance counts as FiniteSets does.
LEMMA SameCount == ASSUME NEW S PROVE Single!Cardinality(S) = Cardinality(S)
BY DEF Single!Cardinality, Cardinality

\* At first there is no object and the mutex is free.
LEMMA SingleInit ==
  ASSUME Single!SingletonAssumption, Single!Init PROVE SingleInv
<1>1. SingleType
  BY DEF Single!Init, SingleType, Spots
<1>2. SingleHeld /\ SingleDeleted /\ SingleKept
  BY DEF Single!Init, Single!SingletonAssumption, SingleHeld, SingleDeleted, SingleKept, Holding
<1>3. Single!PublishedWhole /\ Single!DeletedOnce
  BY FS_EmptySet, SameCount DEF Single!Init, Single!PublishedWhole, Single!DeletedOnce
<1> QED
  BY <1>1, <1>2, <1>3 DEF SingleInv

\* Every access of the pointer or the mutex, by instance or destroy, keeps the
\* invariant.
LEMMA SingleStep ==
  ASSUME Single!SingletonAssumption, SingleInv, NEW t \in Threads,
         Single!instance(t) \/ Single!Runs(t) \/ Single!Throws(t) \/ Single!Drops(t) \/ Single!Exchanges(t)
  PROVE  SingleInv'
<1> USE DEF SingleInv, SingleType, SingleHeld, SingleDeleted, SingleKept, Single!PublishedWhole,
            Single!SingletonAssumption, Single!Goes, Single!Takes, Spots, Holding
<1>1. CASE Single!instance(t)
  <2> USE <1>1 DEF Single!instance
  <2>1. SingleType'
    OBVIOUS
  <2>2. SingleHeld'
    OBVIOUS
  <2>3. SingleDeleted'
    OBVIOUS
  <2>4. SingleKept' /\ Single!PublishedWhole'
    OBVIOUS
  <2>5. Single!DeletedOnce'
    BY DEF Single!DeletedOnce
  <2> QED
    BY <2>1, <2>2, <2>3, <2>4, <2>5
<1>2. CASE Single!Loads(t)
  <2> USE <1>2 DEF Single!Loads
  <2>1. SingleType'
    OBVIOUS
  <2>2. SingleHeld'
    OBVIOUS
  <2>3. SingleDeleted'
    OBVIOUS
  <2>4. SingleKept' /\ Single!PublishedWhole'
    OBVIOUS
  <2>5. Single!DeletedOnce'
    BY DEF Single!DeletedOnce
  <2> QED
    BY <2>1, <2>2, <2>3, <2>4, <2>5
<1>3. CASE Single!Acquires(t)
  <2> USE <1>3 DEF Single!Acquires
  <2>1. SingleType'
    OBVIOUS
  <2>2. SingleHeld'
    OBVIOUS
  <2>3. SingleDeleted'
    OBVIOUS
  <2>4. SingleKept' /\ Single!PublishedWhole'
    OBVIOUS
  <2>5. Single!DeletedOnce'
    BY DEF Single!DeletedOnce
  <2> QED
    BY <2>1, <2>2, <2>3, <2>4, <2>5
<1>4. CASE Single!LoadsAgain(t)
  <2> USE <1>4 DEF Single!LoadsAgain
  <2>1. SingleType'
    OBVIOUS
  <2>2. SingleHeld'
    OBVIOUS
  <2>3. SingleDeleted'
    OBVIOUS
  <2>4. SingleKept' /\ Single!PublishedWhole'
    OBVIOUS
  <2>5. Single!DeletedOnce'
    BY DEF Single!DeletedOnce
  <2> QED
    BY <2>1, <2>2, <2>3, <2>4, <2>5
<1>5. CASE Single!construct(t)
  <2> USE <1>5 DEF Single!construct
  <2>1. SingleType'
    <3>1. mine[t] = made /\ made \in 1..made
      OBVIOUS
    <3>2. gone' \subseteq ready' /\ ready' \subseteq 1..made'
      BY <3>1
    <3>3. at' \in [Threads -> Spots]
      OBVIOUS
    <3> QED
      BY <3>2, <3>3
  <2>2. SingleHeld'
    OBVIOUS
  <2>3. SingleDeleted'
    OBVIOUS
  <2>4. SingleKept' /\ Single!PublishedWhole'
    OBVIOUS
  <2>5. Single!DeletedOnce'
    BY DEF Single!DeletedOnce
  <2> QED
    BY <2>1, <2>2, <2>3, <2>4, <2>5
<1>6. CASE Single!Stores(t)
  <2> USE <1>6 DEF Single!Stores
  <2>1. SingleType'
    OBVIOUS
  <2>2. SingleHeld'
    OBVIOUS
  <2>3. SingleDeleted'
    OBVIOUS
  <2>4. SingleKept' /\ Single!PublishedWhole'
    OBVIOUS
  <2>5. Single!DeletedOnce'
    BY DEF Single!DeletedOnce
  <2> QED
    BY <2>1, <2>2, <2>3, <2>4, <2>5
<1>7. CASE Single!Unlocks(t)
  <2> USE <1>7 DEF Single!Unlocks
  <2>1. SingleType'
    OBVIOUS
  <2>2. SingleHeld'
    OBVIOUS
  <2>3. SingleDeleted'
    OBVIOUS
  <2>4. SingleKept' /\ Single!PublishedWhole'
    OBVIOUS
  <2>5. Single!DeletedOnce'
    BY DEF Single!DeletedOnce
  <2> QED
    BY <2>1, <2>2, <2>3, <2>4, <2>5
<1>8. CASE Single!Returns(t)
  <2> USE <1>8 DEF Single!Returns
  <2>1. SingleType'
    OBVIOUS
  <2>2. SingleHeld'
    OBVIOUS
  <2>3. SingleDeleted'
    OBVIOUS
  <2>4. SingleKept' /\ Single!PublishedWhole'
    OBVIOUS
  <2>5. Single!DeletedOnce'
    BY DEF Single!DeletedOnce
  <2> QED
    BY <2>1, <2>2, <2>3, <2>4, <2>5
<1>9. CASE Single!Throws(t)
  <2> USE <1>9 DEF Single!Throws
  <2>1. SingleType'
    OBVIOUS
  <2>2. SingleHeld'
    OBVIOUS
  <2>3. SingleDeleted'
    OBVIOUS
  <2>4. SingleKept' /\ Single!PublishedWhole'
    OBVIOUS
  <2>5. Single!DeletedOnce'
    BY DEF Single!DeletedOnce
  <2> QED
    BY <2>1, <2>2, <2>3, <2>4, <2>5
<1>10. CASE Single!Drops(t)
  <2> USE <1>10 DEF Single!Drops
  <2>1. SingleType'
    OBVIOUS
  <2>2. SingleHeld'
    OBVIOUS
  <2>3. SingleDeleted'
    OBVIOUS
  <2>4. SingleKept' /\ Single!PublishedWhole'
    OBVIOUS
  <2>5. Single!DeletedOnce'
    BY DEF Single!DeletedOnce
  <2> QED
    BY <2>1, <2>2, <2>3, <2>4, <2>5
<1>11. CASE Single!Exchanges(t)
  <2> USE <1>11 DEF Single!Exchanges
  <2>1. SingleType'
    OBVIOUS
  <2>2. SingleHeld'
    OBVIOUS
  <2>3. SingleDeleted'
    <3>1. null \notin ready
      <4> HIDE <1>11
      <4>1. \A n \in 1..made : n \in Nat \ {0}
        OBVIOUS
      <4> QED
        BY <4>1
    <3>2. ASSUME NEW u \in Threads, at'[u] = "delete"
          PROVE  /\ mine'[u] \in ready \ gone /\ mine'[u] # null
                 /\ u = t => single # null /\ mine'[u] = single
                 /\ u # t => at[u] = "delete" /\ mine'[u] = mine[u] /\ mine[u] # single
      <4>1. CASE u = t
        <5>1. single # null /\ mine'[u] = single
          BY <3>2, <4>1
        <5> QED
          BY <5>1, <4>1, <3>1
      <4>2. CASE u # t
        <5>1. at[u] = "delete" /\ mine'[u] = mine[u]
          BY <3>2, <4>2
        <5> QED
          BY <5>1, <4>2, <3>1
      <4> QED
        BY <4>1, <4>2
    <3>3. ASSUME NEW u \in Threads, at'[u] = "store"
          PROVE  u # t /\ at[u] = "store" /\ mine'[u] = mine[u] /\ single = null
      BY <3>3
    <3>4. ASSUME NEW u \in Threads, at'[u] = "delete", NEW v \in Threads, at'[v] = "store"
          PROVE  mine'[v] # mine'[u]
      BY <3>2, <3>3, <3>4
    <3>5. ASSUME NEW u \in Threads, at'[u] = "delete", NEW v \in Threads, at'[v] = "delete", u # v
          PROVE  mine'[v] # mine'[u]
      <4>1. CASE u = t
        BY <3>2, <3>5, <4>1
      <4>2. CASE v = t
        BY <3>2, <3>5, <4>2
      <4>3. CASE u # t /\ v # t
        BY <3>2, <3>5, <4>3
      <4> QED
        BY <4>1, <4>2, <4>3
    <3>6. single' = null /\ ready' = ready /\ gone' = gone
      OBVIOUS
    <3> QED
      BY <3>2, <3>4, <3>5, <3>6
  <2>4. SingleKept' /\ Single!PublishedWhole'
    OBVIOUS
  <2>5. Single!DeletedOnce'
    BY DEF Single!DeletedOnce
  <2> QED
    BY <2>1, <2>2, <2>3, <2>4, <2>5
<1>12. CASE Single!Deletes(t)
  <2> USE <1>12 DEF Single!Deletes
  <2>1. SingleType'
    OBVIOUS
  <2>2. SingleHeld'
    OBVIOUS
  <2>3. SingleDeleted'
    OBVIOUS
  <2>4. SingleKept' /\ Single!PublishedWhole'
    OBVIOUS
  <2>5. IsFiniteSet(gone)
    <3>1. IsFiniteSet(1..made)
      BY FS_Interval
    <3> QED
      BY <3>1, FS_Subset
  <2>6. Single!DeletedOnce'
    BY <2>5, FS_AddElement, SameCount DEF Single!DeletedOnce
  <2> QED
    BY <2>1, <2>2, <2>3, <2>4, <2>6
<1> QED
  BY <1>1, <1>2, <1>3, <1>4, <1>5, <1>6, <1>7, <1>8, <1>9, <1>10, <1>11, <1>12 DEF Single!Runs

\* singleton: for any threads and any number of objects, destroyed or not, what
\* is published is complete and alive, each object is deleted once and, without
\* destroy, there is only one.
THEOREM SingletonCorrect ==
  ASSUME Single!SingletonAssumption
  PROVE  Single!Spec => []Single!LocksSound
<1>1. ASSUME SingleInv, [Single!Next]_Single!vars PROVE SingleInv'
  <2>1. CASE Single!Next
    BY <2>1, <1>1, SingleStep DEF Single!Next
  <2>2. CASE UNCHANGED Single!vars
    BY <2>2, <1>1 DEF Single!vars, SingleInv, SingleType, SingleHeld, SingleDeleted, SingleKept,
                      Single!PublishedWhole, Single!DeletedOnce
  <2> QED
    BY <1>1, <2>1, <2>2
<1>2. SingleInv => Single!LocksSound
  BY DEF SingleInv, SingleKept, Single!LocksSound, Single!OneInstance
<1> QED
  BY <1>1, <1>2, SingleInit, PTL DEF Single!Spec

(***************************************************************************)
(* shared_lock                                                             *)
(***************************************************************************)

\* The instance counts as FiniteSets does.
LEMMA SameCard == ASSUME NEW S PROVE Share!Cardinality(S) = Cardinality(S)
BY DEF Share!Cardinality, Cardinality

\* And it means the same by a finite set.
LEMMA SameFinite == ASSUME NEW S PROVE Share!IsFiniteSet(S) <=> IsFiniteSet(S)
BY DEF Share!IsFiniteSet, IsFiniteSet

\* What a lock owns is a share of a mutex; the count of shares follows.
LockStates == {x \in [here : BOOLEAN, _Pmtx : Mutexes \cup {null}, _Owns : BOOLEAN] :
                 x._Owns => x.here /\ x._Pmtx \in Mutexes}
ShareInv == /\ lk \in [Locks -> LockStates] /\ shares \in [Mutexes -> Int] /\ raw \in [Mutexes -> Int]
            /\ Share!LocksSound

\* The owners of a mutex are finitely many, and one more or one less counts one.
LEMMA OwnersCount ==
  ASSUME Share!SharedLockAssumption, NEW m
  PROVE  /\ Cardinality(Share!Owners(m)) \in Int
         /\ \A l : l \notin Share!Owners(m) => Cardinality(Share!Owners(m) \cup {l}) = Cardinality(Share!Owners(m)) + 1
         /\ \A l \in Share!Owners(m) : Cardinality(Share!Owners(m) \ {l}) = Cardinality(Share!Owners(m)) - 1
         /\ \A l, r : l \notin Share!Owners(m) /\ r \in Share!Owners(m) =>
              Cardinality((Share!Owners(m) \ {r}) \cup {l}) = Cardinality(Share!Owners(m))
<1>1. IsFiniteSet(Share!Owners(m))
  <2>1. Share!Owners(m) \subseteq Locks
    BY DEF Share!Owners
  <2>2. IsFiniteSet(Locks)
    BY SameFinite DEF Share!SharedLockAssumption
  <2> QED
    BY <2>1, <2>2, FS_Subset
<1>2. Cardinality(Share!Owners(m)) \in Nat
  BY <1>1, FS_CardinalityType
<1>3. \A l : l \notin Share!Owners(m) => Cardinality(Share!Owners(m) \cup {l}) = Cardinality(Share!Owners(m)) + 1
  BY <1>1, FS_AddElement
<1>4. \A l \in Share!Owners(m) : Cardinality(Share!Owners(m) \ {l}) = Cardinality(Share!Owners(m)) - 1
  BY <1>1, FS_RemoveElement
<1>5. ASSUME NEW l, NEW r, l \notin Share!Owners(m), r \in Share!Owners(m)
      PROVE  Cardinality((Share!Owners(m) \ {r}) \cup {l}) = Cardinality(Share!Owners(m))
  <2> DEFINE S == Share!Owners(m) \ {r}
  <2>1. IsFiniteSet(S) /\ Cardinality(S) = Cardinality(Share!Owners(m)) - 1
    BY <1>1, <1>5, FS_RemoveElement
  <2>2. l \notin S
    BY <1>5
  <2>3. Cardinality(S \cup {l}) = Cardinality(S) + 1
    BY <2>1, <2>2, FS_AddElement
  <2> QED
    BY <2>1, <2>3, <1>2
<1> QED
  BY <1>2, <1>3, <1>4, <1>5

\* A lock that is set to a new state joins or leaves the owners of a mutex.
LEMMA SetsOwners ==
  ASSUME ShareInv, NEW l \in Locks, NEW v \in LockStates, Share!Sets(l, v)
  PROVE  /\ lk' \in [Locks -> LockStates]
         /\ \A m : Share!Owners(m)' = IF v._Owns /\ v._Pmtx = m THEN Share!Owners(m) \cup {l}
                                      ELSE Share!Owners(m) \ {l}
BY DEF ShareInv, Share!Sets, Share!Owners

\* How many shares of m a lock in state x owns.
Owned(x, m) == IF x._Owns /\ x._Pmtx = m THEN 1 ELSE 0

\* A lock owns one share of a mutex or none.
LEMMA OwnedInt == \A x, m : Owned(x, m) \in {0, 1}
BY DEF Owned
\* Lock l becomes v, and the mutexes count the difference.
Turns(l, v) == /\ l \in Locks /\ v \in LockStates /\ Share!Sets(l, v)
               /\ shares' \in [Mutexes -> Int] /\ raw' \in [Mutexes -> Int]
               /\ \A m \in Mutexes :
                    shares'[m] - raw'[m] = shares[m] - raw[m] + Owned(v, m) - Owned(lk[l], m)

\* When the mutexes count what the lock gained and lost, the count stays right.
LEMMA SetsInv ==
  ASSUME Share!SharedLockAssumption, ShareInv, NEW l, NEW v, Turns(l, v)
  PROVE  ShareInv'
<1> USE DEF Turns
<1>1. ASSUME NEW m \in Mutexes PROVE shares'[m] = raw'[m] + Cardinality(Share!Owners(m)')
  <2>1. /\ shares[m] = raw[m] + Cardinality(Share!Owners(m))
        /\ shares[m] \in Int /\ raw[m] \in Int /\ shares'[m] \in Int /\ raw'[m] \in Int
    BY SameCard DEF ShareInv, Share!LocksSound
  <2>2. l \in Share!Owners(m) <=> (lk[l]._Owns /\ lk[l]._Pmtx = m)
    BY DEF Share!Owners
  <2> DEFINE S == Share!Owners(m)
             b == Owned(v, m)
             a == Owned(lk[l], m)
  <2>3. /\ a \in {0, 1} /\ b \in {0, 1} /\ (a = 1 <=> l \in S)
        /\ Share!Owners(m)' = IF b = 1 THEN S \cup {l} ELSE S \ {l}
    BY <2>2, SetsOwners, SMTT(30) DEF Owned
  <2>4. shares'[m] - raw'[m] = shares[m] - raw[m] + b - a
    OBVIOUS
  <2>5. /\ Cardinality(S) \in Int
        /\ l \notin S => Cardinality(S \cup {l}) = Cardinality(S) + 1
        /\ l \in S => Cardinality(S \ {l}) = Cardinality(S) - 1
    BY OwnersCount
  <2>6. (l \in S => S \cup {l} = S) /\ (l \notin S => S \ {l} = S)
    OBVIOUS
  <2> HIDE DEF S, a, b
  <2>7. Cardinality(Share!Owners(m)') = Cardinality(S) + b - a
    <3>1. CASE a = 0 /\ b = 0
      <4>1. Share!Owners(m)' = S
        BY <2>3, <2>6, <3>1
      <4>2. Cardinality(Share!Owners(m)') = Cardinality(S)
        BY <4>1, Zenon
      <4> QED
        BY <4>2, <2>5, <3>1
    <3>2. CASE a = 0 /\ b = 1
      BY <2>3, <2>5, <2>6, <3>2
    <3>3. CASE a = 1 /\ b = 0
      BY <2>3, <2>5, <2>6, <3>3
    <3>4. CASE a = 1 /\ b = 1
      <4>1. Share!Owners(m)' = S
        BY <2>3, <2>6, <3>4
      <4>2. Cardinality(Share!Owners(m)') = Cardinality(S)
        BY <4>1, Zenon
      <4> QED
        BY <4>2, <2>5, <3>4
    <3> QED
      BY <2>3, <3>1, <3>2, <3>3, <3>4
  <2> QED
    BY <2>1, <2>3, <2>4, <2>5, <2>7 DEF S
<1>2. lk' \in [Locks -> LockStates]
  BY SetsOwners
<1> QED
  BY <1>1, <1>2, SameCard DEF ShareInv, Share!LocksSound

\* A move or a swap: l takes what r has, and r becomes v.
Pair(l, r, v) == /\ l \in Locks /\ r \in Locks /\ v \in LockStates /\ l # r
                 /\ lk' = [lk EXCEPT ![l] = lk[r], ![r] = v]

\* Then l owns what r owned.
LEMMA PairOwners ==
  ASSUME ShareInv, NEW l, NEW r, NEW v, Pair(l, r, v), NEW m
  PROVE  /\ lk' \in [Locks -> LockStates]
         /\ Share!Owners(m)' =
                     (Share!Owners(m) \ {l, r}) \cup (IF r \in Share!Owners(m) THEN {l} ELSE {})
                                               \cup (IF Owned(v, m) = 1 THEN {r} ELSE {})
BY DEF ShareInv, Share!Owners, Owned, Pair

\* The count stays right if what l gave up was given back or went to r.
LEMMA PairInv ==
  ASSUME Share!SharedLockAssumption, ShareInv, NEW l, NEW r, NEW v, Pair(l, r, v),
         v._Owns => v = lk[l],
         shares' \in [Mutexes -> Int], raw' = raw,
         \A m \in Mutexes : shares'[m] = shares[m] + Owned(v, m) - Owned(lk[l], m)
  PROVE  ShareInv'
<1>1. ASSUME NEW m \in Mutexes PROVE shares'[m] = raw'[m] + Cardinality(Share!Owners(m)')
  <2>1. /\ shares[m] = raw[m] + Cardinality(Share!Owners(m))
        /\ shares[m] \in Int /\ raw[m] \in Int /\ shares'[m] \in Int /\ raw'[m] = raw[m]
    BY SameCard DEF ShareInv, Share!LocksSound
  <2>0. Share!Owners(m)' = (Share!Owners(m) \ {l, r}) \cup (IF r \in Share!Owners(m) THEN {l} ELSE {})
                                                      \cup (IF Owned(v, m) = 1 THEN {r} ELSE {})
    BY PairOwners
  <2> DEFINE S == Share!Owners(m)
             T == Share!Owners(m)'
  <2>9. l # r
    BY DEF Pair
  <2>2. (l \in S <=> Owned(lk[l], m) = 1) /\ (r \in S <=> Owned(lk[r], m) = 1)
    BY DEF Share!Owners, Owned, Pair
  <2>3. T = (S \ {l, r}) \cup (IF r \in S THEN {l} ELSE {}) \cup (IF Owned(v, m) = 1 THEN {r} ELSE {})
    BY <2>0
  <2>4. Owned(v, m) = 1 => l \in S
    BY <2>2 DEF Owned
  <2>5. Owned(v, m) \in {0, 1} /\ Owned(lk[l], m) \in {0, 1}
    BY DEF Owned
  <2>6. /\ Cardinality(S) \in Int
        /\ \A x \in S : Cardinality(S \ {x}) = Cardinality(S) - 1
        /\ \A x, y : x \notin S /\ y \in S => Cardinality((S \ {y}) \cup {x}) = Cardinality(S)
    BY OwnersCount
  <2>7. shares'[m] = shares[m] + Owned(v, m) - Owned(lk[l], m)
    OBVIOUS
  <2> HIDE DEF S, T
  <2>8. Cardinality(T) = Cardinality(S) + Owned(v, m) - Owned(lk[l], m)
    <3>1. CASE Owned(v, m) = 1
      <4>1. CASE r \in S
        <5>1. T = S
          BY <2>3, <2>4, <3>1, <4>1
        <5> QED
          BY <5>1, <2>2, <2>4, <2>6, <3>1
      <4>2. CASE r \notin S
        <5>1. T = (S \ {l}) \cup {r}
          BY <2>3, <3>1, <4>2
        <5> QED
          BY <5>1, <2>2, <2>4, <2>6, <3>1, <4>2
      <4> QED
        BY <4>1, <4>2
    <3>2. CASE Owned(v, m) = 0 /\ l \in S
      <4>1. CASE r \in S
        <5>1. T = S \ {r}
          BY <2>3, <2>9, <3>2, <4>1
        <5> QED
          BY <5>1, <2>2, <2>6, <3>2, <4>1
      <4>2. CASE r \notin S
        <5>1. T = S \ {l}
          BY <2>3, <3>2, <4>2
        <5> QED
          BY <5>1, <2>2, <2>6, <3>2
      <4> QED
        BY <4>1, <4>2
    <3>3. CASE Owned(v, m) = 0 /\ l \notin S
      <4>1. CASE r \in S
        <5>1. T = (S \ {r}) \cup {l}
          BY <2>3, <3>3, <4>1
        <5> QED
          BY <5>1, <2>2, <2>5, <2>6, <3>3, <4>1
      <4>2. CASE r \notin S
        <5>1. T = S
          BY <2>3, <3>3, <4>2
        <5> QED
          BY <5>1, <2>2, <2>5, <2>6, <3>3
      <4> QED
        BY <4>1, <4>2
    <3> QED
      BY <2>5, <3>1, <3>2, <3>3
  <2> QED
    BY <2>1, <2>5, <2>6, <2>7, <2>8 DEF S, T
<1>2. lk' \in [Locks -> LockStates]
  BY PairOwners
<1> QED
  BY <1>1, <1>2, SameCard DEF ShareInv, Share!LocksSound

\* Every operation of shared_lock, and those on the mutex itself, keep the count.
LEMMA ShareStep ==
  ASSUME Share!SharedLockAssumption, ShareInv, Share!Next PROVE ShareInv'
<1> DEFINE Empty == Share!Lock(null, FALSE)
<1>1. /\ Share!Absent \in LockStates /\ Empty \in LockStates
      /\ ~Share!Absent._Owns /\ ~Empty._Owns
  BY DEF LockStates, Share!Absent, Share!Lock
<1>2. \A m \in Mutexes :
        /\ Share!Lock(m, TRUE) \in LockStates /\ Share!Lock(m, FALSE) \in LockStates
        /\ \A k : Owned(Share!Lock(m, TRUE), k) = IF m = k THEN 1 ELSE 0
        /\ \A k : Owned(Share!Lock(m, FALSE), k) = 0
  BY DEF LockStates, Share!Lock, Owned
<1>3. \A m : Owned(Share!Absent, m) = 0 /\ Owned(Empty, m) = 0
  BY <1>1 DEF Owned
<1>4. /\ lk \in [Locks -> LockStates] /\ shares \in [Mutexes -> Int] /\ raw \in [Mutexes -> Int]
      /\ \A l \in Locks : /\ lk[l] \in LockStates
                          /\ lk[l]._Owns => lk[l].here /\ lk[l]._Pmtx \in Mutexes
                          /\ lk[l]._Pmtx # null => lk[l]._Pmtx \in Mutexes
  BY DEF ShareInv, LockStates
<1>5. ASSUME NEW l \in Locks, Share!GivesBack(l)
      PROVE  /\ shares' \in [Mutexes -> Int]
             /\ \A m \in Mutexes : shares'[m] = shares[m] - Owned(lk[l], m)
  <2>1. CASE lk[l]._Owns
    <3>1. PICK n \in Mutexes : n = lk[l]._Pmtx
      BY <2>1, <1>4
    <3>2. shares' = [shares EXCEPT ![n] = @ - 1]
      BY <2>1, <3>1, <1>4, <1>5 DEF Share!GivesBack, Share!Shares
    <3>3. \A m : Owned(lk[l], m) = IF n = m THEN 1 ELSE 0
      BY <2>1, <3>1 DEF Owned
    <3> QED
      BY <3>2, <3>3, <1>4
  <2>2. CASE ~lk[l]._Owns
    BY <2>2, <1>4, <1>5 DEF Share!GivesBack, Owned
  <2> QED
    BY <2>1, <2>2
<1> HIDE DEF Empty
<1>6. ASSUME NEW l \in Locks, ~lk[l].here \/ ~lk[l]._Owns PROVE \A m : Owned(lk[l], m) = 0
  BY <1>4, <1>6 DEF Owned
<1> USE DEF Turns, Share!Shares, Share!Raw
<1>7. ASSUME NEW l \in Locks, Share!Construct(l) PROVE ShareInv'
  <2>1. Turns(l, Empty)
    <3>1. l \in Locks /\ Empty \in LockStates /\ Share!Sets(l, Empty)
      BY <1>1, <1>4, <1>7 DEF Share!Construct, Empty
    <3>2. shares' \in [Mutexes -> Int] /\ raw' \in [Mutexes -> Int]
      BY <1>1, <1>4, <1>7 DEF Share!Construct, Empty
    <3>3. \A k : Owned(lk[l], k) = 0
      BY <1>7, <1>6 DEF Share!Construct, Empty
    <3>4. \A k : Owned(Empty, k) = 0
      BY <1>3
    <3>5. \A k \in Mutexes :
            shares'[k] - raw'[k] = shares[k] - raw[k] + Owned(Empty, k) - Owned(lk[l], k)
      BY <3>3, <3>4, <1>4, <1>7 DEF Share!Construct
    <3> QED
      BY <3>1, <3>2, <3>5
  <2> QED
    BY <2>1, SetsInv
<1>8. ASSUME NEW l \in Locks, NEW m \in Mutexes, Share!ConstructLocked(l, m) PROVE ShareInv'
  <2>2. PICK v \in LockStates : Share!Sets(l, v) /\ \A k : Owned(v, k) = IF m = k THEN 1 ELSE 0
    BY <1>2, <1>8 DEF Share!ConstructLocked
  <2>3. \A k : Owned(lk[l], k) = 0
    BY <1>6, <1>8 DEF Share!ConstructLocked
  <2>4. Turns(l, v)
    BY <2>2, <2>3, <1>4, <1>8 DEF Share!ConstructLocked
  <2> QED
    BY <2>4, SetsInv
<1>9. ASSUME NEW l \in Locks, NEW m \in Mutexes, Share!ConstructDeferred(l, m) PROVE ShareInv'
  <2>2. PICK v \in LockStates : Share!Sets(l, v) /\ \A k : Owned(v, k) = 0
    BY <1>2, <1>9 DEF Share!ConstructDeferred
  <2>3. \A k : Owned(lk[l], k) = 0
    BY <1>6, <1>9 DEF Share!ConstructDeferred
  <2>4. Turns(l, v)
    BY <2>2, <2>3, <1>4, <1>9 DEF Share!ConstructDeferred
  <2> QED
    BY <2>4, SetsInv
<1>10. ASSUME NEW l \in Locks, NEW m \in Mutexes, Share!ConstructAdopted(l, m) PROVE ShareInv'
  <2>2. PICK v \in LockStates : Share!Sets(l, v) /\ \A k : Owned(v, k) = IF m = k THEN 1 ELSE 0
    BY <1>2, <1>10 DEF Share!ConstructAdopted
  <2>3. \A k : Owned(lk[l], k) = 0
    BY <1>6, <1>10 DEF Share!ConstructAdopted
  <2>4. Turns(l, v)
    BY <2>2, <2>3, <1>4, <1>10 DEF Share!ConstructAdopted
  <2> QED
    BY <2>4, SetsInv
<1>11. ASSUME NEW l \in Locks, Share!Destroy(l) PROVE ShareInv'
  <2>1. Turns(l, Share!Absent)
    <3>1. /\ Share!Absent \in LockStates /\ Share!Sets(l, Share!Absent)
          /\ raw' = raw /\ Share!GivesBack(l)
      BY <1>1, <1>11 DEF Share!Destroy
    <3> QED
      BY <3>1, <1>3, <1>4, <1>5, OwnedInt, SMTT(30)
  <2> QED
    BY <2>1, SetsInv
<1>12. ASSUME NEW l \in Locks, Share!release(l) PROVE ShareInv'
  <2>0. Empty \in LockStates /\ Share!Sets(l, Empty)
    BY <1>1, <1>12 DEF Share!release, Empty
  <2>1. Turns(l, Empty)
    <3>1. CASE lk[l]._Owns
      <4>1. PICK n \in Mutexes : n = lk[l]._Pmtx
        BY <3>1, <1>4
      <4>2. raw' = [raw EXCEPT ![n] = @ + 1]
        BY <3>1, <4>1, <1>4, <1>12 DEF Share!release
      <4>3. \A m : Owned(lk[l], m) = IF n = m THEN 1 ELSE 0
        BY <3>1, <4>1 DEF Owned
      <4>4. raw' \in [Mutexes -> Int]
        BY <4>2, <1>4
      <4>5. \A k \in Mutexes :
              shares'[k] - raw'[k] = shares[k] - raw[k] + Owned(Empty, k) - Owned(lk[l], k)
        BY <4>2, <4>3, <1>3, <1>4, <1>12 DEF Share!release
      <4> QED
        BY <4>4, <4>5, <2>0, <1>4, <1>12 DEF Share!release
    <3>2. CASE ~lk[l]._Owns
      <4>1. \A k \in Mutexes :
              shares'[k] - raw'[k] = shares[k] - raw[k] + Owned(Empty, k) - Owned(lk[l], k)
        BY <3>2, <1>3, <1>4, <1>6, <1>12 DEF Share!release
      <4> QED
        BY <3>2, <4>1, <2>0, <1>4, <1>12 DEF Share!release
    <3> QED
      BY <3>1, <3>2
  <2> QED
    BY <2>1, SetsInv
<1>13. ASSUME NEW l \in Locks, Share!lock(l) PROVE ShareInv'
  <2>1. PICK n \in Mutexes : n = lk[l]._Pmtx
    BY <1>4, <1>13 DEF Share!lock, Share!_Validate
  <2>2. PICK v \in LockStates : Share!Sets(l, v) /\ \A k : Owned(v, k) = IF n = k THEN 1 ELSE 0
    BY <2>1, <1>2, <1>13 DEF Share!lock, Share!_Validate
  <2>3. \A k : Owned(lk[l], k) = 0
    BY <1>6, <1>13 DEF Share!lock, Share!_Validate
  <2>4. Turns(l, v)
    BY <2>1, <2>2, <2>3, <1>4, <1>13 DEF Share!lock, Share!_Validate
  <2> QED
    BY <2>4, SetsInv
<1>14. ASSUME NEW l \in Locks, Share!unlock(l) PROVE ShareInv'
  <2>1. PICK n \in Mutexes : n = lk[l]._Pmtx
    BY <1>4, <1>14 DEF Share!unlock
  <2>2. PICK v \in LockStates : Share!Sets(l, v) /\ \A k : Owned(v, k) = 0
    BY <2>1, <1>2, <1>14 DEF Share!unlock
  <2>3. /\ raw' = raw /\ shares' \in [Mutexes -> Int]
        /\ \A k \in Mutexes : shares'[k] = shares[k] - Owned(lk[l], k)
    BY <1>5, <1>14 DEF Share!unlock
  <2>4. Turns(l, v)
    BY <2>2, <2>3, <1>4, OwnedInt
  <2> QED
    BY <2>4, SetsInv
<1>15. CASE UNCHANGED Share!vars
  BY <1>15 DEF ShareInv, Share!LocksSound, Share!Owners, Share!vars
<1>16. ASSUME NEW l \in Locks, NEW r \in Locks, Share!MoveConstruct(l, r) PROVE ShareInv'
  <2>1. Pair(l, r, Empty)
    BY <1>1, <1>16 DEF Pair, Share!MoveConstruct, Empty
  <2>2. \A m \in Mutexes : shares'[m] = shares[m] + Owned(Empty, m) - Owned(lk[l], m)
    BY <1>3, <1>4, <1>6, <1>16 DEF Share!MoveConstruct
  <2> QED
    BY <2>1, <2>2, <1>1, <1>4, <1>16, PairInv DEF Share!MoveConstruct
<1>17. ASSUME NEW l \in Locks, NEW r \in Locks, Share!MoveAssign(l, r) PROVE ShareInv'
  <2>1. CASE l = r
    <3>1. Turns(l, Empty)
      <4>1. Empty \in LockStates /\ Share!Sets(l, Empty)
        BY <2>1, <1>1, <1>4, <1>17 DEF Share!MoveAssign, Empty, Share!Sets
      <4>2. \A k \in Mutexes :
              shares'[k] - raw'[k] = shares[k] - raw[k] + Owned(Empty, k) - Owned(lk[l], k)
        BY <1>3, <1>4, <1>5, <1>17, OwnedInt, SMTT(30) DEF Share!MoveAssign
      <4> QED
        BY <4>1, <4>2, <1>4, <1>5, <1>17 DEF Share!MoveAssign
    <3> QED
      BY <3>1, SetsInv
  <2>2. CASE l # r
    <3>1. Pair(l, r, Empty)
      BY <2>2, <1>1, <1>17 DEF Pair, Share!MoveAssign, Empty
    <3>2. \A m \in Mutexes : shares'[m] = shares[m] + Owned(Empty, m) - Owned(lk[l], m)
      BY <1>3, <1>4, <1>5, <1>17, SMTT(30) DEF Share!MoveAssign, Owned
    <3> QED
      BY <3>1, <3>2, <1>1, <1>4, <1>5, <1>17, PairInv DEF Share!MoveAssign
  <2> QED
    BY <2>1, <2>2
<1>18. ASSUME NEW l \in Locks, NEW r \in Locks, Share!swap(l, r) PROVE ShareInv'
  <2>1. CASE l = r
    <3>1. lk' = lk
      BY <2>1, <1>4, <1>18 DEF Share!swap
    <3> QED
      BY <3>1, <1>15, <1>18 DEF Share!swap, Share!vars
  <2>2. CASE l # r
    <3>1. Pair(l, r, lk[l])
      BY <2>2, <1>4, <1>18 DEF Pair, Share!swap
    <3>2. \A m \in Mutexes : shares'[m] = shares[m] + Owned(lk[l], m) - Owned(lk[l], m)
      BY <1>4, <1>18 DEF Share!swap, Owned
    <3> QED
      BY <3>1, <3>2, <1>4, <1>18, PairInv DEF Share!swap
  <2> QED
    BY <2>1, <2>2
<1>19. ASSUME NEW m \in Mutexes, Share!lock_shared(m) \/ Share!unlock_shared(m) PROVE ShareInv'
  <2>1. \A n : Share!Owners(n)' = Share!Owners(n)
    BY <1>19 DEF Share!lock_shared, Share!unlock_shared, Share!Owners
  <2>2. \A n \in Mutexes : Share!Cardinality(Share!Owners(n)) \in Int
    BY OwnersCount, SameCard
  <2> QED
    BY <2>1, <2>2, <1>4, <1>19 DEF ShareInv, Share!LocksSound, Share!lock_shared, Share!unlock_shared
<1> QED
  BY <1>7, <1>8, <1>9, <1>10, <1>11, <1>12, <1>13, <1>14, <1>15, <1>16, <1>17, <1>18, <1>19
     DEF Share!Next, Share!ConstructTried, Share!try_lock

\* shared_lock: every share of a mutex has one holder, through moves, swaps,
\* release and adoption, for any locks and mutexes.
THEOREM SharedLockCorrect ==
  ASSUME Share!SharedLockAssumption
  PROVE  Share!Spec => []Share!LocksSound
<1>1. Share!Init => ShareInv
  <2> SUFFICES ASSUME Share!Init PROVE ShareInv
    OBVIOUS
  <2>1. lk \in [Locks -> LockStates]
    BY DEF Share!Init, Share!Absent, LockStates
  <2>2. \A m : Share!Owners(m) = {}
    BY DEF Share!Init, Share!Absent, Share!Owners
  <2>3. Share!Cardinality({}) = 0
    BY FS_EmptySet, SameCard
  <2> QED
    BY <2>1, <2>2, <2>3 DEF Share!Init, ShareInv, Share!LocksSound
<1>2. ShareInv /\ [Share!Next]_Share!vars => ShareInv'
  <2>1. CASE Share!Next
    BY <2>1, ShareStep
  <2>2. CASE UNCHANGED Share!vars
    BY <2>2 DEF ShareInv, Share!LocksSound, Share!Owners, Share!vars
  <2> QED
    BY <2>1, <2>2
<1>3. ShareInv => Share!LocksSound
  BY DEF ShareInv
<1> QED
  BY <1>1, <1>2, <1>3, PTL DEF Share!Spec
=============================================================================
