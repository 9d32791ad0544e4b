------------------------------- MODULE Singleton -------------------------------
(***************************************************************************)
(* yasio::singleton: instance and instance1 over double-checked locking,   *)
(* destroy and peek.  One step is one access of __single__ or __mutex__.   *)
(***************************************************************************)
EXTENDS Integers, FiniteSets

CONSTANTS Threads,
          MaxObjects,  \* the last object neither throws nor is destroyed
          none,       \* a null pointer
          Destroys    \* whether destroy is called while others use the instance

SingletonAssumption == none \notin Threads /\ none \notin Nat \ {0}

VARIABLES __single__,  \* the atomic pointer
          __mutex__,   \* its holder
          pc, mine,    \* where each thread is, and the pointer it works on
          made,        \* objects made so far
          ready,       \* those that are constructed and, delayed, initialised
          gone,        \* those that are deleted
          deletes      \* how often delete was called
vars == <<__single__, __mutex__, pc, mine, made, ready, gone, deletes>>

Init == /\ __single__ = none /\ __mutex__ = none
        /\ pc = [t \in Threads |-> "out"] /\ mine = [t \in Threads |-> none]
        /\ made = 0 /\ ready = {} /\ gone = {} /\ deletes = 0

Goes(t, p) == pc' = [pc EXCEPT ![t] = p]
Takes(t, o) == mine' = [mine EXCEPT ![t] = o]

(***************************************************************************)
(* get_instance                                                            *)
(***************************************************************************)
instance(t) == /\ pc[t] = "out" /\ Goes(t, "load") /\ Takes(t, none)
               /\ UNCHANGED <<__single__, __mutex__, made, ready, gone, deletes>>
Loads(t) == /\ pc[t] = "load"
            /\ Goes(t, IF __single__ # none THEN "result" ELSE "lock")
            /\ UNCHANGED <<__single__, __mutex__, mine, made, ready, gone, deletes>>
Acquires(t) == /\ pc[t] = "lock" /\ __mutex__ = none /\ __mutex__' = t
               /\ Goes(t, "again")
               /\ UNCHANGED <<__single__, mine, made, ready, gone, deletes>>

\* The form that trusts the first look.
LoadsOnce(t) == /\ pc[t] = "again"
                /\ Goes(t, "construct") /\ made' = made + 1 /\ Takes(t, made + 1)
                /\ UNCHANGED <<__single__, __mutex__, ready, gone, deletes>>
LoadsAgain(t) ==
  /\ pc[t] = "again"
  /\ \/ __single__ # none /\ Goes(t, "unlock") /\ UNCHANGED <<mine, made>>
     \/ /\ __single__ = none
        /\ Goes(t, "construct") /\ made' = made + 1 /\ Takes(t, made + 1)
  /\ UNCHANGED <<__single__, __mutex__, ready, gone, deletes>>

\* The form that publishes the object before delay_init.
StoresFirst(t) == /\ pc[t] = "construct" /\ __single__' = mine[t] /\ Goes(t, "store")
                  /\ UNCHANGED <<__mutex__, mine, made, ready, gone, deletes>>
\* The constructor and, for instance1, the member function that initialises.
construct(t) == /\ pc[t] = "construct" /\ ready' = ready \cup {mine[t]} /\ Goes(t, "store")
                /\ UNCHANGED <<__single__, __mutex__, mine, made, gone, deletes>>
\* One of the two throws: the lock is left, nothing is stored, the caller gets the exception.
Throws(t) == /\ pc[t] = "construct" /\ made < MaxObjects
             /\ __mutex__' = none /\ Goes(t, "out") /\ Takes(t, none)
             /\ UNCHANGED <<__single__, made, ready, gone, deletes>>
Stores(t) == /\ pc[t] = "store" /\ __single__' = mine[t] /\ Goes(t, "unlock")
             /\ UNCHANGED <<__mutex__, mine, made, ready, gone, deletes>>
\* The form that leaves the mutex held.
LeavesHeld(t) == /\ pc[t] = "unlock" /\ Goes(t, "result")
                 /\ UNCHANGED <<__single__, __mutex__, mine, made, ready, gone, deletes>>
Unlocks(t) == /\ pc[t] = "unlock" /\ __mutex__' = none /\ Goes(t, "result")
              /\ UNCHANGED <<__single__, mine, made, ready, gone, deletes>>
\* return inst: the pointer is read once more.
Returns(t) == /\ pc[t] = "result" /\ Takes(t, __single__) /\ Goes(t, "has")
              /\ UNCHANGED <<__single__, __mutex__, made, ready, gone, deletes>>
\* The caller is done with it.
Drops(t) == /\ pc[t] = "has" /\ Goes(t, "out") /\ Takes(t, none)
            /\ UNCHANGED <<__single__, __mutex__, made, ready, gone, deletes>>

(***************************************************************************)
(* destroy: the exchange, and then delete                                  *)
(***************************************************************************)
\* The form that reads the pointer and does not reset it.
ReadsOnly(t) == /\ Destroys /\ pc[t] = "out"
                /\ Takes(t, __single__)
                /\ Goes(t, IF __single__ = none THEN "out" ELSE "delete")
                /\ UNCHANGED <<__single__, __mutex__, made, ready, gone, deletes>>
Exchanges(t) == /\ Destroys /\ pc[t] = "out" /\ made < MaxObjects
                /\ __single__' = none /\ Takes(t, __single__)
                /\ Goes(t, IF __single__ = none THEN "out" ELSE "delete")
                /\ UNCHANGED <<__mutex__, made, ready, gone, deletes>>
Deletes(t) == /\ pc[t] = "delete" /\ gone' = gone \cup {mine[t]} /\ deletes' = deletes + 1
              /\ Goes(t, "out") /\ Takes(t, none)
              /\ UNCHANGED <<__single__, __mutex__, made, ready>>

Runs(t) == \/ Loads(t) \/ Acquires(t) \/ LoadsAgain(t) \/ construct(t)
           \/ Stores(t) \/ Unlocks(t) \/ Returns(t) \/ Deletes(t)
Next == \E t \in Threads : instance(t) \/ Runs(t) \/ Throws(t) \/ Drops(t) \/ Exchanges(t)
Spec == Init /\ [][Next]_vars
\* Threads run.  The mutex need not be fair: once an object is published nobody
\* waits for it any more.
FairSpec == Spec /\ \A t \in Threads : WF_vars(Runs(t))

(***************************************************************************)
(* Properties.                                                             *)
(***************************************************************************)
\* Whoever has the instance has the only one: no two threads that raced to be
\* first go on with objects of their own.  (Without destroy.)
OneInstance == \A t, u \in Threads :
  pc[t] = "has" /\ pc[u] = "has" => mine[t] = mine[u] /\ mine[t] # none

\* A published object is complete and alive: a thread that takes the short way,
\* without the mutex, finds it initialised, and destroy takes the pointer back
\* before it deletes.
PublishedWhole == __single__ # none => __single__ \in ready \ gone

\* Each object is deleted once, whoever calls destroy at the same time.
DeletedOnce == deletes = Cardinality(gone)

\* All of it.
LocksSound == (~Destroys => OneInstance) /\ PublishedWhole /\ DeletedOnce

\* A caller gets the instance or the exception of its construction.
Called(t) == pc[t] = "load"
Answered(t) == pc[t] \in {"has", "out"}
Returned == \A t \in Threads : Called(t) ~> Answered(t)

\* instance() returns an object: the pointer it found, or has just stored, is
\* the one it returns.
ReturnsObject == \A t \in Threads : pc[t] = "has" => mine[t] # none
=============================================================================
