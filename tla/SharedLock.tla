------------------------------ MODULE SharedLock ------------------------------
(***************************************************************************)
(* cxx17::shared_lock: an object that owns at most one share of a mutex,   *)
(* which its owner may move, swap, release and adopt.  The mutex counts    *)
(* its shares; SharedMutex shows that it may.                              *)
(***************************************************************************)
EXTENDS Integers, FiniteSets

CONSTANTS Locks, Mutexes,
          none,         \* a null _Pmtx
          MaxShares     \* the most shares held by hand, outside a shared_lock

SharedLockAssumption == IsFiniteSet(Locks) /\ none \notin Mutexes

VARIABLES lk,      \* each lock: constructed or not, _Pmtx, _Owns
          shares,  \* of each mutex: shares taken and not given back
          raw      \* of each mutex: those held by hand
vars == <<lk, shares, raw>>

Lock(p, o) == [here |-> TRUE, _Pmtx |-> p, _Owns |-> o]
Absent == [here |-> FALSE, _Pmtx |-> none, _Owns |-> FALSE]
Init == /\ lk = [l \in Locks |-> Absent]
        /\ shares = [m \in Mutexes |-> 0] /\ raw = [m \in Mutexes |-> 0]

Sets(l, v) == lk' = [lk EXCEPT ![l] = v]
Shares(m, d) == shares' = [shares EXCEPT ![m] = @ + d]
Raw(m, d) == raw' = [raw EXCEPT ![m] = @ + d]

(***************************************************************************)
(* Constructors and the destructor                                         *)
(***************************************************************************)
Construct(l) == ~lk[l].here /\ Sets(l, Lock(none, FALSE)) /\ UNCHANGED <<shares, raw>>
ConstructLocked(l, m) == ~lk[l].here /\ Sets(l, Lock(m, TRUE)) /\ Shares(m, 1) /\ UNCHANGED raw
ConstructDeferred(l, m) == ~lk[l].here /\ Sets(l, Lock(m, FALSE)) /\ UNCHANGED <<shares, raw>>
\* A writer, or too many readers, may make it fail.
ConstructTried(l, m) == ConstructLocked(l, m) \/ ConstructDeferred(l, m)
ConstructAdopted(l, m) == /\ ~lk[l].here /\ raw[m] > 0
                          /\ Sets(l, Lock(m, TRUE)) /\ Raw(m, -1) /\ UNCHANGED shares

GivesBack(l) == IF lk[l]._Owns THEN Shares(lk[l]._Pmtx, -1) ELSE UNCHANGED shares
Destroy(l) == lk[l].here /\ Sets(l, Absent) /\ GivesBack(l) /\ UNCHANGED raw

(***************************************************************************)
(* Moves, swap and release                                                 *)
(***************************************************************************)
MoveConstruct(l, r) ==
  /\ ~lk[l].here /\ lk[r].here
  /\ lk' = [lk EXCEPT ![l] = lk[r], ![r] = Lock(none, FALSE)]
  /\ UNCHANGED <<shares, raw>>

\* The form that forgets what it owns.
MoveOver(l, r) ==
  /\ lk[l].here /\ lk[r].here
  /\ lk' = [lk EXCEPT ![l] = lk[r], ![r] = Lock(none, FALSE)]
  /\ UNCHANGED <<shares, raw>>
\* l and r may be one lock: it then gives its share back and ends empty.
MoveAssign(l, r) ==
  /\ lk[l].here /\ lk[r].here
  /\ GivesBack(l)
  /\ lk' = [lk EXCEPT ![l] = lk[r], ![r] = Lock(none, FALSE)]
  /\ UNCHANGED raw

swap(l, r) == /\ lk[l].here /\ lk[r].here
              /\ lk' = [lk EXCEPT ![l] = lk[r], ![r] = lk[l]]
              /\ UNCHANGED <<shares, raw>>
\* The share, if it owned one, is the caller's from here on.
release(l) == /\ lk[l].here /\ Sets(l, Lock(none, FALSE))
              /\ IF lk[l]._Owns THEN raw[lk[l]._Pmtx] < MaxShares /\ Raw(lk[l]._Pmtx, 1)
                 ELSE UNCHANGED raw
              /\ UNCHANGED shares

(***************************************************************************)
(* lock, try_lock, unlock; otherwise they throw and change nothing         *)
(***************************************************************************)
_Validate(l) == lk[l]._Pmtx # none /\ ~lk[l]._Owns
lock(l) == /\ lk[l].here /\ _Validate(l)
           /\ Shares(lk[l]._Pmtx, 1) /\ Sets(l, Lock(lk[l]._Pmtx, TRUE)) /\ UNCHANGED raw
try_lock(l) == \/ lock(l)
               \/ lk[l].here /\ _Validate(l) /\ UNCHANGED vars
unlock(l) == /\ lk[l].here /\ lk[l]._Pmtx # none /\ lk[l]._Owns
             /\ GivesBack(l) /\ Sets(l, Lock(lk[l]._Pmtx, FALSE)) /\ UNCHANGED raw

\* The holder of a share by hand takes and gives back, as the code may on the mutex itself.
lock_shared(m) == raw[m] < MaxShares /\ Raw(m, 1) /\ Shares(m, 1) /\ UNCHANGED lk
unlock_shared(m) == raw[m] > 0 /\ Raw(m, -1) /\ Shares(m, -1) /\ UNCHANGED lk

Next == \/ \E l \in Locks : \/ Construct(l) \/ Destroy(l) \/ release(l)
                            \/ lock(l) \/ try_lock(l) \/ unlock(l)
        \/ \E l \in Locks, m \in Mutexes : \/ ConstructLocked(l, m) \/ ConstructDeferred(l, m)
                                           \/ ConstructTried(l, m) \/ ConstructAdopted(l, m)
        \/ \E l, r \in Locks : MoveConstruct(l, r) \/ MoveAssign(l, r) \/ swap(l, r)
        \/ \E m \in Mutexes : lock_shared(m) \/ unlock_shared(m)
Spec == Init /\ [][Next]_vars

(***************************************************************************)
(* Properties.                                                             *)
(***************************************************************************)
\* Every share of a mutex has one holder: a lock that owns it or a caller who
\* took it by hand.  None is given back twice, or never.
Owners(m) == {l \in Locks : lk[l]._Owns /\ lk[l]._Pmtx = m}
LocksSound == \A m \in Mutexes : shares[m] = raw[m] + Cardinality(Owners(m))
=============================================================================
