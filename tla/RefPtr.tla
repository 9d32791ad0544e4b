-------------------------------- MODULE RefPtr --------------------------------
(***************************************************************************)
(* yasio::ref_ptr over objects that count their references.  An object may *)
(* itself keep a ref_ptr to another one and gives it up when it is         *)
(* deleted.                                                                *)
(***************************************************************************)
EXTENDS Integers, FiniteSets

CONSTANTS Ptrs, Objects,
          none,
          Same,     \* whether a ref_ptr is assigned to another of the same object
          Last,     \* whether a ref_ptr is assigned the one its own object keeps
                    \* when it is the last to hold that object
          MaxRaw    \* bound: references to an object held through plain pointers

VARIABLES ptr_,     \* each ref_ptr: its object, none or "absent"
          refs,     \* __strong_refs of each object made
          state,    \* each object: "new", "alive" or "deleted"
          inner,    \* the ref_ptr inside each object
          raw,      \* references held through plain pointers, after release()
          touched   \* a deleted object was asked to retain or to release
vars == <<ptr_, refs, state, inner, raw, touched>>

Init == /\ ptr_ = [p \in Ptrs |-> "absent"]
        /\ refs = [o \in Objects |-> 0] /\ state = [o \in Objects |-> "new"]
        /\ inner = [o \in Objects |-> none] /\ raw = [o \in Objects |-> 0]
        /\ touched = FALSE

(***************************************************************************)
(* retain and release, as functions of the counts; a delete releases what  *)
(* the object keeps                                                        *)
(***************************************************************************)
Heap == [refs |-> refs, state |-> state, inner |-> inner, touched |-> touched]
Becomes(h) == /\ refs' = h.refs /\ state' = h.state
              /\ inner' = h.inner /\ touched' = h.touched
\* YASIO__SAFE_RETAIN
Retained(h, o) ==
  IF o = none THEN h
  ELSE [h EXCEPT !.refs[o] = @ + 1, !.touched = @ \/ h.state[o] # "alive"]
\* The form that deletes one reference late.
Decremented_late(h, o) ==
  LET r == [h EXCEPT !.refs[o] = @ - 1, !.touched = @ \/ h.state[o] # "alive"] IN
  IF h.refs[o] # 0 THEN r ELSE [r EXCEPT !.state[o] = "deleted", !.inner[o] = none]
Decremented(h, o) ==
  LET r == [h EXCEPT !.refs[o] = @ - 1, !.touched = @ \/ h.state[o] # "alive"] IN
  IF h.refs[o] # 1 THEN r ELSE [r EXCEPT !.state[o] = "deleted", !.inner[o] = none]
\* YASIO__SAFE_RELEASE; the chain of deletes is no longer than there are objects.
Released(h0, o0) ==
  LET Rel[n \in 0 .. Cardinality(Objects)] ==
        IF n = 0 THEN [h |-> h0, o |-> o0]
        ELSE LET s == Rel[n - 1] IN
             IF s.o = none THEN s
             ELSE LET d == Decremented(s.h, s.o) IN
                  [h |-> d, o |-> IF d.state[s.o] = "deleted" /\ s.h.state[s.o] = "alive"
                                  THEN s.h.inner[s.o] ELSE none]
  IN Rel[Cardinality(Objects)].h

Points(p, o) == ptr_' = [ptr_ EXCEPT ![p] = o]
Here(p) == ptr_[p] # "absent"

(***************************************************************************)
(* Constructors and the destructor                                         *)
(***************************************************************************)
\* From an object just made, whose count is one.
Construct(p, o) == /\ ~Here(p) /\ state[o] = "new" /\ Points(p, o)
                   /\ refs' = [refs EXCEPT ![o] = 1] /\ state' = [state EXCEPT ![o] = "alive"]
                   /\ UNCHANGED <<inner, raw, touched>>
ConstructNull(p) == ~Here(p) /\ Points(p, none) /\ UNCHANGED <<refs, state, inner, raw, touched>>
\* From a plain pointer with own_ref_t, the caller keeping its reference.
ConstructOwn(p, o) == /\ ~Here(p) /\ raw[o] > 0 /\ Points(p, o)
                      /\ Becomes(Retained(Heap, o)) /\ UNCHANGED raw
ConstructCopy(p, r) == /\ ~Here(p) /\ Here(r) /\ Points(p, ptr_[r])
                       /\ Becomes(Retained(Heap, ptr_[r])) /\ UNCHANGED raw
ConstructMove(p, r) == /\ ~Here(p) /\ Here(r)
                       /\ ptr_' = [ptr_ EXCEPT ![p] = ptr_[r], ![r] = none]
                       /\ UNCHANGED <<refs, state, inner, raw, touched>>
Destroy(p) == /\ Here(p) /\ Points(p, "absent")
              /\ Becomes(Released(Heap, ptr_[p])) /\ UNCHANGED raw

(***************************************************************************)
(* Assignment, reset and release                                           *)
(***************************************************************************)
\* reset: the counts after it.
Reset(h, p, o) == IF ptr_[p] # o THEN Released(h, ptr_[p]) ELSE h
\* The form without the retain.
AssignCopies(p, r) == /\ Here(p) /\ Here(r) /\ p # r /\ Points(p, ptr_[r])
                      /\ Becomes(Reset(Heap, p, ptr_[r])) /\ UNCHANGED raw
Distinct(p, r) == Same \/ ptr_[p] # ptr_[r] \/ ptr_[p] = none
Assign(p, r) == /\ Here(p) /\ Here(r) /\ p # r /\ Distinct(p, r)
                /\ Points(p, ptr_[r])
                /\ Becomes(Retained(Reset(Heap, p, ptr_[r]), ptr_[r])) /\ UNCHANGED raw
\* Moving a ref_ptr to itself empties it first, then stores the pointer again.
AssignMove(p, r) == /\ Here(p) /\ Here(r) /\ (p = r \/ Distinct(p, r))
                    /\ IF p = r THEN UNCHANGED <<ptr_, refs, state, inner, touched>>
                       ELSE /\ ptr_' = [ptr_ EXCEPT ![p] = ptr_[r], ![r] = none]
                            /\ Becomes(Reset(Heap, p, ptr_[r]))
                    /\ UNCHANGED raw
\* p = p->inner: reset has released, and perhaps deleted, the object that keeps
\* the pointer before the pointer is retained.
AssignInner(p) ==
  LET o == ptr_[p] IN
  /\ Here(p) /\ o # none /\ state[o] = "alive" /\ (Last \/ refs[o] > 1)
  /\ Points(p, inner[o]) /\ Becomes(Retained(Reset(Heap, p, inner[o]), inner[o]))
  /\ UNCHANGED raw
AssignNull(p) == /\ Here(p) /\ Points(p, none)
                 /\ Becomes(Reset(Heap, p, none)) /\ UNCHANGED raw
\* The count goes to the caller of release(), who gives it back by hand.
release(p) == /\ Here(p) /\ ptr_[p] # none /\ Points(p, none)
              /\ raw[ptr_[p]] < MaxRaw /\ raw' = [raw EXCEPT ![ptr_[p]] = @ + 1]
              /\ UNCHANGED <<refs, state, inner, touched>>
RawRelease(o) == /\ raw[o] > 0 /\ raw' = [raw EXCEPT ![o] = @ - 1]
                 /\ Becomes(Released(Heap, o)) /\ UNCHANGED ptr_
\* An object stores a copy of a ref_ptr in its own, which is still null.
Keeps(o, r) == /\ state[o] = "alive" /\ inner[o] = none
               /\ Here(r) /\ ptr_[r] \notin {none, o}
               /\ inner[ptr_[r]] = none   \* chains, no cycles
               /\ \A x \in Objects : inner[x] # o
               /\ Becomes([Retained(Heap, ptr_[r]) EXCEPT !.inner[o] = ptr_[r]])
               /\ UNCHANGED <<ptr_, raw>>

Next == \/ \E p \in Ptrs : ConstructNull(p) \/ Destroy(p) \/ AssignNull(p) \/ release(p) \/ AssignInner(p)
        \/ \E p \in Ptrs, o \in Objects : Construct(p, o) \/ ConstructOwn(p, o)
        \/ \E p, r \in Ptrs : \/ ConstructCopy(p, r) \/ ConstructMove(p, r)
                              \/ Assign(p, r) \/ AssignMove(p, r)
        \/ \E o \in Objects : RawRelease(o) \/ \E r \in Ptrs : Keeps(o, r)
Spec == Init /\ [][Next]_vars

(***************************************************************************)
(* Properties.                                                             *)
(***************************************************************************)
Holders(o) == {p \in Ptrs : ptr_[p] = o}
Keepers(o) == {x \in Objects : inner[x] = o}
\* The count of an object that is alive is the number of its holders, and an
\* object nobody holds is deleted: nothing is leaked or deleted early.
Counted == \A o \in Objects :
  state[o] = "alive" => /\ refs[o] = Cardinality(Holders(o)) + Cardinality(Keepers(o)) + raw[o]
                        /\ refs[o] > 0
\* No ref_ptr is left with an object that was deleted, and no deleted object is used.
NoneDangles == /\ ~touched
               /\ \A p \in Ptrs : ptr_[p] \in Objects => state[ptr_[p]] = "alive"
=============================================================================
