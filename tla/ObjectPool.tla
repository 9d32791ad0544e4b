------------------------------ MODULE ObjectPool ------------------------------
(***************************************************************************)
(* yasio::object_pool: cells in chunks, the free ones linked through their *)
(* first word.  The free list begins at first_ and goes through the chunks *)
(* in any order; every operation is done under mutex_.                     *)
(***************************************************************************)
EXTENDS Integers, SequencesExt, FiniteSets

CONSTANTS element_count_,  \* cells in a chunk
          MaxChunks        \* bound: chunks ever taken from the process heap

PoolAssumption == element_count_ \in Nat \ {0} /\ MaxChunks \in Nat

VARIABLES chunk_,   \* the chunks, newest first
          next,     \* the first word of every cell of them
          first_,   \* head of the free list
          held,     \* cells in the hands of callers
          leaked,   \* cells whose constructor threw in create
          taken     \* chunks taken from the process heap so far
vars == <<chunk_, next, first_, held, leaked, taken>>

null == <<0, 0>>
Cells(c) == {<<c, i>> : i \in 1 .. element_count_}
All == UNION {Cells(c) : c \in ToSet(chunk_)}

(***************************************************************************)
(* The links of a fresh chunk, and of all of them one after the other      *)
(***************************************************************************)
\* tidy_chunk links each cell to the one after it; the last is left to the caller.
tidy_chunk(c, i) == IF i < element_count_ THEN <<c, i + 1>> ELSE null
Fresh(c) == [x \in Cells(c) |-> tidy_chunk(c, x[2])]
\* The form that leaves every chunk's last link null.
FollowsNone(k) == null
\* The last cell of the k-th chunk: to the first of the next chunk.
Follows(k) == IF k < Len(chunk_) THEN <<chunk_[k + 1], 1>> ELSE null

Init == \* The constructor that preallocates, or the one that does not.
  \/ /\ chunk_ = <<1>> /\ next = Fresh(1) /\ first_ = <<1, 1>> /\ taken = 1
     /\ held = {} /\ leaked = {}
  \/ /\ chunk_ = <<>> /\ next = <<>> /\ first_ = null /\ taken = 0
     /\ held = {} /\ leaked = {}

(***************************************************************************)
(* get and release                                                         *)
(***************************************************************************)
Holds(x) == held' = held \cup {x} /\ UNCHANGED leaked
\* Placement new: the cell is not given back when the constructor throws.
Throws(x) == leaked' = leaked \cup {x} /\ UNCHANGED held
Gives(x, throws) == IF throws THEN Throws(x) ELSE Holds(x)

\* The words of a cell that is handed out are the caller's.
allocate_from_process_heap(throws) ==
  LET c == taken + 1 IN
  /\ first_ = null /\ taken < MaxChunks /\ taken' = c
  /\ chunk_' = <<c>> \o chunk_
  /\ next' = [x \in DOMAIN next \cup Cells(c) |->
               IF x = <<c, 1>> THEN null ELSE IF x[1] = c THEN Fresh(c)[x] ELSE next[x]]
  /\ first_' = Fresh(c)[<<c, 1>>] /\ Gives(<<c, 1>>, throws)
allocate_from_chunk(throws) ==
  /\ first_ # null /\ first_' = next[first_] /\ Gives(first_, throws)
  /\ next' = [next EXCEPT ![first_] = null] /\ UNCHANGED <<chunk_, taken>>
get(throws) == allocate_from_chunk(throws) \/ allocate_from_process_heap(throws)

allocate == get(FALSE)
create == get(FALSE) \/ get(TRUE)

\* The form that does not link the rest behind the cell.
release_drops(x) == /\ first_' = x /\ next' = [next EXCEPT ![x] = null]
release(x) == /\ next' = [next EXCEPT ![x] = first_] /\ first_' = x
deallocate(x) == /\ x \in held /\ held' = held \ {x} /\ release(x)
                 /\ UNCHANGED <<chunk_, leaked, taken>>

(***************************************************************************)
(* purge gives every chunk back; cleanup makes every cell free again       *)
(***************************************************************************)
purge == /\ chunk_ # <<>>
         /\ chunk_' = <<>> /\ next' = <<>> /\ first_' = null /\ held' = {} /\ leaked' = {}
         /\ UNCHANGED taken
cleanup == /\ chunk_ # <<>>
           /\ next' = [x \in DOMAIN next |->
                        IF x[2] < element_count_ THEN tidy_chunk(x[1], x[2])
                        ELSE Follows(CHOOSE k \in 1 .. Len(chunk_) : chunk_[k] = x[1])]
           /\ first_' = <<chunk_[1], 1>> /\ held' = {} /\ leaked' = {}
           /\ UNCHANGED <<chunk_, taken>>

Next == allocate \/ create \/ (\E x \in held : deallocate(x)) \/ purge \/ cleanup
Spec == Init /\ [][Next]_vars

(***************************************************************************)
(* Properties.                                                             *)
(***************************************************************************)
\* The first n cells of the free list.
Walk[n \in 0 .. MaxChunks * element_count_] ==
  IF n = 0 THEN <<>>
  ELSE LET w == Walk[n - 1]
           x == IF w = <<>> THEN first_ ELSE IF Last(w) \in DOMAIN next THEN next[Last(w)] ELSE null
       IN IF Len(w) < n - 1 \/ x = null THEN w ELSE Append(w, x)
FreeList == Walk[MaxChunks * element_count_]

\* Every cell of the pool has exactly one place: the free list, which passes
\* each cell once and ends, the callers, or a constructor that threw.  So get
\* never hands out a cell that is in use or that was given back to the heap,
\* and no cell is lost by a release, a cleanup or a purge.
Partition == LET f == FreeList IN
  /\ Len(f) = Cardinality(ToSet(f)) /\ ToSet(f) \cap (held \cup leaked) = {}
  /\ ToSet(f) \cup held \cup leaked = All
  /\ held \cap leaked = {}

\* The heap is asked for a chunk only when every cell is in use.
GrowsFull == Len(chunk_') > Len(chunk_) => All = held \cup leaked
GrowsWhenFull == [][GrowsFull]_vars
=============================================================================
