------------------------------ MODULE PodVector ------------------------------
(***************************************************************************)
(* yasio::pod_vector, the buffer behind packets, streams and queues: two   *)
(* vectors, and every operation a caller may make on them, against the     *)
(* sequences they should hold.                                             *)
(***************************************************************************)
EXTENDS Cells

CONSTANTS Vecs,          \* the vectors
          Values,        \* elements
          MaxLen,        \* bound: length of a vector
          MaxRes,        \* bound: capacity that reserve may ask for
          OwnElements,   \* push_back of an element of a full vector to itself
          MinOverwrite,  \* least size for resize_and_overwrite
          AssignMoves    \* assign(pod_vector&&) of a vector that has storage

VARIABLES v,       \* the vectors
          holds,   \* what each should hold
          loose,   \* buffers that detach_abi gave to the caller
          leaked   \* blocks without an owner

vars == <<v, holds, loose, leaked>>

Init == /\ v = [i \in Vecs |-> Empty] /\ holds = [i \in Vecs |-> <<>>]
        /\ loose = <<>> /\ leaked = 0

Cap(x) == x.res
Eos(x, n) == [x EXCEPT !.size = n]

\* _Reallocate<_Exactly> and <_At_least>.
Exactly(x, n) == [Realloc(x, n) EXCEPT !.res = IF n = 0 /\ x.p # "null" THEN x.res ELSE n]
AtLeast(x, n) == LET c == Growth(Cap(x), n) IN [Realloc(x, c) EXCEPT !.res = c]

\* Mutant: a vector that is full by one is not enlarged.
ExpandLate(x, n) == IF Cap(x) + 1 < x.size + n THEN Eos(AtLeast(x, x.size + n), x.size + n)
                                               ELSE Eos(x, x.size + n)

Resize(x, n) == IF Cap(x) < n THEN Eos(Exactly(x, n), n) ELSE Eos(x, n)
Expand(x, n) == IF Cap(x) < x.size + n THEN Eos(AtLeast(x, x.size + n), x.size + n)
                                       ELSE Eos(x, x.size + n)
Tidy(x) == IF x.p = "null" THEN x ELSE [Empty EXCEPT !.bad = x.bad \/ x.p = "freed"]

\* emplace_back, with _Emplace_back_reallocate when there is no room.
EmplaceBack(x, e) == IF x.size < Cap(x) THEN Store(Eos(x, x.size + 1), x.size, <<e>>)
                     ELSE Store(Eos(AtLeast(x, x.size + 1), x.size + 1), x.size, <<e>>)
AppendFill(x, n, e) == IF n = 0 THEN x ELSE Fill(Expand(x, n), x.size, n, e)
AppendRange(x, s) == CASE Len(s) > 1 -> Store(Expand(x, Len(s)), x.size, s)
                       [] Len(s) = 1 -> EmplaceBack(x, s[1])
                       [] OTHER -> x

\* Mutant: one element too few makes room.
OpenShort(x, i, n) ==
  LET y == Expand(x, n) IN Store(y, i + n, Load(y, i, y.size - (i + n) - 1))

\* The elements from position i on move by n.
OpenGap(x, i, n) == LET y == Expand(x, n) IN Store(y, i + n, Load(y, i, y.size - (i + n)))

InsertRange(x, i, s) == IF s = <<>> THEN x
                        ELSE IF i = x.size THEN AppendRange(x, s)
                        ELSE Store(OpenGap(x, i, Len(s)), i, s)
InsertFill(x, i, n, e) == IF n = 0 THEN x
                          ELSE IF i = x.size THEN AppendFill(x, n, e)
                          ELSE Fill(OpenGap(x, i, n), i, n, e)
Emplace(x, i, e) == IF i = x.size THEN EmplaceBack(x, e)
                    ELSE Store(OpenGap(x, i, 1), i, <<e>>)
EraseRange(x, i, j) == Eos(Store(x, i, Load(x, j, x.size - j)), x.size - (j - i))
AssignRange(x, s) == IF s = <<>> THEN Eos(x, 0) ELSE Store(Resize(Eos(x, 0), Len(s)), 0, s)

-----------------------------------------------------------------------------
\* A vector and what it should hold, after an operation on it alone.
Put(i, x, s) == /\ Len(s) <= MaxLen
                /\ v' = [v EXCEPT ![i] = Tidied(x)] /\ holds' = [holds EXCEPT ![i] = s]
                /\ UNCHANGED <<loose, leaked>>
Short == UNION {[1..n -> Values] : n \in 0..2}
At(i) == 0..Len(holds[i])

PushBack(i, e) == Put(i, EmplaceBack(v[i], e), Append(holds[i], e))

\* The argument refers to an element; with a new block it refers to nothing.
PushOwn(i, k) ==
  /\ OwnElements \/ v[i].size < Cap(v[i])
  /\ \E e \in IF v[i].size < Cap(v[i]) THEN {v[i].mem[k]} ELSE {v[i].mem[k], U} :
       Put(i, EmplaceBack(v[i], e), Append(holds[i], holds[i][k]))
Appends(i, s) == Put(i, AppendRange(v[i], s), holds[i] \o s)
AppendsFill(i, n, e) == Put(i, AppendFill(v[i], n, e), holds[i] \o [k \in 1..n |-> e])
Inserts(i, k, s) == Put(i, InsertRange(v[i], k, s), Spliced(holds[i], k, 0, s))
InsertsFill(i, k, n, e) ==
  Put(i, InsertFill(v[i], k, n, e), Spliced(holds[i], k, 0, [j \in 1..n |-> e]))
Emplaces(i, k, e) == Put(i, Emplace(v[i], k, e), Spliced(holds[i], k, 0, <<e>>))
Erases(i, k) == k < v[i].size /\ Put(i, EraseRange(v[i], k, k + 1), Spliced(holds[i], k, 1, <<>>))
ErasesRange(i, k, j) ==
  k <= j /\ j <= v[i].size /\ Put(i, EraseRange(v[i], k, j), Spliced(holds[i], k, j - k, <<>>))
Resizes(i, n) == Put(i, Resize(v[i], n), [k \in 1..n |-> IF k <= v[i].size THEN holds[i][k] ELSE U])
ResizesFill(i, n, e) ==
  LET x == v[i]
      y == IF n = x.size THEN x
           ELSE IF x.size < n THEN Fill(Resize(x, n), x.size, n - x.size, e) ELSE Resize(x, n)
  IN Put(i, y, [k \in 1..n |-> IF k <= x.size THEN holds[i][k] ELSE e])
Expands(i, n) == Put(i, Expand(v[i], n), holds[i] \o Blank(n))
Shrinks(i) == /\ v[i].size # Cap(v[i])
              /\ Put(i, IF v[i].size = 0 THEN Tidy(v[i]) ELSE Exactly(v[i], v[i].size), holds[i])
Reserves(i, n) == n > Cap(v[i]) /\ Put(i, Exactly(v[i], n), holds[i])

\* The operation writes k of the n elements it is given room for.
Overwrites(i, n, k, e) ==
  /\ n >= MinOverwrite /\ k <= n
  /\ LET x == Exactly(v[i], n) IN
     IF x.p = "freed" THEN Put(i, x, holds[i])   \* bad_alloc
                      ELSE Put(i, Fill(Eos(x, k), 0, k, e), [j \in 1..k |-> e])
Resets(i, n) == Put(i, Fill(Resize(v[i], n), 0, n, 0), [k \in 1..n |-> 0])
Clears(i) == Put(i, Eos(v[i], 0), <<>>)
Removes(i, e) == LET keep(s) == SelectSeq(s, LAMBDA y : y # e) IN
                 /\ \A k \in DOMAIN holds[i] : holds[i][k] # U
                 /\ Put(i, LET c == keep(Contents(v[i])) IN Eos(Store(v[i], 0, c), Len(c)), keep(holds[i]))

\* insert_sorted: before the first larger element.
InsertsSorted(i, e) ==
  LET s == holds[i]
      k == Cardinality({j \in DOMAIN s : s[j] <= e})
  IN /\ \A j \in 1..(Len(s) - 1) : s[j] <= s[j + 1] /\ s[j + 1] # U
     /\ \A j \in DOMAIN s : s[j] # U
     /\ Put(i, Emplace(v[i], k, e), Spliced(s, k, 0, <<e>>))

\* Operations with another vector or with the caller.
AssignsCopy(i, j) == /\ i # j /\ Put(i, AssignRange(v[i], Contents(v[j])), holds[j])
Swaps(i, j) == /\ i # j /\ v' = [v EXCEPT ![i] = v[j], ![j] = v[i]]
               /\ holds' = [holds EXCEPT ![i] = holds[j], ![j] = holds[i]]
               /\ UNCHANGED <<loose, leaked>>

\* _Assign_rv copies the other vector's fields over this one's.
AssignsMove(i, j) ==
  /\ i # j /\ (AssignMoves \/ v[i].p = "null")
  /\ v' = [v EXCEPT ![i] = v[j], ![j] = Empty]
  /\ holds' = [holds EXCEPT ![i] = holds[j], ![j] = <<>>]
  /\ leaked' = leaked + (IF v[i].p = "live" THEN 1 ELSE 0)
  /\ UNCHANGED loose
Detaches(i) == /\ v[i].p = "live" /\ loose = <<>>
               /\ loose' = <<[mem |-> Contents(v[i]), holds |-> holds[i]]>>
               /\ v' = [v EXCEPT ![i] = Empty] /\ holds' = [holds EXCEPT ![i] = <<>>]
               /\ UNCHANGED leaked

\* Mutant: the storage there is not freed.
Dropped(x) == IF x.p = "live" THEN 1 ELSE 0

\* Blocks lost when attach_abi has called _Tidy.
AttachLoses(x) == IF Tidy(x).p = "live" THEN 1 ELSE 0

\* attach_abi: the capacity is the length given.
Attaches(i) == /\ loose # <<>> /\ loose' = <<>>
               /\ v' = [v EXCEPT ![i] = [Empty EXCEPT !.p = "live", !.mem = loose[1].mem,
                                           !.res = Len(loose[1].mem), !.size = Len(loose[1].mem)]]
               /\ holds' = [holds EXCEPT ![i] = loose[1].holds]
               /\ leaked' = leaked + AttachLoses(v[i])

Next ==
  \E i \in Vecs :
    \/ \E e \in Values : PushBack(i, e) \/ Removes(i, e) \/ InsertsSorted(i, e)
    \/ \E k \in DOMAIN holds[i] : PushOwn(i, k)
    \/ \E s \in Short : Appends(i, s) \/ \E k \in At(i) : Inserts(i, k, s)
    \/ \E n \in 0..2, e \in Values : AppendsFill(i, n, e) \/ \E k \in At(i) : InsertsFill(i, k, n, e)
    \/ \E k \in At(i), e \in Values : Emplaces(i, k, e)
    \/ \E k \in At(i) : Erases(i, k) \/ \E j \in At(i) : ErasesRange(i, k, j)
    \/ \E n \in 0..MaxLen : Resizes(i, n) \/ Resets(i, n) \/ \E e \in Values : ResizesFill(i, n, e)
    \/ \E n \in 1..2 : Expands(i, n)
    \/ Shrinks(i) \/ Clears(i) \/ Detaches(i) \/ Attaches(i)
    \/ \E n \in 1..MaxRes : Reserves(i, n)
    \/ \E n, k \in 0..2, e \in Values : Overwrites(i, n, k, e)
    \/ \E j \in Vecs : AssignsCopy(i, j) \/ Swaps(i, j) \/ AssignsMove(i, j)

Spec == Init /\ [][Next]_vars

-----------------------------------------------------------------------------
\* Every vector holds what std::vector would after the same calls, except for
\* elements that resize and expand leave to the caller.
Matches == \A i \in Vecs : v[i].p # "freed" => Agrees(Contents(v[i]), holds[i])

\* No vector touches memory outside its block or owns a block that was freed.
Sound == \A i \in Vecs : ~v[i].bad /\ v[i].p # "freed" /\ v[i].size <= Len(v[i].mem)

\* Every block has an owner: a vector, or the caller of detach_abi.
NothingLeaked == leaked = 0
=============================================================================
