-------------------------------- MODULE Cells --------------------------------
(***************************************************************************)
(* Blocks of memory as yasio's containers use them: a block is a sequence  *)
(* of cells, U is a cell that was never written, and realloc keeps what    *)
(* fits.  A container is a record; `bad' remembers that it touched memory  *)
(* it does not have.                                                       *)
(***************************************************************************)
EXTENDS Integers, SequencesExt, FiniteSetsExt

U == 9
Blank(n) == [k \in 1..n |-> U]

\* p: "null", "live" or "freed"; mem: the block; res: _Myres; size: _Mysize.
Empty == [p |-> "null", mem |-> <<>>, res |-> 0, size |-> 0, bad |-> FALSE]

\* std::copy_n and std::fill_n to the cells behind the first `at'.
Store(v, at, s) ==
  IF s = <<>> THEN v
  ELSE IF at + Len(s) > Len(v.mem) THEN [v EXCEPT !.bad = TRUE]
  ELSE [v EXCEPT !.mem = [k \in DOMAIN v.mem |->
                            IF k \in (at + 1)..(at + Len(s)) THEN s[k - at] ELSE v.mem[k]]]
Fill(v, at, n, x) == Store(v, at, [k \in 1..n |-> x])

\* n cells behind the first `from', as a copy of overlapping ranges of a
\* trivially copyable type (memmove) sees them.
Load(v, from, n) == [k \in 1..n |-> IF from + k <= Len(v.mem) THEN v.mem[from + k] ELSE U]

\* realloc: to n > 0 cells, or to none, which frees the block and returns
\* NULL: the container still has the old pointer when it throws bad_alloc.
Realloc(v, n) ==
  IF n = 0 THEN [v EXCEPT !.p = IF @ = "null" THEN "live" ELSE "freed", !.mem = <<>>]
  ELSE [v EXCEPT !.p = "live", !.mem = Load(v, 0, n)]

\* _Calculate_growth: by a half, or to what is needed.
Growth(cap, n) == Max({cap + cap \div 2, n})

Contents(v) == SubSeq(v.mem, 1, v.size)

\* Cells behind the contents hold nothing that a caller may rely on.
Tidied(v) == [v EXCEPT !.mem = [k \in DOMAIN v.mem |-> IF k <= v.size THEN v.mem[k] ELSE U]]

\* What the container should hold, with U for a cell left to the caller.
Agrees(s, t) == Len(s) = Len(t) /\ \A i \in DOMAIN t : t[i] = U \/ s[i] = t[i]

Spliced(s, i, n, t) == SubSeq(s, 1, i) \o t \o SubSeq(s, i + n + 1, Len(s))
=============================================================================
