------------------------------- MODULE YString -------------------------------
(***************************************************************************)
(* yasio::basic_string: a block of _Myres characters in which the string   *)
(* and the character 0 behind it must find room.  The operations of one    *)
(* string are checked against the sequence it should hold.                 *)
(*                                                                         *)
(* An allocator rounds a block up, so a character just behind the block is *)
(* padding: writing it is wrong (`bad'), and has no effect on the string.  *)
(***************************************************************************)
EXTENDS Cells

CONSTANTS Chars,     \* characters; 0 is the terminator
          MaxLen,    \* bound: length of the string
          Overlaps   \* copy (memcpy) between overlapping ranges garbles them

VARIABLES s,       \* the string; blk: characters asked of the allocator
          holds,   \* what it should hold
          cut      \* erase, clear, assign or attach_abi left the end unmarked

vars == <<s, holds, cut>>

Null == [p |-> "null", mem |-> <<>>, res |-> 0, size |-> 0, bad |-> FALSE, blk |-> 0]
Init == s = Null /\ holds = <<>> /\ cut = FALSE

\* Mutant: the end is not marked.
NoMark(x, n) == x

\* The terminator, at index n of the block.
Mark(x, n) == IF x.p = "null" THEN [x EXCEPT !.bad = TRUE]
              ELSE [Store(x, n, <<0>>) EXCEPT !.bad = @ \/ n >= x.blk]
Eos(x, n) == Mark([x EXCEPT !.size = n], n)

\* A block of n characters, and one of padding.
Block(x, n) == [Realloc(x, n + 1) EXCEPT !.blk = n]
Exactly(x, n) == [Block(x, n + 1) EXCEPT !.res = n + 1]

AtLeast(x, n) == LET c == Max({Growth(x.res, n), n + 1}) IN [Block(x, c) EXCEPT !.res = c]
Resize(x, n) == IF x.res < n THEN Eos(Exactly(x, n), n) ELSE Eos(x, n)
Expand(x, n) == IF x.res < x.size + n THEN Eos(AtLeast(x, x.size + n), x.size + n)
                                      ELSE Eos(x, x.size + n)
AppendFill(x, n, e) == IF n = 0 THEN x ELSE Fill(Expand(x, n), x.size, n, e)

\* append of a range; push_back for one character.
AppendRange(x, t) == IF t = <<>> THEN x ELSE Store(Expand(x, Len(t)), x.size, t)

\* Mutant: the tail moves to where it must not.
OpenLow(x, i, n) == LET y == Expand(x, n) IN Store(y, i + n - 1, Load(y, i, y.size - (i + n)))

OpenGap(x, i, n) == LET y == Expand(x, n) IN Store(y, i + n, Load(y, i, y.size - (i + n)))
InsertRange(x, i, t) == IF t = <<>> THEN x
                        ELSE IF i = x.size THEN AppendRange(x, t)
                        ELSE Store(OpenGap(x, i, Len(t)), i, t)
InsertFill(x, i, n, e) == IF n = 0 THEN x
                          ELSE IF i = x.size THEN AppendFill(x, n, e)
                          ELSE Fill(OpenGap(x, i, n), i, n, e)
EraseRange(x, i, j) == [Store(x, i, Load(x, j, x.size - j)) EXCEPT !.size = @ - (j - i)]

\* replace: n characters at i become t.  The tail and its terminator move;
\* with a new block they are copied inside it, as realloc has kept them.
Tail1(x, i, n) == Load(x, i + n, x.size - n - i + 1)
Fits(x, g) == g <= x.res - x.size
Moved(x, i, n, t) == [Store(Store(x, i + Len(t), Tail1(x, i, n)), i, t)
                        EXCEPT !.size = x.size + Len(t) - n,
                               !.bad = x.bad \/ x.size + Len(t) - n >= x.blk]
GrowBy(x, g) == LET c == Growth(x.res, x.size + g) IN [Block(x, c + 1) EXCEPT !.res = c]
Garbled(x, i, n, g) == Overlaps /\ ~Fits(x, g) /\ x.size - n - i + 1 > g

Replace(x, i, n, t) ==
  IF Len(t) = n THEN Store(x, i, t)
  ELSE IF Len(t) < n \/ Fits(x, Len(t) - n) THEN Moved(x, i, n, t)
  ELSE Moved(GrowBy(x, Len(t) - n), i, n, t)

\* replace_all: from the left, not looking again at what was put in; a
\* pattern that is empty is found at the end of the string as well, where
\* replace throws.
ReplaceAllFrom(x, c, t) ==
  LET step(a, y) == IF y = c THEN a \o t ELSE Append(a, y) IN FoldLeft(step, <<>>, x)

-----------------------------------------------------------------------------
Put(x, t, c) == /\ Len(t) <= MaxLen
                /\ s' = [Tidied(x) EXCEPT !.mem = [k \in DOMAIN x.mem |->
                           IF k <= x.size + 1 THEN x.mem[k] ELSE U]]
                /\ holds' = t /\ cut' = c
Now == [s EXCEPT !.bad = FALSE]
Short == UNION {[1..n -> Chars] : n \in 0..2}
At == 0..s.size

PushBack(e) == Put(AppendRange(Now, <<e>>), Append(holds, e), FALSE)
Appends(t) == Put(AppendRange(Now, t), holds \o t, cut /\ t = <<>>)
AppendsFill(n, e) == Put(AppendFill(Now, n, e), holds \o [k \in 1..n |-> e], cut /\ n = 0)
Inserts(i, t) == Put(InsertRange(Now, i, t), Spliced(holds, i, 0, t), cut /\ t = <<>>)
InsertsFill(i, n, e) ==
  Put(InsertFill(Now, i, n, e), Spliced(holds, i, 0, [k \in 1..n |-> e]), cut /\ n = 0)
Erases(i, j) == i <= j /\ Put(EraseRange(Now, i, j), Spliced(holds, i, j - i, <<>>), TRUE)
Clears == Put([Now EXCEPT !.size = 0], <<>>, TRUE)
Resizes(n) == Put(Resize(Now, n), [k \in 1..n |-> IF k <= s.size THEN holds[k] ELSE U], FALSE)
ResizesFill(n, e) ==
  /\ n # s.size
  /\ Put(IF s.size < n THEN Fill(Resize(Now, n), s.size, n - s.size, e) ELSE Resize(Now, n),
         [k \in 1..n |-> IF k <= s.size THEN holds[k] ELSE e], FALSE)
Assigns(t) == IF t = <<>> THEN Put([Now EXCEPT !.size = 0], t, TRUE)
              ELSE Put(Store(Resize([Now EXCEPT !.size = 0], Len(t)), 0, t), t, FALSE)
Shrinks == /\ s.size # s.res
           /\ IF s.size = 0 THEN Put(Null, <<>>, FALSE)
                            ELSE Put(Exactly(Now, s.size), holds, cut)
Reserves(n) == s.res < n /\ Put(Exactly(Now, n), holds, cut \/ s.p = "null")
Overwrites(n, k, e) == k <= n /\ Put(Fill(Eos(Exactly(Now, n), k), 0, k, e), [j \in 1..k |-> e], FALSE)

\* The buffer goes to the caller and comes back, or another does.
Detaches == s.p = "live" /\ Put(Null, <<>>, FALSE)
Attaches(t) == Put([Null EXCEPT !.p = "live", !.mem = Append(t, U), !.blk = Len(t),
                                !.res = Len(t), !.size = Len(t)], t, TRUE)
Replaces(i, n, t) ==
  /\ i < s.size
  /\ LET m == Min({n, s.size - i})
         x == Replace(Now, i, m, t)
     IN \/ Put(x, Spliced(holds, i, m, t), cut)
        \/ /\ Garbled(Now, i, m, Len(t) - m) /\ Len(t) > m
           /\ Put(Fill(x, i + Len(t), 1, U), Spliced(holds, i, m, t), cut)
ReplacesAll(c, t) == /\ <<c>> # t /\ \A k \in DOMAIN holds : holds[k] # U
                     /\ LET r == ReplaceAllFrom(holds, c, t) IN
                        /\ Len(r) <= MaxLen
                        /\ LET one(x, k) == LET i == Cardinality({j \in 1..(k - 1) : holds[j] = c}) * (Len(t) - 1) + k - 1
                                            IN IF holds[k] = c THEN Replace(x, i, 1, t) ELSE x
                           IN Put(FoldLeft(one, Now, [k \in DOMAIN holds |-> k]), r, cut)

Next == \/ \E e \in Chars : PushBack(e) \/ \E n \in 0..2 :
               \/ AppendsFill(n, e) \/ \E i \in At : InsertsFill(i, n, e)
               \/ \E k \in 0..2 : Overwrites(n, k, e)
        \/ \E t \in Short : \/ Appends(t) \/ Assigns(t) \/ (t # <<>> /\ Attaches(t))
                            \/ \E i \in At : Inserts(i, t) \/ \E n \in 0..2 : Replaces(i, n, t)
                            \/ \E c \in Chars : ReplacesAll(c, t)
        \/ \E i, j \in At : Erases(i, j)
        \/ \E n \in 0..MaxLen : Resizes(n) \/ Reserves(n) \/ \E e \in Chars : ResizesFill(n, e)
        \/ Clears \/ Shrinks \/ Detaches

Spec == Init /\ [][Next]_vars

-----------------------------------------------------------------------------
\* The string holds what std::string would after the same calls, except for
\* characters that resize leaves to the caller.
Matches == Agrees(SubSeq(s.mem, 1, s.size), holds)

\* The character behind the string is 0, as c_str promises, except after
\* erase, clear, an empty assign, attach_abi or the first reserve.
Terminated == (s.p = "live" /\ ~cut) => s.mem[s.size + 1] = 0

\* "expand/append/insert/push_back/+= will trigger memory allocate growth":
\* no operation writes behind the block it has, or through a null pointer.
InBounds == ~s.bad
=============================================================================
