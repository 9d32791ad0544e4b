----------------------------- MODULE StringView ------------------------------
(***************************************************************************)
(* yasio/string_view.hpp and yasio/impl/char_traits.hpp: the string_view   *)
(* that builds before C++17 use, its searches and comparisons, and the     *)
(* helpers every build uses.  A view is an offset into a text and a        *)
(* length; offsets are 0-based and size_t wraps at W.                      *)
(***************************************************************************)
EXTENDS Integers, SequencesExt, FiniteSetsExt

CONSTANTS Chars,    \* the characters of the text; 0 is the NUL that ends a C string
          TextLen,  \* the length of the text
          W         \* 2^(the width of size_t)

SizeAssumption == TextLen \in Nat /\ W \in Nat /\ W > TextLen + 2

npos == W - 1
Threw == -1   \* std::out_of_range: no offset, length or count is negative

VARIABLES text,   \* the characters viewed
          v, w    \* two views of it
vars == <<text, v, w>>

Sizes == 0..npos
Str(x) == SubSeq(text, x.at + 1, x.at + x.len)
At(s, p) == s[p + 1]
Sub(s, p, n) == SubSeq(s, p + 1, p + n)
LeastOf(a, b) == IF a < b THEN a ELSE b

(***************************************************************************)
(* char_traits.hpp.                                                        *)
(***************************************************************************)
\* Where _Traits::find sees c in the offsets p..(e - 1) of h.
Seen(h, p, e, c) == {q \in p..(e - 1) : At(h, q) = c}

\* The same without the loop.
TriesOnce(h, n, p) ==
  LET hits == Seen(h, p, Len(h) - Len(n) + 1, At(n, 0))
  IN  IF hits # {} /\ Sub(h, Min(hits), Len(n)) = n THEN Min(hits) ELSE npos

RECURSIVE Tries(_, _, _)
\* The loop of __xxtraits_find: go to the next first character, compare.
Tries(h, n, p) ==
  LET hits == Seen(h, p, Len(h) - Len(n) + 1, At(n, 0))
  IN  IF hits = {} THEN npos
      ELSE IF Sub(h, Min(hits), Len(n)) = n THEN Min(hits)
      ELSE Tries(h, n, Min(hits) + 1)

xx_find(h, p, n) ==
  IF Len(n) > Len(h) \/ p > Len(h) - Len(n) THEN npos
  ELSE IF n = <<>> THEN p
  ELSE Tries(h, n, p)

xx_find_ch(h, p, c) ==
  IF p < Len(h) /\ Seen(h, p, Len(h), c) # {} THEN Min(Seen(h, p, Len(h), c)) ELSE npos

RECURSIVE Down(_, _)
\* A backward loop over offsets from p, up to the first that passes; it breaks at 0.
Down(p, passes) == IF p \in passes THEN p ELSE IF p = 0 THEN npos ELSE Down(p - 1, passes)

RECURSIVE Up(_, _, _)
\* A forward loop from p to the end e.
Up(p, e, passes) == IF p >= e THEN npos ELSE IF p \in passes THEN p ELSE Up(p + 1, e, passes)

Offsets(h) == 0..(Len(h) - 1)

xx_rfind(h, p, n) ==
  IF n = <<>> THEN LeastOf(p, Len(h))
  ELSE IF Len(n) > Len(h) THEN npos
  ELSE Down(LeastOf(p, Len(h) - Len(n)), {q \in 0..(Len(h) - Len(n)) : Sub(h, q, Len(n)) = n})

xx_rfind_ch(h, p, c) ==
  IF h = <<>> THEN npos ELSE Down(LeastOf(p, Len(h) - 1), {q \in Offsets(h) : At(h, q) = c})

xx_find_last_of(h, p, n) ==
  IF n = <<>> \/ h = <<>> THEN npos
  ELSE Down(LeastOf(p, Len(h) - 1), {q \in Offsets(h) : At(h, q) \in ToSet(n)})

\* The form with the test of its twin.
LastNotEmpty(h, p, n) ==
  IF n = <<>> \/ h = <<>> THEN npos
  ELSE Down(LeastOf(p, Len(h) - 1), {q \in Offsets(h) : At(h, q) \notin ToSet(n)})

xx_find_last_not_of(h, p, n) ==
  IF h = <<>> THEN npos
  ELSE Down(LeastOf(p, Len(h) - 1), {q \in Offsets(h) : At(h, q) \notin ToSet(n)})

xx_find_first_of(h, p, n) ==
  IF n = <<>> \/ p >= Len(h) THEN npos ELSE Up(p, Len(h), {q \in Offsets(h) : At(h, q) \in ToSet(n)})

xx_find_first_not_of(h, p, n) ==
  IF p >= Len(h) THEN npos ELSE Up(p, Len(h), {q \in Offsets(h) : At(h, q) \notin ToSet(n)})

xx_find_not_ch(h, p, c) ==
  IF p >= Len(h) THEN npos ELSE Up(p, Len(h), {q \in Offsets(h) : At(h, q) # c})

xx_rfind_not_ch(h, p, c) ==
  IF h = <<>> THEN npos ELSE Down(LeastOf(p, Len(h) - 1), {q \in Offsets(h) : At(h, q) # c})

(***************************************************************************)
(* The members of basic_string_view that only look.  An overload takes a   *)
(* view, a C string, characters and a count, or one character, and makes a *)
(* view of it; find_first_not_of of a view passes one argument too many to *)
(* its helper and compiles only for a character.                           *)
(***************************************************************************)
find(h, n, p) == xx_find(h, p, n)
rfind(h, n, p) == xx_rfind(h, p, n)
find_first_of(h, n, p) == xx_find_first_of(h, p, n)
find_last_of(h, n, p) == xx_find_last_of(h, p, n)
find_last_not_of(h, n, p) == xx_find_last_not_of(h, p, n)

\* substr, copy and at throw std::out_of_range at the end of the view too.
OutOfRange(h, p) == p >= Len(h)

\* The form that forgets pos in the length.
SubstrLong(h, p, n) == IF OutOfRange(h, p) THEN Threw ELSE [at |-> p, len |-> LeastOf(n, Len(h))]

\* substr: the empty tail is out of range.
substr(h, p, n) ==
  IF OutOfRange(h, p) THEN Threw ELSE [at |-> p, len |-> LeastOf(n, Len(h) - p)]

\* How many characters copy(dest, count, pos) writes; count + 1 is a size_t.
copy(h, n, p) == IF OutOfRange(h, p) THEN Threw ELSE LeastOf(Len(h) - p, (n + 1) % W)

RECURSIVE TraitsCompare(_, _, _)
\* _Traits::compare of the first n characters.
TraitsCompare(a, b, n) ==
  IF n = 0 THEN 0
  ELSE IF a[1] # b[1] THEN IF a[1] < b[1] THEN -1 ELSE 1
  ELSE TraitsCompare(Tail(a), Tail(b), n - 1)

\* The form that forgets the lengths.
CompareCommon(a, b) == TraitsCompare(a, b, LeastOf(Len(a), Len(b)))

compare(a, b) ==
  LET c == TraitsCompare(a, b, LeastOf(Len(a), Len(b)))
  IN  IF c # 0 THEN c ELSE IF Len(a) < Len(b) THEN -1 ELSE IF Len(a) > Len(b) THEN 1 ELSE 0

\* compare(pos, count, b): 2 stands for the exception of substr.
compareAt(a, p, n, b) ==
  LET s == substr(a, p, n) IN IF OutOfRange(a, p) THEN 2 ELSE compare(Sub(a, s.at, s.len), b)

equal(a, b) == compare(a, b) = 0
differ(a, b) == compare(a, b) # 0
less(a, b) == compare(a, b) < 0
greater(a, b) == compare(a, b) > 0
lessEqual(a, b) == compare(a, b) <= 0
greaterEqual(a, b) == compare(a, b) >= 0

\* A C string ends at its NUL; the text ends with one.
strlen(p) == LET z == {q \in p..(TextLen - 1) : At(text, q) = 0}
             IN  IF z = {} THEN TextLen - p ELSE Min(z) - p

(***************************************************************************)
(* The helpers of every build: starts_with, ends_with and their case-blind *)
(* twins.                                                                  *)
(***************************************************************************)
starts_with(a, b) == Len(a) >= Len(b) /\ compareAt(a, 0, Len(b), b) = 0
starts_with_ch(a, c) == a # <<>> /\ At(a, 0) = c
\* The form with a strict test of the lengths.
EndsAfter(a, b) ==
  /\ Len(a) > Len(b)
  /\ compareAt(a, (Len(a) + W - Len(b)) % W, Len(b), b) = 0

ends_with(a, b) ==
  /\ Len(a) >= Len(b)
  /\ compareAt(a, (Len(a) + W - Len(b)) % W, Len(b), b) = 0
ends_with_ch(a, c) == a # <<>> /\ a[Len(a)] = c

\* 2 is the upper case of 1.
tolower(c) == IF c = 2 THEN 1 ELSE c

\* The loop that decrements before it compares.
CaseShort(a, b, n) ==
  LET m == IF n = 0 THEN 0 ELSE n - 1
  IN  IF \A k \in 1..m : tolower(a[k]) = tolower(b[k]) THEN 0 ELSE 1

RECURSIVE wcsncasecmp(_, _, _)
\* Stops at a difference, at a NUL or after n characters; strncasecmp does too.
wcsncasecmp(a, b, n) ==
  IF n = 0 THEN 0
  ELSE LET r == tolower(a[1]) - tolower(b[1])
       IN  IF r = 0 /\ tolower(a[1]) # 0 THEN wcsncasecmp(Tail(a), Tail(b), n - 1) ELSE r

iequals(a, b) == Len(a) = Len(b) /\ wcsncasecmp(a, b, Len(b)) = 0

\* substr throws for an empty left side, as compareAt does above: the call has
\* no value then, which is FALSE here.
istarts_with(a, b) == Len(a) >= Len(b) /\ ~OutOfRange(a, 0) /\ iequals(Sub(a, 0, Len(b)), b)
iends_with(a, b) ==
  /\ Len(a) >= Len(b)
  /\ ~OutOfRange(a, Len(a) - Len(b))
  /\ iequals(Sub(a, Len(a) - Len(b), Len(b)), b)
istarts_with_ch(a, c) == a # <<>> /\ tolower(At(a, 0)) = tolower(c)
iends_with_ch(a, c) == a # <<>> /\ tolower(a[Len(a)]) = tolower(c)

(***************************************************************************)
(* The members that move a view.                                           *)
(***************************************************************************)
Init ==
  /\ text \in [1..TextLen -> Chars]
  /\ v = [at |-> 0, len |-> TextLen]
  /\ w = [at |-> 0, len |-> 0]

remove_prefix ==
  \E n \in 1..v.len : v' = [at |-> v.at + n, len |-> v.len - n] /\ UNCHANGED <<text, w>>

remove_suffix == \E n \in 1..v.len : v' = [v EXCEPT !.len = @ - n] /\ UNCHANGED <<text, w>>

swap == v' = w /\ w' = v /\ UNCHANGED text

\* v = v.substr(pos, len), or the exception and no change.
Narrow ==
  \E p \in Sizes, n \in Sizes :
    LET s == substr(Str(v), p, n)
    IN  /\ p < v.len
        /\ v' = [at |-> v.at + s.at, len |-> s.len]
        /\ UNCHANGED <<text, w>>

\* v = string_view(text + p)
FromCString == \E p \in 0..TextLen : v' = [at |-> p, len |-> strlen(p)] /\ UNCHANGED <<text, w>>

Next == remove_prefix \/ remove_suffix \/ swap \/ Narrow \/ FromCString
Spec == Init /\ [][Next]_vars

(***************************************************************************)
(* Properties.                                                             *)
(***************************************************************************)
\* A view never leaves the text it was made from, however it is narrowed.
Inside == v.at + v.len <= TextLen /\ w.at + w.len <= TextLen

FirstOr(S) == IF S = {} THEN npos ELSE Min(S)
LastOr(S) == IF S = {} THEN npos ELSE Max(S)
Occurs(h, n) == {q \in 0..(Len(h) - Len(n)) : Sub(h, q, Len(n)) = n}

\* The searches for a string, find and rfind, return the first occurrence at
\* or after pos and the last at or before it, for every pos up to npos, and
\* those for one character agree with them.
FindsString ==
  LET h == Str(v) n == Str(w)
  IN  \A p \in Sizes :
        /\ find(h, n, p) = FirstOr({q \in Occurs(h, n) : q >= p})
        /\ rfind(h, n, p) = LastOr({q \in Occurs(h, n) : q <= p})
        /\ Len(n) = 1 => /\ xx_find_ch(h, p, n[1]) = find(h, n, p)
                         /\ xx_rfind_ch(h, p, n[1]) = rfind(h, n, p)

\* The searches for a set of characters and for its complement partition the
\* offsets, forwards and backwards, for every pos up to npos.
FindsSet ==
  LET h == Str(v) n == Str(w)
      In == {q \in 0..(Len(h) - 1) : At(h, q) \in ToSet(n)}
      Out == (0..(Len(h) - 1)) \ In
  IN  \A p \in Sizes :
        /\ find_first_of(h, n, p) = FirstOr({q \in In : q >= p})
        /\ find_last_of(h, n, p) = LastOr({q \in In : q <= p})
        /\ xx_find_first_not_of(h, p, n) = FirstOr({q \in Out : q >= p})
        /\ find_last_not_of(h, n, p) = LastOr({q \in Out : q <= p})
        /\ Len(n) = 1 => /\ xx_find_not_ch(h, p, n[1]) = xx_find_first_not_of(h, p, n)
                         /\ xx_rfind_not_ch(h, p, n[1]) = find_last_not_of(h, n, p)

\* compare and the six operators built on it are one total order, in which
\* only equal contents tie, and compare(pos, count, v) is compare of the part.
Ordered ==
  LET a == Str(v) b == Str(w)
  IN  /\ equal(a, b) <=> a = b
      /\ differ(a, b) <=> ~equal(a, b)
      /\ compare(a, b) = -compare(b, a)
      /\ less(a, b) <=> greater(b, a)
      /\ less(a, b) <=> ~greaterEqual(a, b)
      /\ greater(a, b) <=> ~lessEqual(a, b)
      /\ (a # b /\ IsPrefix(a, b)) => less(a, b)
      /\ \A p \in 0..(Len(a) - 1), n \in Sizes :
           compareAt(a, p, n, b) = compare(SubSeq(a, p + 1, LeastOf(Len(a), p + n)), b)

\* starts_with and ends_with hold exactly when the first or last characters
\* are the others, which are not empty, whichever of the overloads is called.
Affixes ==
  LET a == Str(v) b == Str(w)
  IN  b # <<>> =>
        /\ starts_with(a, b) <=> IsPrefix(b, a)
        /\ ends_with(a, b) <=> IsSuffix(b, a)
        /\ Len(b) = 1 => /\ starts_with_ch(a, b[1]) <=> starts_with(a, b)
                         /\ ends_with_ch(a, b[1]) <=> ends_with(a, b)

Lowered(s) == [k \in DOMAIN s |-> tolower(s[k])]
NulFree(s) == 0 \notin ToSet(s)

\* The case-blind helpers say of texts without a NUL what the plain ones say
\* of the lowered texts.
CaseBlind ==
  LET a == Str(v) b == Str(w)
  IN  (b # <<>> /\ NulFree(a) /\ NulFree(b)) =>
        /\ iequals(a, b) <=> Lowered(a) = Lowered(b)
        /\ istarts_with(a, b) <=> starts_with(Lowered(a), Lowered(b))
        /\ iends_with(a, b) <=> ends_with(Lowered(a), Lowered(b))
        /\ Len(b) = 1 => /\ istarts_with_ch(a, b[1]) <=> istarts_with(a, b)
                         /\ iends_with_ch(a, b[1]) <=> iends_with(a, b)

\* copy writes the smaller of count and size() - pos characters, as its
\* comment says.
CopiesCount ==
  \A p \in 0..(v.len - 1), n \in Sizes : copy(Str(v), n, p) = LeastOf(n, v.len - p)

\* Every text starts and ends with the empty one, as it does for the C++20
\* members these helpers stand in for.
EmptyAffix == starts_with(Str(v), <<>>) /\ ends_with(Str(v), <<>>)
=============================================================================
