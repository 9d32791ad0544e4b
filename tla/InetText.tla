------------------------------ MODULE InetText -------------------------------
(***************************************************************************)
(* yasio/impl/inet_ntop.hpp: IPv4 and IPv6 addresses to text and back.     *)
(* The sizes are parameters: the code's are Byte = 256 and Words = 8, and  *)
(* the small instances keep the shape (an IPv4 address is 4 bytes, the     *)
(* last two words of an IPv6 one).                                         *)
(***************************************************************************)
EXTENDS Integers, SequencesExt, FiniteSetsExt

CONSTANTS Byte,        \* the values of a byte
          Words,       \* the 16-bit words of an IPv6 address
          WordValues,  \* the words addresses are made of
          Letters,     \* the characters texts are made of
          MaxText      \* the longest text typed

InetAssumption == Byte \in Nat /\ Byte > 1 /\ Words > 2 /\ MaxText \in Nat

Colon == 100
Dot == 101
Word == Byte * Byte
Size == 2 * Words   \* NS_IN6ADDRSZ
Fail == <<>>        \* 0 from inet_pton

VARIABLES text, addr, mode
vars == <<text, addr, mode>>

(***************************************************************************)
(* Address to text.                                                        *)
(***************************************************************************)
RECURSIVE Digits(_, _)
\* sprintf of a number in a base.
Digits(n, base) == (IF n >= base THEN Digits(n \div base, base) ELSE <<>>) \o <<n % base>>

inet_ntop4(b) ==
  Digits(b[1], 10) \o <<Dot>> \o Digits(b[2], 10) \o <<Dot>> \o
  Digits(b[3], 10) \o <<Dot>> \o Digits(b[4], 10)

Hi(x) == x \div Byte
Lo(x) == x % Byte
LastFour(a) == <<Hi(a[Words - 1]), Lo(a[Words - 1]), Hi(a[Words]), Lo(a[Words])>>

\* The form that takes a later run of the same length.
BetterLate(cur, best) == cur.base # -1 /\ (best.base = -1 \/ cur.len >= best.len)

\* Whether the run that just ended replaces the best one.
Better(cur, best) == cur.base # -1 /\ (best.base = -1 \/ cur.len > best.len)

None == [base |-> -1, len |-> 0]

RECURSIVE Runs(_, _, _, _)
\* The loop that looks for the longest run of zero words, from word i.
Runs(a, i, cur, best) ==
  IF i = Words THEN IF Better(cur, best) THEN cur ELSE best
  ELSE IF a[i + 1] = 0
       THEN Runs(a, i + 1, IF cur.base = -1 THEN [base |-> i, len |-> 1]
                           ELSE [cur EXCEPT !.len = @ + 1], best)
  ELSE Runs(a, i + 1, [cur EXCEPT !.base = -1], IF Better(cur, best) THEN cur ELSE best)

BestRun(a) == LET b == Runs(a, 0, None, None) IN IF b.len < 2 THEN None ELSE b

\* Is this address an encapsulated IPv4?
Encapsulates(a, i, best) ==
  /\ i = Words - 2
  /\ best.base = 0
  /\ best.len = Words - 2 \/ (best.len = Words - 3 /\ a[Words - 2] = Word - 1)

\* The form that forgets it.
NoTrailing(best) == <<>>

\* Was it a trailing run of zeros?
Trailing(best) == IF best.base # -1 /\ best.base + best.len = Words THEN <<Colon>> ELSE <<>>

RECURSIVE Format(_, _, _)
\* The loop that writes the words from word i on, and the trailing colon.
Format(a, i, best) ==
  LET hidden == best.base # -1 /\ i >= best.base /\ i < best.base + best.len
      sep == IF i # 0 THEN <<Colon>> ELSE <<>>
  IN  IF i = Words THEN Trailing(best)
      ELSE IF hidden THEN (IF i = best.base THEN <<Colon>> ELSE <<>>) \o Format(a, i + 1, best)
      ELSE IF Encapsulates(a, i, best) THEN sep \o inet_ntop4(LastFour(a)) \o Trailing(best)
      ELSE sep \o Digits(a[i + 1], 16) \o Format(a, i + 1, best)

inet_ntop6(a) == Format(a, 0, BestRun(a))

(***************************************************************************)
(* Text to address.                                                        *)
(***************************************************************************)
\* The form without the test of a leading zero.
LeadingZero(p, ch) ==
  IF p.bad \/ (ch \in 0..9 /\ Last(p.tmp) * 10 + ch >= Byte) THEN [p EXCEPT !.bad = TRUE]
  ELSE IF ch \in 0..9 THEN [p EXCEPT !.tmp = Front(@) \o <<Last(@) * 10 + ch>>, !.saw = TRUE,
                                      !.octets = IF p.saw THEN @ ELSE @ + 1]
  ELSE IF ch = Dot /\ p.saw /\ p.octets < 4 THEN [p EXCEPT !.tmp = Append(@, 0), !.saw = FALSE]
  ELSE [p EXCEPT !.bad = TRUE]

\* One character of inet_pton4; `bad' is its return of 0.
Pton4Char(p, ch) ==
  LET newv == Last(p.tmp) * 10 + ch
  IN  IF p.bad THEN p
      ELSE IF ch \in 0..9
           THEN IF (p.saw /\ Last(p.tmp) = 0) \/ newv >= Byte \/ (~p.saw /\ p.octets = 4)
                THEN [p EXCEPT !.bad = TRUE]
                ELSE [p EXCEPT !.tmp = Front(@) \o <<newv>>, !.saw = TRUE,
                               !.octets = IF p.saw THEN @ ELSE @ + 1]
      ELSE IF ch = Dot /\ p.saw /\ p.octets < 4
           THEN [p EXCEPT !.tmp = Append(@, 0), !.saw = FALSE]
      ELSE [p EXCEPT !.bad = TRUE]

inet_pton4(s) ==
  LET p == FoldLeft(Pton4Char, [tmp |-> <<0>>, saw |-> FALSE, octets |-> 0, bad |-> FALSE], s)
  IN  IF p.bad \/ p.octets < 4 THEN Fail ELSE p.tmp

\* The end of inet_pton6: the last word, then the zero bytes of `::', which
\* stand before the n bytes written behind the colon.
Finish(q) ==
  LET full == Len(q.tp) + 2 > Size
      tp == IF q.saw THEN q.tp \o <<Hi(q.val), Lo(q.val)>> ELSE q.tp
  IN  IF q.saw /\ full THEN Fail
      ELSE IF q.colon # -1
           THEN IF Len(tp) = Size THEN Fail
                ELSE SubSeq(tp, 1, q.colon) \o [k \in 1..(Size - Len(tp)) |-> 0]
                       \o SubSeq(tp, q.colon + 1, Len(tp))
      ELSE IF Len(tp) = Size THEN tp ELSE Fail

\* The form that takes any number of `::'.
ColonsTwice(q) == FALSE

\* Whether a second `::' is refused.
SecondColon(q) == q.colon # -1

RECURSIVE Scan(_, _, _)
\* The loop of inet_pton6 at character i.
Scan(s, i, q) ==
  IF i > Len(s) THEN Finish(q)
  ELSE IF s[i] < 16
       THEN IF q.val * 16 + s[i] >= Word THEN Fail
            ELSE Scan(s, i + 1, [q EXCEPT !.val = @ * 16 + s[i], !.saw = TRUE])
  ELSE IF s[i] = Colon
       THEN IF ~q.saw
            THEN IF SecondColon(q) THEN Fail
                 ELSE Scan(s, i + 1, [q EXCEPT !.curtok = i + 1, !.colon = Len(q.tp)])
            ELSE IF i = Len(s) \/ Len(q.tp) + 2 > Size THEN Fail
            ELSE Scan(s, i + 1, [q EXCEPT !.curtok = i + 1, !.saw = FALSE, !.val = 0,
                                          !.tp = @ \o <<Hi(q.val), Lo(q.val)>>])
  ELSE LET four == inet_pton4(SubSeq(s, q.curtok, Len(s)))
       IN  IF Len(q.tp) + 4 <= Size /\ four # Fail
           THEN Finish([q EXCEPT !.tp = @ \o four, !.saw = FALSE])
           ELSE Fail

Scan0 == [tp |-> <<>>, colon |-> -1, curtok |-> 1, saw |-> FALSE, val |-> 0]

inet_pton6(s) ==
  IF s # <<>> /\ s[1] = Colon
  THEN IF Len(s) < 2 \/ s[2] # Colon THEN Fail
       ELSE Scan(Tail(s), 1, Scan0)
  ELSE Scan(s, 1, Scan0)

(***************************************************************************)
(* A caller types a text, or prints an address.                            *)
(***************************************************************************)
Zero == [i \in 1..Words |-> 0]

Init ==
  /\ text = <<>>
  /\ \/ mode = "typing" /\ addr = Zero
     \/ mode = "address" /\ addr \in [1..Words -> WordValues]

Types ==
  /\ mode = "typing" /\ Len(text) < MaxText
  /\ \E c \in Letters : text' = Append(text, c)
  /\ UNCHANGED <<addr, mode>>

Prints ==
  /\ mode = "address"
  /\ text' = inet_ntop6(addr) /\ mode' = "printed"
  /\ UNCHANGED addr

Next == Types \/ Prints
Spec == Init /\ [][Next]_vars

(***************************************************************************)
(* Properties.                                                             *)
(***************************************************************************)
RECURSIVE Fields(_, _)
\* A text cut at each `sep'.
Fields(s, sep) ==
  LET at == {i \in DOMAIN s : s[i] = sep}
  IN  IF at = {} THEN <<s>>
      ELSE <<SubSeq(s, 1, Min(at) - 1)>> \o Fields(SubSeq(s, Min(at) + 1, Len(s)), sep)

\* The number the digits write; one that is too large for a word stays so.
NumberIn(s, base) == FoldLeft(LAMBDA n, d : IF n >= Word THEN n ELSE n * base + d, 0, s)

IsOctet(s) ==
  /\ s # <<>> /\ ToSet(s) \subseteq 0..9
  /\ Len(s) > 1 => s[1] # 0
  /\ NumberIn(s, 10) < Byte

\* What a dotted quad means.
Quad(s) ==
  LET f == Fields(s, Dot)
  IN  IF Len(f) = 4 /\ \A i \in 1..4 : IsOctet(f[i])
      THEN [i \in 1..4 |-> NumberIn(f[i], 10)] ELSE Fail

IsGroup(s) == s # <<>> /\ ToSet(s) \subseteq 0..15 /\ NumberIn(s, 16) < Word

\* The bytes of groups with colons between them, the last of them perhaps a
\* dotted quad; <<-1>> for a text that is none.
Groups(s, quad) ==
  LET f == Fields(s, Colon)
      bytes(g) == <<Hi(NumberIn(g, 16)), Lo(NumberIn(g, 16))>>
      hex(fs) == FlattenSeq([i \in DOMAIN fs |-> bytes(fs[i])])
  IN  IF s = <<>> THEN <<>>
      ELSE IF \A i \in DOMAIN f : IsGroup(f[i]) THEN hex(f)
      ELSE IF quad /\ Quad(Last(f)) # Fail /\ \A i \in 1..(Len(f) - 1) : IsGroup(f[i])
           THEN hex(Front(f)) \o Quad(Last(f))
      ELSE <<-1>>

DoubleColons(s) == {i \in 1..(Len(s) - 1) : s[i] = Colon /\ s[i + 1] = Colon}
Before(s, i) == Groups(SubSeq(s, 1, i - 1), FALSE)
After(s, i) == Groups(SubSeq(s, i + 2, Len(s)), TRUE)

\* What an IPv6 text means: all the groups, or those before and after a `::'.
Meaning(s) ==
  LET ok == {i \in DoubleColons(s) : /\ Before(s, i) # <<-1>> /\ After(s, i) # <<-1>>
                                     /\ Len(Before(s, i)) + Len(After(s, i)) < Size}
  IN  IF Len(Groups(s, TRUE)) = Size THEN Groups(s, TRUE)
      ELSE IF ok = {} THEN Fail
      ELSE LET b == Before(s, Min(ok))  a == After(s, Min(ok))
           IN  b \o [k \in 1..(Size - Len(b) - Len(a)) |-> 0] \o a

\* inet_pton4 accepts exactly the dotted quads, each octet in range and
\* without a leading zero, and returns their bytes.
ParsesQuads == mode = "typing" => inet_pton4(text) = Quad(text)

\* inet_pton6 accepts exactly the groups of hexadecimal digits, with one `::'
\* for at least one zero word and a dotted quad in the last place, and returns
\* the bytes they mean.
ParsesGroups == mode = "typing" => inet_pton6(text) = Meaning(text)

BytesOf(a) == FlattenSeq([i \in 1..Words |-> <<Hi(a[i]), Lo(a[i])>>])

\* What inet_ntop6 prints, the short and the encapsulated forms included,
\* inet_pton6 reads back as the same address.
RoundTrip == mode = "printed" => inet_pton6(text) = BytesOf(addr)

ZeroRuns(a) == {r \in (1..Words) \X (1..Words) : r[1] < r[2] /\ \A i \in r[1]..r[2] : a[i] = 0}
Longest(a) == {r \in ZeroRuns(a) : \A s \in ZeroRuns(a) : s[2] - s[1] <= r[2] - r[1]}

\* The `::' stands for the longest run of at least two zero words, and for
\* the first of them when several are as long.
HidesLongest ==
  mode = "printed" =>
    BestRun(addr) = IF Longest(addr) = {} THEN None
                    ELSE LET f == Min({r[1] : r \in Longest(addr)})
                             e == CHOOSE r \in Longest(addr) : r[1] = f
                         IN  [base |-> f - 1, len |-> e[2] - e[1] + 1]

\* A `::' in an address that already has all its words is ignored, as the
\* notice above inet_pton6 says.
FullColonsIgnored ==
  \A i \in DoubleColons(text) :
    LET plain == SubSeq(text, 1, i) \o SubSeq(text, i + 2, Len(text))
    IN  (mode = "typing" /\ Len(Groups(plain, TRUE)) = Size) => inet_pton6(text) = Groups(plain, TRUE)
=============================================================================
