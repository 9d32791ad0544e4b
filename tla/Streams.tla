------------------------------ MODULE Streams ------------------------------
(***************************************************************************)
(* yasio's binary streams: obstream appends numbers, 7-bit encoded         *)
(* integers and blobs to a buffer, and reserves length fields that are     *)
(* filled in later; ibstream reads them back and throws at the end of the  *)
(* data.  Byte and integer widths are constants (8 bits, 4 and 8 bytes in  *)
(* the code), so that every carry and sign case is met with small numbers. *)
(***************************************************************************)
EXTENDS Integers, SequencesExt

CONSTANTS ByteBits, IntBytes, LongBytes,
          Network,     \* convert_traits<network_convert_tag>
          Extent,      \* room of a fixed buffer; 0 for a dynamic one
          MaxItems     \* bound: items written

StreamAssumption == /\ {ByteBits, IntBytes, LongBytes} \subseteq Nat \ {0}
                    /\ ByteBits > 1
                    /\ Network \in BOOLEAN
                    /\ Extent \in Nat /\ MaxItems \in Nat

VARIABLES buf,     \* the bytes written
          open,    \* length fields reserved and not filled in, innermost last
          log,     \* history: the items written
          thrown   \* a write threw out_of_range

vars == <<buf, open, log, thrown>>

B == 2^ByteBits              \* values of a byte
G == 2^(ByteBits - 1)        \* values of a group of the 7-bit encoding
Bits(n) == n * ByteBits

Unsigned(v, n) == v % B^n
Signed(u, n) == IF u < B^n \div 2 THEN u ELSE u - B^n

\* A number of n bytes in memory, in the order of the traits.
Lower(v, n) == [i \in 1..n |-> (Unsigned(v, n) \div B^(i - 1)) % B]
Ordered(s) == IF Network THEN Reverse(s) ELSE s
To(v, n) == Ordered(Lower(v, n))
Value(s) == FoldRight(LAMBDA b, acc : b + B * acc, s, 0)
From(s) == Value(Ordered(s))

\* write_ix_impl: 7 bits at a time, the high bit says that more follow.
Ix[v \in Nat] == IF v >= G THEN <<(v % G) + G>> \o Ix[v \div G] ELSE <<v>>
WriteIx(u) == Ix[u]

-----------------------------------------------------------------------------
(* What each write appends.                                                *)

Number(v, n) == [kind |-> "fix", n |-> n, val |-> v]
Seven(v, n) == [kind |-> "ix", n |-> n, val |-> v]
Blob(s) == [kind |-> "v", n |-> 0, val |-> s]
Sized(s, n) == [kind |-> "vfx", n |-> n, val |-> s]
Varint(v, n) == [kind |-> "var", n |-> n, val |-> v]

Encode(it) == CASE it.kind \in {"fix", "var"} -> To(it.val, it.n)
                [] it.kind = "ix" -> WriteIx(Unsigned(it.val, it.n))
                [] it.kind = "v" -> WriteIx(Len(it.val)) \o it.val
                [] it.kind = "vfx" -> To(Len(it.val), it.n) \o it.val

Unbounded == B^LongBytes

\* Mutant: the room left is counted one too large.
RoomAndOne == IF Extent = 0 THEN Unbounded ELSE Extent - Len(buf) + 1

\* A fixed buffer drops single bytes that do not fit; a longer write throws.
Room == IF Extent = 0 THEN Unbounded ELSE Extent - Len(buf)
BytewiseLength(it) == CASE it.kind = "ix" -> Len(Encode(it))
                        [] it.kind = "v" -> Len(WriteIx(Len(it.val)))
                        [] OTHER -> 0
HeadLength(it) == IF it.kind = "vfx" THEN it.n ELSE BytewiseLength(it)

Init == buf = <<>> /\ open = <<>> /\ log = <<>> /\ thrown = FALSE

Min2(a, b) == IF a < b THEN a ELSE b

Write(it) ==
  /\ ~thrown /\ Len(log) < MaxItems
  /\ LET e == Encode(it)
         kept == Min2(BytewiseLength(it), Room)
         rest == Len(e) - BytewiseLength(it)
     IN IF rest > Room - kept
        THEN \* thrown by the length field or by the bytes
             /\ thrown' = TRUE
             /\ buf' = buf \o SubSeq(e, 1, IF HeadLength(it) > Room THEN kept ELSE HeadLength(it))
             /\ UNCHANGED <<open, log>>
        ELSE /\ buf' = buf \o SubSeq(e, 1, kept)
                           \o SubSeq(e, BytewiseLength(it) + 1, Len(e))
             /\ log' = Append(log, it)
             /\ UNCHANGED <<open, thrown>>

\* push: the length field is reserved ...
Push(n) == /\ ~thrown /\ Len(log) < MaxItems
           /\ IF n > Room
              THEN thrown' = TRUE /\ UNCHANGED <<buf, open, log>>
              ELSE /\ open' = Append(open, [at |-> Len(buf), n |-> n, item |-> Len(log) + 1])
                   /\ buf' = buf \o [i \in 1..n |-> 0]
                   /\ log' = Append(log, Varint(0, n))
                   /\ UNCHANGED thrown

\* Mutant: the field counts itself.
WholeLength(o) == Len(buf) - o.at

\* What follows the field.
PopLength(o) == Len(buf) - o.at - o.n

\* ... and pop overwrites it with v, or with the length of what follows it.
Fill(o, v) == LET f == To(v, o.n) IN
              /\ buf' = [i \in DOMAIN buf |->
                           IF i \in (o.at + 1)..(o.at + o.n) THEN f[i - o.at] ELSE buf[i]]
              /\ open' = Front(open)
              /\ UNCHANGED thrown

Pop == /\ ~thrown /\ open # <<>>
       /\ LET o == Last(open) IN
          /\ Fill(o, PopLength(o))
          /\ log' = [log EXCEPT ![o.item].val = Len(buf) - o.at - o.n]

PopValue(v) == /\ ~thrown /\ open # <<>>
               /\ Fill(Last(open), v)
               /\ log' = [log EXCEPT ![Last(open).item].val = v]

Clear == /\ buf' = <<>> /\ open' = <<>>
         /\ log' = <<>> /\ thrown' = FALSE

-----------------------------------------------------------------------------
(* The reader: a value and the next position, or an exception.             *)

Throw == [ok |-> FALSE]
Got(v, p) == [ok |-> TRUE, val |-> v, pos |-> p]

\* Mutant: what is left is returned when it is not enough.
ShortRead(s, p, n) == LET q == Min2(p + n, Len(s)) IN
                      IF p < Len(s) THEN Got(SubSeq(s, p + 1, q), q) ELSE Throw

\* consume(n) bytes of s after position p.
Consumed(s, p, n) == IF p + n <= Len(s) THEN Got(SubSeq(s, p + 1, p + n), p + n) ELSE Throw

\* The largest last byte of a full-length 7-bit integer of n bytes.
MaxLast(n) == 2^(Bits(n) % (ByteBits - 1)) - 1

Groups(s, p, k) == FoldRight(LAMBDA b, acc : (b % G) + G * acc, SubSeq(s, p + 1, p + k), 0)

ReadIx(s, p, n) ==
  LET m == Bits(n) \div (ByteBits - 1)      \* MaxBytesWithoutOverflow
      last == {i \in 1..m : /\ p + i <= Len(s) /\ s[p + i] < G
                            /\ \A j \in 1..(i - 1) : s[p + j] >= G}
  IN IF last # {}
     THEN LET k == CHOOSE i \in last : TRUE IN Got(Signed(Groups(s, p, k), n), p + k)
     ELSE IF p + m + 1 > Len(s) \/ s[p + m + 1] > MaxLast(n) THEN Throw
          ELSE Got(Signed(Unsigned(Groups(s, p, m + 1), n), n), p + m + 1)

\* read_bytes: nothing for a count that is not positive.
ReadBytes(s, p, n) == IF n > 0 THEN Consumed(s, p, n) ELSE Got(<<>>, p)

Read(it, s, p) ==
  CASE it.kind = "fix" -> LET c == Consumed(s, p, it.n) IN
                          IF c.ok THEN Got(Signed(From(c.val), it.n), c.pos) ELSE Throw
    [] it.kind = "var" -> LET c == Consumed(s, p, it.n) IN
                          IF c.ok THEN Got(Signed(From(c.val), IntBytes), c.pos) ELSE Throw
    [] it.kind = "ix" -> ReadIx(s, p, it.n)
    [] it.kind = "v" -> LET c == ReadIx(s, p, IntBytes) IN
                        IF c.ok THEN ReadBytes(s, c.pos, c.val) ELSE Throw
    [] it.kind = "vfx" -> LET c == Consumed(s, p, it.n) IN
                          IF c.ok THEN ReadBytes(s, c.pos, Signed(From(c.val), IntBytes)) ELSE Throw

\* The items that a reader of s gets, reading what was written in its order.
ReadBack(s) ==
  FoldLeft(LAMBDA r, it : IF ~r.ok THEN r
                          ELSE LET c == Read(it, s, r.pos) IN
                               IF c.ok THEN [ok |-> TRUE, pos |-> c.pos, got |-> Append(r.got, c.val)]
                               ELSE [r EXCEPT !.ok = FALSE],
           [ok |-> TRUE, pos |-> 0, got |-> <<>>], log)

-----------------------------------------------------------------------------
\* What a writer may write: the values at every edge of a group, of a byte and
\* of a width.
Edges(n) == LET h == B^n \div 2 IN
            {0, 1, G - 1, G, G * G - 1, G * G, h - 1, -1, -G, -h} \cap ((-h)..(h - 1))
Numbers == UNION {{Number(v, n) : v \in Edges(n)} : n \in {1, IntBytes}}
           \cup UNION {{Seven(v, n) : v \in Edges(n)} : n \in {IntBytes, LongBytes}}
           \cup {Varint(v, n) : v \in Edges(IntBytes), n \in 1..IntBytes}
Texts == {[i \in 1..n |-> i % B] : n \in {0, 1, G, B - 1, B}}
Blobs == {Blob(s) : s \in Texts} \cup {Sized(s, n) : s \in Texts, n \in {1, IntBytes}}

Next == \/ \E it \in Numbers : Write(it)
        \/ \E it \in Blobs : Write(it)
        \/ \E n \in 1..IntBytes : Push(n)
        \/ Pop \/ PopValue(1)
        \/ Clear

Spec == Init /\ [][Next]_vars

\* The items whose value fits the field it is written to: a blob or a filled
\* in length must not be longer than its length field can say, and a varint
\* that is narrower than an int comes back without its sign.
Fits(it) == CASE it.kind = "vfx" -> Len(it.val) < B^it.n
              [] it.kind = "var" -> it.n = IntBytes \/ it.val \in 0..(B^it.n - 1)
              [] OTHER -> TRUE
AllFit == \A i \in DOMAIN log : Fits(log[i])
Values == [i \in DOMAIN log |-> log[i].val]

\* What the writers append, with any nesting of length fields, the readers
\* get back value for value, and they end exactly at the end of the data; a
\* fixed buffer promises it as long as it is not full.
RoundTrip == AllFit /\ open = <<>> /\ ~thrown /\ (Extent > 0 => Len(buf) < Extent) =>
             LET r == ReadBack(buf) IN r.ok /\ r.got = Values /\ r.pos = Len(buf)

\* Data cut off anywhere never reads as other values: the reader gets a
\* prefix of what was written and then throws.
CutThrows == AllFit /\ open = <<>> =>
             \A n \in 0..(Len(buf) - 1) :
               LET r == ReadBack(SubSeq(buf, 1, n)) IN ~r.ok /\ IsPrefix(r.got, Values)

\* No sequence of writes, each checked on its own, leaves a fixed buffer with
\* more bytes than it has room for.
NeverOverruns == Extent > 0 => Len(buf) <= Extent

\* A fixed buffer that has no room throws, and so what was written without
\* an exception can be read.
FullThrows == AllFit /\ open = <<>> /\ ~thrown => ReadBack(buf).ok
=============================================================================
