---------------------------- MODULE PacketReader ----------------------------
(***************************************************************************)
(* The receiving side of a yasio transport: the worker reads bytes into    *)
(* buffer_, decodes the length of the next packet, and collects the packet *)
(* over as many reads as it takes (do_read, unpack).  The bytes come from  *)
(* a TCP stream in chunks of any size or, with Kcp, out of KCP, a library  *)
(* that turns datagrams into messages.                                     *)
(***************************************************************************)
EXTENDS Integers, SequencesExt, FiniteSetsExt

CONSTANTS Base,         \* values of a byte
          LengthOffset, LengthSize, LengthAdjustment, MaxFrameLength, Strip,  \* uparams_
          BufferSize,   \* bytes of buffer_
          FrameSizes,   \* sizes of the frames the peer may send; 0, with Kcp, is a datagram without data
          Kcp,          \* KCP instead of TCP
          MaxFrames     \* bound: frames the peer sends

Header == LengthOffset + LengthSize

FramingAssumption == /\ LengthOffset \in Nat /\ LengthSize \in Nat \ {0}
                     /\ Strip \in Nat /\ Base > 1
                     /\ \A n \in FrameSizes : n >= Header \/ (Kcp /\ n = 0)

VARIABLES wire,       \* bytes (or, with Kcp, datagrams) under way to the socket
          buffer,     \* buffer_, all of its memory
          offset,     \* offset_: bytes of buffer_ not consumed
          expected,   \* expected_size_
          packet,     \* expected_packet_
          wait,       \* FALSE: wait_duration_ = 0, the next poll does not block
          status,     \* "open", "invalid" (invalid_packet) or "thrown"
          sent,       \* history: sizes of the frames the peer sent
          delivered   \* history: the packets given to the application

vars == <<wire, buffer, offset, expected, packet, wait, status, sent, delivered>>

\* The i-th frame: bytes that are not looked at, the length, the body.
Digits(v) == [k \in 1..LengthSize |-> (v \div Base^(LengthSize - k)) % Base]
Frame(i, n) == [k \in 1..LengthOffset |-> i % Base] \o Digits(n - LengthAdjustment)
               \o [k \in 1..(n - Header) |-> i % Base]
Good(n) == n <= MaxFrameLength /\ n >= Strip

Init == /\ wire = <<>> /\ sent = <<>> /\ delivered = <<>> /\ packet = <<>>
        /\ buffer = [k \in 1..BufferSize |-> 0]
        /\ offset = 0 /\ expected = -1 /\ wait = TRUE /\ status = "open"

\* The peer sends a frame, or a datagram that only acknowledges.
Peer(n) == /\ Len(sent) < MaxFrames
           /\ n = 0 => Kcp /\ Len(wire) < MaxFrames
           /\ sent' = IF n = 0 THEN sent ELSE Append(sent, n)
           /\ LET f == IF n = 0 THEN <<>> ELSE Frame(Len(sent) + 1, n) IN
              IF ~Kcp THEN wire' = wire \o f
              ELSE \/ wire' = Append(wire, f)
                   \/ \* two frames in one message
                      wire # <<>> /\ wire' = Append(Front(wire), Last(wire) \o f)
           /\ UNCHANGED <<buffer, offset, expected, packet, wait, status, delivered>>

Number(s) == FoldLeft(LAMBDA acc, b : Base * acc + b, 0, s)

\* Mutant: the length field may be incomplete.
DecodeEarly(m, n) ==
  IF n >= LengthOffset + 1
  THEN LET len == Number(SubSeq(m, LengthOffset + 1, Header)) + LengthAdjustment
       IN IF len > MaxFrameLength THEN -1 ELSE len
  ELSE 0

\* __builtin_decode_len, for a channel with a length field.
DecodeLen(m, n) ==
  IF n >= Header
  THEN LET len == Number(SubSeq(m, LengthOffset + 1, Header)) + LengthAdjustment
       IN IF len > MaxFrameLength THEN -1 ELSE len
  ELSE 0

\* Mutant: what follows the packet is left for the next time bytes arrive.
RemainWaits(rest) == TRUE

\* wait_duration_ = 0 when bytes remain in the buffer.
RemainWait(rest) == rest <= 0

\* Mutant: the bytes that remain stay where they are.
NotMoved(m, want, rest) == m

\* memmove of the bytes that remain to the head of the buffer.
Moved(m, want, rest) == [k \in 1..Len(m) |-> IF k <= rest THEN m[want + k] ELSE m[k]]

\* unpack: `want' bytes of the `avail' bytes of m belong to the packet.
Unpack(m, size, want, avail, strip) ==
  LET last == Min({want, avail})
      rest == avail - want
      pkt == packet \o SubSeq(m, strip + 1, last)
  IN IF strip > last
     THEN \* insert(first > last) throws out_of_range in the worker
          status' = "thrown" /\ UNCHANGED <<buffer, offset, expected, packet, wait, delivered>>
     ELSE /\ UNCHANGED status
          /\ wait' = RemainWait(rest)
          /\ offset' = Max({rest, 0})
          /\ buffer' = Moved(m, want, rest)
          /\ IF rest >= 0
             THEN /\ delivered' = Append(delivered, pkt)
                  /\ packet' = <<>> /\ expected' = -1
             ELSE packet' = pkt /\ expected' = size /\ UNCHANGED delivered

Invalid(m) == /\ status' = "invalid" /\ buffer' = m /\ wait' = TRUE
              /\ UNCHANGED <<offset, expected, packet, delivered>>

\* do_read, once n more bytes are in the memory m.
Process(m, n) ==
  LET length == DecodeLen(m, offset + n) IN
  \/ /\ expected = -1 /\ length > 0 /\ length >= Strip
     /\ Unpack(m, length, length, offset + n, Strip)
  \/ /\ expected = -1 /\ length # 0 /\ length < Strip
     /\ Invalid(m)
  \/ /\ expected = -1 /\ length = 0
     /\ offset' = offset + n /\ buffer' = m /\ wait' = TRUE
     /\ UNCHANGED <<expected, packet, status, delivered>>
  \/ /\ expected # -1
     /\ Unpack(m, expected, expected - (Len(packet) + Strip), offset + n, 0)

Stored(s) == [k \in 1..Max({Len(buffer), offset + Len(s)}) |->
                IF k \in (offset + 1)..(offset + Len(s)) THEN s[k - offset] ELSE buffer[k]]

\* The socket is readable: recv returns between 1 and all the bytes there.
ReadTcp == /\ ~Kcp /\ status = "open" /\ wire # <<>>
           /\ \E n \in 1..Min({Len(wire), BufferSize - offset}) :
                /\ Process(Stored(SubSeq(wire, 1, n)), n)
                /\ wire' = SubSeq(wire, n + 1, Len(wire))
           /\ UNCHANGED sent

\* io_transport_kcp::do_read: a datagram is input to KCP, and what KCP has
\* ready is received.  Without a message, n stays the size of the datagram.
RawSize == Header + 1
ReadKcp == /\ Kcp /\ status = "open" /\ wire # <<>>
           /\ LET msg == Head(wire) IN
              IF msg # <<>> THEN Process(Stored(msg), Len(msg))
                            ELSE Process(buffer, Min({RawSize, BufferSize - offset}))
           /\ wire' = Tail(wire)
           /\ UNCHANGED sent

\* A pass over the transport without an event on its socket.
ReadNone == /\ status = "open"
            /\ Process(buffer, 0)
            /\ UNCHANGED <<wire, sent>>

Next == \/ \E n \in FrameSizes : Peer(n)
        \/ ReadTcp \/ ReadKcp \/ ReadNone

Spec == Init /\ [][Next]_vars
Reads == ReadTcp \/ ReadKcp \/ (~wait /\ ReadNone)
FairSpec == Spec /\ WF_vars(Reads)

-----------------------------------------------------------------------------
\* The packets that the peer's frames stand for, up to the first that the
\* framing refuses.
Accepted == LET bad == {i \in DOMAIN sent : ~Good(sent[i])}
            IN IF bad = {} THEN Len(sent) ELSE Min(bad) - 1
Promised == [i \in 1..Accepted |-> SubSeq(Frame(i, sent[i]), Strip + 1, sent[i])]

\* However the stream is cut up, the application gets exactly the peer's
\* frames without the stripped bytes, in order, each once, and nothing of a
\* frame that is too long.
DeliversFrames == status # "thrown" => IsPrefix(delivered, Promised)

\* The worker never blocks in poll while a whole frame is in its buffer: the
\* socket would not wake it for bytes that were already read.
NoFrameForgotten ==
  wait /\ status = "open" /\ expected = -1 =>
    (offset < Header \/ DecodeLen(buffer, offset) > offset)

\* A frame that the framing refuses, and only that, closes the transport.
InvalidIsRefused == status = "invalid" => \E i \in DOMAIN sent : ~Good(sent[i])

\* Every acceptable frame that was sent is delivered, also when it arrived
\* together with another and nothing follows it.
Complete == delivered = Promised
AllDelivered == <>[]Complete

\* The unpacker never inserts a range that ends before it begins.
RangesInOrder == status # "thrown"
=============================================================================
