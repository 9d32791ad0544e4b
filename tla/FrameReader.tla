---------------------------- MODULE FrameReader ----------------------------
(***************************************************************************)
(* Length-prefixed frames over a byte stream: the sender puts a big-endian *)
(* length before every message, TCP cuts the stream anywhere, and the read *)
(* loop of a session puts the messages together again.                     *)
(*                                                                         *)
(* A byte has Base values and a header HeaderLen bytes (256 and 4 in the   *)
(* code); Limit stands for 2 MiB.  Messages are byte strings of any        *)
(* content, so that a payload can look like a header.                      *)
(***************************************************************************)
EXTENDS Integers, SequencesExt

CONSTANTS Base, HeaderLen, Limit,
          MaxFrames      \* bound: messages the peer sends

FrameAssumption == /\ Base \in Nat /\ Base > 1
                   /\ HeaderLen \in Nat /\ HeaderLen > 0
                   /\ Limit \in 1..Base^HeaderLen
                   /\ MaxFrames \in Nat

VARIABLES posted,    \* history: the messages the peer has sent
          flight,    \* bytes sent and not read
          ended,     \* the peer has closed its side
          buffer,    \* the BytesMut of poll_read
          frames,    \* history: the frames given to on_recv_frame
          pc         \* "read", "extract", or why poll_read returned

vars == <<posted, flight, ended, buffer, frames, pc>>

Byte == 0..Base - 1
Payload == UNION {[1..n -> Byte] : n \in 0..Limit}   \* empty to just too long

\* write_u32::<BigEndian> of the length, cut to the width of the header.
Header(n) == [i \in 1..HeaderLen |-> (n \div Base^(HeaderLen - i)) % Base]
Encode(p) == Header(Len(p)) \o p

\* BigEndian::read_u32 of the first bytes of a buffer.
HeaderValue(b) == SumFunction([i \in 1..HeaderLen |-> b[i] * Base^(HeaderLen - i)])

\* Mutant: the longest frame allowed is refused.
TooLongByOne(n) == n <= 0 \/ n >= Limit - 1

TooLong(n) == n <= 0 \/ n >= Limit

Init == /\ posted = <<>>
        /\ flight = <<>>
        /\ ended = FALSE
        /\ buffer = <<>>
        /\ frames = <<>>
        /\ pc = "read"

\* The peer serialises a message and writes it.
Send(p) == /\ ~ended
           /\ Len(posted) < MaxFrames
           /\ posted' = Append(posted, p)
           /\ flight' = flight \o Encode(p)
           /\ UNCHANGED <<ended, buffer, frames, pc>>

PeerCloses == /\ ~ended
              /\ ended' = TRUE
              /\ UNCHANGED <<posted, flight, buffer, frames, pc>>

\* read_buf returns some of the bytes that have arrived.
ReadBuf(n) == /\ pc = "read"
              /\ n \in 1..Len(flight)
              /\ buffer' = buffer \o SubSeq(flight, 1, n)
              /\ flight' = SubSeq(flight, n + 1, Len(flight))
              /\ pc' = "extract"
              /\ UNCHANGED <<posted, ended, frames>>

\* read_buf returns 0.
ReadEof == /\ pc = "read"
           /\ ended /\ flight = <<>>
           /\ pc' = "eof"
           /\ UNCHANGED <<posted, flight, ended, buffer, frames>>

\* The connection is reset, or select! drops poll_read while it waits.
ReadFails == /\ pc = "read"
             /\ pc' = "reset"
             /\ UNCHANGED <<posted, flight, ended, buffer, frames>>

\* Mutant: a frame is taken out only when more bytes follow it.
FoundLate(b) == IF Len(b) < HeaderLen THEN "none"
                ELSE IF TooLong(HeaderValue(b)) THEN "error"
                ELSE IF Len(b) <= HeaderLen + HeaderValue(b) THEN "none"
                ELSE "frame"

\* What on_try_extract_frame finds at the front of a buffer.
Found(b) == IF Len(b) < HeaderLen THEN "none"
            ELSE IF TooLong(HeaderValue(b)) THEN "error"
            ELSE IF Len(b) < HeaderLen + HeaderValue(b) THEN "none"
            ELSE "frame"

\* Mutant: the payload is cut out one byte early.
FrameEarly(b) == SubSeq(b, HeaderLen, HeaderLen + HeaderValue(b) - 1)

Frame(b) == SubSeq(b, HeaderLen + 1, HeaderLen + HeaderValue(b))
Rest(b) == SubSeq(b, HeaderLen + HeaderValue(b) + 1, Len(b))

\* One round of the inner loop without a frame: wait for more bytes or give up.
NoFrame == /\ pc = "extract"
           /\ Found(buffer) # "frame"
           /\ pc' = IF Found(buffer) = "error" THEN "error" ELSE "read"
           /\ UNCHANGED <<posted, flight, ended, buffer, frames>>

\* Mutant: one frame per read.
RecvFrameOnce == /\ pc = "extract"
                 /\ Found(buffer) = "frame"
                 /\ frames' = Append(frames, Frame(buffer))
                 /\ buffer' = Rest(buffer)
                 /\ pc' \in {"read", "rejected"}
                 /\ UNCHANGED <<posted, flight, ended>>

\* One round with a frame: on_recv_frame takes it, or fails and ends the loop.
RecvFrame == /\ pc = "extract"
             /\ Found(buffer) = "frame"
             /\ frames' = Append(frames, Frame(buffer))
             /\ buffer' = Rest(buffer)
             /\ pc' \in {"extract", "rejected"}
             /\ UNCHANGED <<posted, flight, ended>>

Next == \/ \E p \in Payload : Send(p)
        \/ PeerCloses
        \/ \E n \in 1..Len(flight) : ReadBuf(n)
        \/ ReadEof \/ ReadFails
        \/ NoFrame
        \/ RecvFrame

Spec == Init /\ [][Next]_vars

\* The runtime polls a session whose socket is readable; the peer is free.
ReadSome == \E n \in 1..Len(flight) : ReadBuf(n)
Fairness == /\ WF_vars(ReadSome)
            /\ WF_vars(NoFrame \/ RecvFrame)

FairSpec == Spec /\ Fairness

-----------------------------------------------------------------------------
\* Whatever the chunks, on_recv_frame gets the messages of the peer, unchanged
\* and in order: no cut inside a header or a payload shifts the frame boundary.
FramesExact == IsPrefix(frames, posted)

\* When poll_read waits for the socket, the next message is not already in the
\* buffer in full: no message sits there until the peer happens to send more.
NoFrameHeldBack ==
  pc = "read" /\ Len(frames) < Len(posted) =>
     Len(buffer) < HeaderLen + Len(posted[Len(frames) + 1])

\* The session is closed with "Message too long" only for a message that is
\* empty or has Limit bytes or more, and no message behind one is delivered.
ErrorOnlyForBadLength ==
  LET bad(p) == Len(p) = 0 \/ Len(p) >= Limit
  IN  /\ \A i \in 1..Len(frames) : ~bad(frames[i])
      /\ pc = "error" =>
            Len(frames) < Len(posted) /\ bad(posted[Len(frames) + 1])

\* Every message sent is delivered, unless one before it ended the session or
\* the connection broke; a peer that closes right after writing loses nothing.
Posted(k) == Len(posted) >= k
Settled(k) == Len(frames) >= k \/ pc \in {"error", "rejected", "reset"}
Delivered == \A k \in 1..MaxFrames : Posted(k) ~> Settled(k)
=============================================================================
