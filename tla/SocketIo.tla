------------------------------ MODULE SocketIo -------------------------------
(***************************************************************************)
(* yasio/xxsocket.cpp: send_n, recv_n and the select they wait with.  The  *)
(* kernel moves any part of what is asked, refuses for the time being, is  *)
(* interrupted, fails, or finds the peer gone.                             *)
(***************************************************************************)
EXTENDS Integers

CONSTANTS MaxLen,      \* the largest len
          MaxTimeout   \* the longest timeout, in ticks

SocketIoAssumption == MaxLen \in Nat /\ MaxTimeout \in Nat

Transient == {"EAGAIN", "EINTR", "ENOBUFS"}
Hard == {"ECONNRESET"}

VARIABLES op,       \* "send_n" or "recv_n"
          len, bytes_transferred,
          budget,   \* wtimeout as it was passed
          wtimeout, \* what is left of it
          sel,      \* the wtimeout of the running select
          pc,       \* "io", "select" or "done"
          errno,
          moved,    \* bytes the kernel moved
          slept,    \* time spent waiting
          why       \* the last thing the kernel said
vars == <<op, len, bytes_transferred, budget, wtimeout, sel, pc, errno, moved, slept, why>>

Init == /\ op \in {"send_n", "recv_n"}
        /\ len \in 0..MaxLen
        /\ budget \in 0..MaxTimeout
        /\ wtimeout = budget
        /\ bytes_transferred = 0 /\ moved = 0 /\ slept = 0 /\ sel = 0
        /\ pc = "io"
        /\ errno = "0"
        /\ why = "moved"

not_send_error(e) == e \in {"EAGAIN", "EINTR", "ENOBUFS"}
not_recv_error(e) == e \in {"EAGAIN", "EINTR"}
not_error(e) == IF op = "send_n" THEN not_send_error(e) ELSE not_recv_error(e)

\* for (; bytes_transferred < len;)
Loop(n) == IF n < len THEN "io" ELSE "done"

\* The form that counts what it asked for.
CountsAsked(n) == len - bytes_transferred
\* n = send(...) > 0; n bytes were moved.
Counts(n) == n

Moves ==
  \E n \in 1..(len - bytes_transferred) :
    /\ pc = "io" /\ bytes_transferred < len
    /\ moved' = moved + n
    /\ bytes_transferred' = bytes_transferred + Counts(n)
    /\ pc' = Loop(bytes_transferred')
    /\ why' = "moved"
    /\ UNCHANGED <<op, len, budget, wtimeout, sel, errno, slept>>

\* send or recv returned -1.
Fails ==
  \E e \in Transient \cup Hard :
    /\ pc = "io" /\ bytes_transferred < len
    /\ e = "ENOBUFS" => op = "send_n"
    /\ errno' = e /\ why' = e
    /\ IF not_error(e) THEN pc' = "select" /\ sel' = wtimeout ELSE pc' = "done" /\ sel' = sel
    /\ UNCHANGED <<op, len, bytes_transferred, budget, wtimeout, moved, slept>>

\* recv returned 0: errno is not touched.
Closed ==
  /\ pc = "io" /\ bytes_transferred < len /\ op = "recv_n"
  /\ pc' = "done" /\ why' = "closed"
  /\ UNCHANGED <<op, len, bytes_transferred, budget, wtimeout, sel, errno, moved, slept>>

Empty == /\ pc = "io" /\ bytes_transferred >= len
         /\ pc' = "done"
         /\ UNCHANGED <<op, len, bytes_transferred, budget, wtimeout, sel, errno, moved, slept, why>>

\* The form that starts the whole wait again after a signal.
Restarts(d) == wtimeout
\* wtimeout -= highp_clock() - start, in select
Remaining(d) == sel - d

\* wtimeout -= highp_clock() - start, in send_n: what select took in all.
Charge(d) == wtimeout - d

\* The form that takes a ready socket for a timeout.
OnlyTimed(n) == Charge(slept' - (budget - wtimeout)) > 0 /\ n = 0
\* rtn != -1 && wtimeout.count() > 0
GoesOn(n) == n # -1 /\ Charge(slept' - (budget - wtimeout)) > 0

\* ::select took d and returned n (-1 with e).
Selects ==
  \E d \in 0..sel :
    /\ pc = "select"
    /\ slept' = slept + d
    /\ \/ /\ why' = "EINTR" /\ Remaining(d) > 0    \* interrupted: once more
          /\ sel' = Remaining(d) /\ errno' = "EINTR"
          /\ UNCHANGED <<pc, wtimeout>>
       \/ \E n \in {-1, 0, 1} :
            /\ n = 0 => d = sel                      \* the time is up, or a signal at its end
            /\ why' = CASE n = -1 -> "EBADF" [] n = 0 -> "timeout" [] OTHER -> "ready"
            /\ errno' = CASE n = -1 -> "EBADF" [] n = 0 -> "ETIMEDOUT" [] OTHER -> errno
            /\ sel' = 0
            /\ wtimeout' = Charge(slept' - (budget - wtimeout))
            /\ pc' = IF GoesOn(n) THEN "io" ELSE "done"
    /\ UNCHANGED <<op, len, bytes_transferred, budget, moved>>

Done == pc = "done" /\ UNCHANGED vars
Next == Moves \/ Fails \/ Closed \/ Empty \/ Selects \/ Done
Spec == Init /\ [][Next]_vars

(***************************************************************************)
(* Properties.                                                             *)
(***************************************************************************)
\* What is returned is what was moved, never more than was asked.
ReportsMoved == bytes_transferred = moved /\ moved <= len

\* All the waits together take no longer than the timeout, signals or not.
WaitBounded == slept <= budget

\* A transfer stops short only when the time is up, the peer is gone, or a
\* call failed for good: not for a signal or a full buffer with time left.
ShortHasReason ==
  (pc = "done" /\ bytes_transferred < len)
    => why \in Hard \cup {"closed", "EBADF"} \/ slept >= budget

\* After a short transfer errno says that something went wrong.
ShortHasErrno == (pc = "done" /\ bytes_transferred < len) => errno # "0"
=============================================================================
