----------------------------- MODULE SendQueue -----------------------------
(***************************************************************************)
(* The sending side of a yasio transport: callers on any thread append to  *)
(* send_queue_ and wake the worker; the worker sends a piece of the first  *)
(* operation on each pass, registers for POLLOUT while the kernel's buffer *)
(* is full, and completes operations in order (write, do_write).  A UDP    *)
(* transport may be connected or not, and may change between the two.      *)
(***************************************************************************)
EXTENDS Integers, SequencesExt, FiniteSetsExt

CONSTANTS Sizes,      \* sizes of the buffers callers write
          Room,       \* bytes the kernel's socket buffer holds
          Udp,        \* a UDP transport
          Mss,        \* yasio__udp_mss
          Changes,    \* bound: changes of the 4-tuple association (YOPT_T_*)
          MaxOps      \* bound: operations written

SendAssumption == /\ Sizes \subseteq Nat /\ Room \in Nat \ {0} /\ Mss \in Nat \ {0}
                  /\ Udp \in BOOLEAN /\ Changes \in Nat /\ MaxOps \in Nat

VARIABLES queue,      \* send_queue_: [id, size, off, to], to: carries a destination
          kernel,     \* bytes in the kernel's buffer, by operation
          wire,       \* history: bytes sent, by operation
          done,       \* history: completions, [id, size, error, count]
          nops,       \* operations written
          pollout,    \* pollout_registerred_
          wait,       \* FALSE: wait_duration_ = 0
          woken,      \* the interrupter was signalled
          pc,         \* the worker: "poll", "write" or "closed"
          connected,  \* connected_ (a TCP transport always is)
          changes, undefined

vars == <<queue, kernel, wire, done, nops, pollout, wait, woken, pc, connected, changes, undefined>>
worker == <<kernel, wire, done, pollout, wait, pc>>

Init == /\ queue = <<>> /\ kernel = <<>> /\ wire = <<>> /\ done = <<>> /\ nops = 0
        /\ pollout = FALSE /\ wait = TRUE /\ woken = FALSE /\ pc = "poll"
        /\ connected \in (IF Udp THEN BOOLEAN ELSE {TRUE})
        /\ changes = 0 /\ undefined = FALSE

\* Mutant: a new operation overtakes the ones in the queue.
Overtakes(q, op) == <<op>> \o q

Queued(q, op) == Append(q, op)

Op(n) == [id |-> nops + 1, size |-> n, off |-> 0, to |-> ~connected]

\* Mutant: the operation is queued and the worker is not told.
NoWakeup == woken' = woken

Wakeup == woken' = TRUE

\* io_service::write and io_transport::write, on any thread; an empty buffer
\* is ignored.
Write(n) == /\ pc # "closed" /\ nops < MaxOps /\ n > 0
            /\ queue' = Queued(queue, Op(n)) /\ nops' = nops + 1
            /\ Wakeup
            /\ UNCHANGED <<worker, connected, changes, undefined>>

\* YOPT_T_CONNECT and YOPT_T_DISCONNECT change write_cb_ under the worker.
Reassociate == /\ Udp /\ pc # "closed" /\ changes < Changes
               /\ connected' = ~connected /\ changes' = changes + 1
               /\ UNCHANGED <<queue, nops, woken, worker, undefined>>

\* The kernel transmits from the head of its buffer.
Transmit == /\ kernel # <<>>
            /\ wire' = Append(wire, Head(kernel)) /\ kernel' = Tail(kernel)
            /\ UNCHANGED <<queue, done, nops, pollout, wait, woken, pc, connected, changes, undefined>>

Free == Room - Len(kernel)

\* run: poll_io blocks until it is woken, until POLLOUT is reported, or not
\* at all; another event or the timeout may end it too.
MayReturn == woken \/ ~wait \/ (pollout /\ Free > 0)
Poll == /\ pc = "poll" /\ pc' = "write"
        /\ woken' = FALSE /\ wait' = TRUE
        /\ UNCHANGED <<queue, kernel, wire, done, nops, pollout, connected, changes, undefined>>

\* complete_op: the handler is called, then the operation leaves the queue;
\* the handler may write again.
Complete(op, error, count) ==
  /\ done' = Append(done, [id |-> op.id, size |-> op.size,
                            error |-> error, count |-> count])
  /\ \/ queue' = Tail(queue) /\ UNCHANGED <<nops, woken>>
     \/ /\ nops < MaxOps
        /\ \E n \in Sizes \ {0} : queue' = Queued(Tail(queue), Op(n))
        /\ nops' = nops + 1 /\ Wakeup

\* Mutant: work that is left over is forgotten.
LeavesWork(q, full) == wait' = TRUE /\ pollout' = (q # <<>> /\ full)

\* The end of do_write: what is left in the queue decides how to wait.
Rearm(q, full) == /\ wait' = (q = <<>> \/ full)
                  /\ pollout' = (q # <<>> /\ full)

\* Mutant: the whole operation is complete after a partial send.
Ended(op, n) == TRUE

Finished(op, n) == op.off + n = op.size

\* call_write takes n bytes of the first operation to the kernel.
Send == /\ pc = "write" /\ queue # <<>> /\ Free > 0
        /\ LET op == Head(queue)
               most == IF Udp THEN Min({op.size - op.off, Mss}) ELSE op.size - op.off
           IN /\ connected \/ op.to
              /\ \E n \in (IF Udp THEN {most} ELSE 1..Min({most, Free})) :
                   /\ n <= Free
                   /\ kernel' = kernel \o [i \in 1..n |-> op.id]
                   /\ IF Finished(op, n) THEN Complete(op, 0, op.off + n)
                      ELSE /\ queue' = [queue EXCEPT ![1].off = @ + n]
                           /\ UNCHANGED <<done, nops, woken>>
        /\ Rearm(queue', FALSE)
        /\ pc' = "poll"
        /\ UNCHANGED <<wire, connected, changes, undefined>>

\* EWOULDBLOCK, EAGAIN or ENOBUFS: the kernel's buffer is full.
Full == /\ pc = "write" /\ queue # <<>>
        /\ LET op == Head(queue) IN
           /\ connected \/ op.to
           /\ Free < IF Udp THEN Min({op.size - op.off, Mss}) ELSE 1
        /\ Rearm(queue, TRUE)
        /\ pc' = "poll"
        /\ UNCHANGED <<queue, kernel, wire, done, nops, woken, connected, changes, undefined>>

\* Any other error closes a TCP transport; UDP drops the operation.
Fails == /\ pc = "write" /\ queue # <<>> /\ (connected \/ Head(queue).to)
         /\ IF Udp
            THEN /\ Complete(Head(queue), 1, Head(queue).off)
                 /\ Rearm(queue', FALSE) /\ pc' = "poll"
            ELSE /\ pc' = "closed" /\ queue' = <<>>
                 /\ UNCHANGED <<done, nops, woken, wait, pollout>>
         /\ UNCHANGED <<kernel, wire, connected, changes, undefined>>

\* sendto through the null destination of an io_send_op.
NoDestination == /\ pc = "write" /\ queue # <<>> /\ ~connected /\ ~Head(queue).to
                 /\ undefined' = TRUE /\ pc' = "closed"
                 /\ UNCHANGED <<queue, kernel, wire, done, nops, pollout, wait, woken, connected, changes>>

Nothing == /\ pc = "write" /\ queue = <<>>
           /\ Rearm(queue, FALSE) /\ pc' = "poll"
           /\ UNCHANGED <<queue, kernel, wire, done, nops, woken, connected, changes, undefined>>

DoWrite == Send \/ Full \/ Fails \/ NoDestination \/ Nothing

Next == (\E n \in Sizes : Write(n)) \/ Reassociate \/ Transmit \/ Poll \/ DoWrite

Spec == Init /\ [][Next]_vars

\* The worker returns from poll when the code lets it, runs its pass, and the
\* kernel transmits.
FairSpec == Spec /\ WF_vars(MayReturn /\ Poll) /\ WF_vars(DoWrite) /\ WF_vars(Transmit)

-----------------------------------------------------------------------------
Output == wire \o kernel
Count(s, id) == Cardinality({i \in DOMAIN s : s[i] = id})

\* The bytes of different operations are never mixed or reordered, whichever
\* threads wrote them and however often the kernel took only a part.
BytesInOrder == \A i, j \in DOMAIN Output : i <= j => Output[i] <= Output[j]

\* A handler is called once, in the order of the writes, and reports success
\* only when the kernel has taken every byte.
CompletesInOrder ==
  /\ \A i, j \in DOMAIN done : i < j => done[i].id < done[j].id
  /\ \A i \in DOMAIN done : /\ Count(Output, done[i].id) = done[i].count
                              /\ done[i].error = 0 => done[i].count = done[i].size
  /\ \A i \in DOMAIN queue : Count(Output, queue[i].id) = queue[i].off
  /\ Len(done) + Len(queue) = nops \/ pc = "closed"

\* The worker never blocks with something to send unless the kernel has no
\* room for it and POLLOUT is registered.
NoLostWakeup == pc = "poll" /\ queue # <<>> /\ ~woken /\ wait => pollout

\* Every operation that was accepted is completed, unless the transport is
\* closed.
Accepted(id) == nops >= id
Completed(id) == pc = "closed" \/ \E i \in DOMAIN done : done[i].id = id
AllComplete == \A id \in 1..MaxOps : Accepted(id) ~> Completed(id)

\* assert(destination): an operation is only sent by the primitive it was
\* made for.
HasDestination == ~undefined
=============================================================================
