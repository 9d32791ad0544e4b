----------------------------- MODULE Interrupter -----------------------------
(***************************************************************************)
(* The descriptor that threads write to so that the worker of a service    *)
(* leaves its poll: an eventfd (with a pipe to fall back on), a pipe, or a *)
(* pair of sockets over the loopback address.  The worker empties it after *)
(* every poll it ended, and only then looks at what it was woken for.      *)
(***************************************************************************)
EXTENDS Integers, FiniteSetsExt

CONSTANTS Kind,       \* "eventfd", "pipe" or "socket"
          Threads,    \* threads that call wakeup()
          Capacity,   \* what the kernel holds for the reader
          Chunk,      \* sizeof(data): bytes that one read takes
          MaxPosts,   \* bound: requests of each thread
          Resets      \* the kernel may break the pair of sockets

VARIABLES form,      \* "counter" (an eventfd), "bytes" or "closed"
          pending,   \* the counter, or the bytes not yet read
          watched,   \* the read descriptor is the one that the poll has
          worker,    \* "open", "poll", "read", "recreate", "pass" or "thrown"
          thread,    \* a thread: "idle", "posted" (not yet interrupted)
          work,      \* requests that the worker has not seen
          posts,     \* requests each thread has made
          broken     \* the read descriptor reports end of file

vars == <<form, pending, watched, worker, thread, work, posts, broken>>

Init == /\ form = "closed" /\ pending = 0 /\ watched = FALSE /\ broken = FALSE
        /\ worker = "open" /\ thread = [t \in Threads |-> "idle"] /\ work = {}
        /\ posts = [t \in Threads |-> 0]

\* What the descriptors are when they are open.
Opened(f) == /\ form' = f /\ pending' = 0 /\ broken' = FALSE
             /\ UNCHANGED <<thread, work, posts>>
Throws == /\ form' = "closed" /\ pending' = 0 /\ worker' = "thrown"
          /\ UNCHANGED <<watched, thread, work, posts, broken>>

\* open_descriptors of an eventfd: one descriptor, or a pipe if the kernel
\* has no eventfd; without either it throws.
OpenEventfd == Kind = "eventfd" /\ (Opened("counter") \/ Opened("bytes"))

\* open_descriptors of a pipe.
OpenPipe == Kind = "pipe" /\ Opened("bytes")

\* open_descriptors of a pair of sockets: an acceptor on the loopback address
\* (bind, listen), a connection to it (connect), and its other end (accept).
OpenSocket == Kind = "socket" /\ Opened("bytes")

\* The constructor of the watcher registers the read descriptor; recreate
\* comes too late for that.
Open == /\ worker = "open"
        /\ OpenEventfd \/ OpenPipe \/ OpenSocket
        /\ worker' = "poll" /\ watched' = TRUE
OpenFails == worker = "open" /\ Throws

Recreates == /\ worker = "recreate"
             /\ OpenEventfd \/ OpenPipe \/ OpenSocket
             /\ worker' = "pass" /\ watched' = FALSE

\* A thread asks for something (open, close, write...) and calls wakeup().
Posts(t) == /\ thread[t] = "idle" /\ form # "closed"
            /\ posts[t] < MaxPosts /\ posts' = [posts EXCEPT ![t] = @ + 1]
            /\ thread' = [thread EXCEPT ![t] = "posted"]
            /\ work' = work \union {t}
            /\ UNCHANGED <<form, pending, watched, worker, broken>>

\* Mutant: a write into a full pipe empties it.
WrapsAround == IF pending = Capacity THEN 0 ELSE pending + 1

\* One more; a full pipe, or counter, refuses the write.
Added == Min({pending + 1, Capacity})

\* interrupt of an eventfd adds to its counter, or writes to the pipe.
InterruptEventfd == Kind = "eventfd" /\ pending' = Added
InterruptPipe == Kind = "pipe" /\ pending' = Added
InterruptSocket == Kind = "socket" /\ pending' = Added
Interrupts(t) == /\ thread[t] = "posted"
                 /\ InterruptEventfd \/ InterruptPipe \/ InterruptSocket
                 /\ thread' = [thread EXCEPT ![t] = "idle"]
                 /\ UNCHANGED <<form, watched, worker, work, posts, broken>>

\* poll_io returns because of the interrupter.
Wakes == /\ worker = "poll" /\ watched /\ (pending > 0 \/ broken)
         /\ worker' = "read"
         /\ UNCHANGED <<form, pending, watched, thread, work, posts, broken>>

\* The kernel resets the loopback connection.
Breaks == /\ Resets /\ Kind = "socket" /\ form = "bytes" /\ ~broken
          /\ broken' = TRUE /\ pending' = 0
          /\ UNCHANGED <<form, watched, worker, thread, work, posts>>

\* Mutant: after a full chunk the reset is done.
NoMore(n) == "pass"

\* After a read of n bytes: a full chunk may not have been all.
AfterRead(n) == IF n = Chunk THEN "read" ELSE "pass"

\* reset of an eventfd, and of the pipe it fell back on.
ResetEventfd ==
  /\ Kind = "eventfd"
  /\ IF form = "counter" THEN pending' = 0 /\ worker' = "pass"
     ELSE LET n == Min({Chunk, pending}) IN
          pending' = pending - n /\ worker' = AfterRead(n)

\* reset of a pipe: EAGAIN on an empty one is success.
ResetPipe ==
  /\ Kind = "pipe"
  /\ LET n == Min({Chunk, pending}) IN pending' = pending - n /\ worker' = AfterRead(n)

\* reset of the sockets: end of file, or an error, is a failure.
ResetSocket ==
  /\ Kind = "socket"
  /\ IF broken THEN worker' = "recreate" /\ UNCHANGED pending
     ELSE LET n == Min({Chunk, pending}) IN pending' = pending - n /\ worker' = AfterRead(n)

Reads == /\ worker = "read"
         /\ ResetEventfd \/ ResetPipe \/ ResetSocket
         /\ UNCHANGED <<form, watched, thread, work, posts, broken>>

\* The pass over transports and channels sees every request.
Pass == /\ worker = "pass" /\ worker' = "poll" /\ work' = {}
        /\ UNCHANGED <<form, pending, watched, thread, posts, broken>>

Worker == Open \/ Wakes \/ Reads \/ Recreates \/ Pass
Next == \/ Worker \/ OpenFails \/ Breaks
        \/ \E t \in Threads : Posts(t) \/ Interrupts(t)
        \/ (worker \in {"thrown", "poll"}) /\ UNCHANGED vars

Spec == Init /\ [][Next]_vars
FairSpec == /\ Spec /\ WF_vars(Open \/ OpenFails) /\ WF_vars(Wakes) /\ WF_vars(Reads)
            /\ WF_vars(Recreates) /\ WF_vars(Pass)
            /\ \A t \in Threads : WF_vars(Interrupts(t))

-----------------------------------------------------------------------------
\* No request is left behind in a sleeping worker: while it polls, a request
\* whose thread has called interrupt() has left something to wake it, however
\* full the pipe was and wherever the reads of reset were when it came.
NoneSleeps == (worker = "poll" /\ \E t \in work : thread[t] = "idle") => (pending > 0 \/ broken)

\* The worker comes to every request.
Asking(t) == t \in work
AllSeen == \A t \in Threads : Asking(t) ~> ~Asking(t)

\* The worker does not make a pass over bytes it has already answered: the
\* interrupter is empty at the end of reset unless a thread wrote meanwhile.
Empties == (Reads /\ worker' = "pass") => pending' = 0
EmptiedOnce == [][Empties]_vars

\* "This file descriptor is passed to select": the poll has the descriptor
\* that interrupt() makes readable.
PassedToSelect == worker = "poll" => watched
=============================================================================
