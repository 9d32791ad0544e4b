------------------------------ MODULE IoWatcher ------------------------------
(***************************************************************************)
(* The reactor of a yasio service: the worker waits in poll_io for its     *)
(* sockets and for the interrupter that other threads write to, then makes *)
(* a pass over its transports and its channels, which asks is_ready for    *)
(* each of them and registers or withdraws events with mod_event.          *)
(*                                                                         *)
(* The watcher exists five times, over select, poll, epoll, kqueue and     *)
(* event ports; Backend picks one.  Descriptors are reused: a socket that  *)
(* is opened gets the number of one that was closed.                       *)
(***************************************************************************)
EXTENDS Integers, SequencesExt, FiniteSetsExt

CONSTANTS Backend,    \* "select", "poll", "epoll", "kqueue" or "evport"
          Fds,        \* descriptors of sockets
          ZeroWait,   \* some passes are made without polling (wait_duration_ = 0)
          MaxWakes,   \* bound: bytes the interrupter holds
          MaxRoom     \* bound: max_events_ of kqueue

VARIABLES table,    \* events_: what the watcher believes is registered
          kernel,   \* what the kernel watches (epoll, kqueue, event ports)
          room,     \* max_events_; max_descriptor_ of select
          revents,  \* revents_: the array of reported events
          nrev,     \* nrevents_
          intr,     \* bytes waiting in the interrupter
          pc,       \* the worker: "top", "blocked", "transports" or "channels"
          todo,     \* sockets not yet looked at in this part of the pass
          polled,   \* this pass follows a poll
          sock,     \* socket of a descriptor: "free", "connecting", "open"
          pollout,  \* pollout_registerred_
          ready,    \* events that hold on a socket
          shaken,   \* its handshake is done, or has failed
          called,   \* history: wakeup() was called since the last poll
          early     \* history: a connection was reported before its handshake ended

wvars == <<table, kernel, room, revents, nrev>>
svars == <<sock, pollout, shaken, early>>
vars == <<wvars, svars, intr, pc, todo, polled, ready, called>>

Events == {"r", "w"}
Queued == Backend \in {"epoll", "kqueue", "evport"}
Watched == IF Queued THEN kernel ELSE table
Zero == [fd |-> 0, ev |-> {}]
Registered(t) == {f \in Fds : t[f] # {}}

\* Mutant: the constructor does not register the interrupter.
Unregistered ==
  /\ table = [f \in Fds |-> {}] /\ kernel = [f \in Fds |-> {}]
  /\ room = 0
  /\ revents = <<>> /\ nrev = 0 /\ intr = 0

\* The watcher as its constructor leaves it: the interrupter is registered,
\* except with event ports, which have none.
InitWatcher ==
  /\ table = [f \in Fds |-> {}] /\ kernel = [f \in Fds |-> {}]
  /\ room = IF Backend = "evport" THEN 0 ELSE 1
  /\ revents = <<>> /\ nrev = 0 /\ intr = 0

Init == /\ InitWatcher
        /\ pc = "top" /\ todo = {} /\ polled = TRUE /\ called = FALSE /\ early = FALSE
        /\ sock = [f \in Fds |-> "free"] /\ pollout = {} /\ shaken = {}
        /\ ready = [f \in Fds |-> {}]

-----------------------------------------------------------------------------
\* mod_event

\* FD_SET and FD_CLR in the sets of select.
ModSelect(f, add, remove) ==
  /\ table' = [table EXCEPT ![f] = (@ \union add) \ remove]
  /\ room' = IF add # {} THEN Max({room, f + 1}) ELSE room
  /\ UNCHANGED kernel

\* pollfd_mod: an entry without events leaves the list.
ModPoll(f, add, remove) ==
  /\ table' = [table EXCEPT ![f] = (@ \union add) \ remove]
  /\ UNCHANGED <<kernel, room>>

\* EPOLL_CTL_ADD fails on a descriptor the kernel has, EPOLL_CTL_MOD on one
\* it has not.
CtlFails(f) == (table[f] = {}) # (kernel[f] = {})

\* underlying_events
Underlying(f, add, remove) == (table[f] \union add) \ remove

ModEpoll(f, add, remove) ==
  LET und == Underlying(f, add, remove)
      set(t) == IF und # {} /\ CtlFails(f) THEN t ELSE [t EXCEPT ![f] = und]
  IN /\ table' = set(table) /\ kernel' = set(kernel)
     /\ room' = Min({128, Cardinality(Registered(table')) + 1})

\* port_associate adds a descriptor or replaces its events.
ModEvport(f, add, remove) ==
  /\ table' = [table EXCEPT ![f] = (@ \union add) \ remove]
  /\ kernel' = table'
  /\ room' = Min({128, Cardinality(Registered(table'))})

\* (events >> 1) + 1, the number of filters that a mask stands for.
Filters(s) == LET mask == (IF "r" \in s THEN 1 ELSE 0) + (IF "w" \in s THEN 2 ELSE 0)
              IN IF mask > 0 THEN mask \div 2 + 1 ELSE 0

\* register_event: the mask in events_ is overwritten.
RegisterEvent(f, add) ==
  /\ kernel' = [kernel EXCEPT ![f] = @ \union add]
  /\ table' = [table EXCEPT ![f] = add]
  /\ room' = room + Cardinality(add) - Filters(table[f])

\* What deregister_event adds to max_events_.
Deregistered(f, remove) == Cardinality(remove) - Filters(table[f])

\* deregister_event: EV_DELETE of a filter that is not there fails, after
\* those before it in the list were deleted.
DeregisterEvent(f, remove) ==
  LET ok == remove \subseteq kernel[f]
      deleted == IF "r" \in remove /\ "r" \notin kernel[f] THEN {} ELSE remove
  IN /\ kernel' = [kernel EXCEPT ![f] = @ \ deleted]
     /\ IF ok THEN /\ table' = [table EXCEPT ![f] = @ \ remove]
                   /\ room' = room + Deregistered(f, remove)
              ELSE UNCHANGED <<table, room>>

ModEvent(f, add, remove) ==
  /\ CASE Backend = "select" -> ModSelect(f, add, remove)
       [] Backend = "poll" -> ModPoll(f, add, remove)
       [] Backend = "epoll" -> ModEpoll(f, add, remove)
       [] Backend = "evport" -> ModEvport(f, add, remove)
       [] OTHER -> IF add # {} THEN RegisterEvent(f, add) ELSE DeregisterEvent(f, remove)
  /\ UNCHANGED <<revents, nrev>>

\* Mutant: the descriptor is closed and stays registered.
ClosedOnly(f) ==
  /\ kernel' = [kernel EXCEPT ![f] = {}]
  /\ UNCHANGED <<table, room, revents, nrev>>

\* cleanup_io: the events are withdrawn and the descriptor is closed, which
\* takes it out of the kernel's set in any case.
CleanupIo(f) ==
  IF Backend # "kqueue"
  THEN ModEvent(f, {}, Events)
  ELSE LET ok == Events \subseteq kernel[f] IN
       /\ kernel' = [kernel EXCEPT ![f] = {}]
       /\ table' = IF ok THEN [table EXCEPT ![f] = @ \ Events] ELSE table
       /\ room' = IF ok THEN room + Deregistered(f, Events) ELSE room
       /\ UNCHANGED <<revents, nrev>>

-----------------------------------------------------------------------------
\* poll_io and is_ready

Occurs == {<<f, e>> \in Fds \X Events : e \in Watched[f] \cap ready[f]}
Interrupted == intr > 0

Entry(f, evs) == [fd |-> f, ev |-> evs]
Here(f, some) == Entry(f, {e \in Events : <<f, e>> \in some})

\* select leaves of each set the descriptors that are ready; poll fills in
\* the copy of its list; epoll and event ports report a descriptor once,
\* kqueue once for each filter.
SelectEntries(some) == {Here(f, some) : f \in Fds}
PollEntries(some) == {Here(f, some) : f \in Registered(table)}
EpollEntries(some) == {Here(f, some) : f \in {o[1] : o \in some}}
EvportEntries(some) == {Here(f, some) : f \in {o[1] : o \in some}}
KqueueEntries(some) == {Entry(o[1], {o[2]}) : o \in some}
Entries(some) == CASE Backend = "select" -> SelectEntries(some)
                   [] Backend = "poll" -> PollEntries(some)
                   [] Backend = "epoll" -> EpollEntries(some)
                   [] Backend = "evport" -> EvportEntries(some)
                   [] OTHER -> KqueueEntries(some)

\* Mutant: the array keeps what it held.
Stale(n) == [k \in 1..n |-> IF k <= Len(revents) THEN revents[k] ELSE Zero]

\* revents_.reset(max_events_)
Cleared(n) == [k \in 1..n |-> Zero]

Report(some, me) ==
  LET list == SetToSeq(Entries(some)) \o (IF me THEN <<Entry(0, {"r"})>> ELSE <<>>)
  IN IF ~Queued THEN revents' = list /\ nrev' = Len(list)
     ELSE /\ nrev' = Len(list)
          /\ revents' = list \o SubSeq(Cleared(room), Len(list) + 1, room)

\* Mutant: the interrupter is not emptied.
KeepsBytes == intr

\* select_interrupter::reset reads all there is; the one shot of epoll is
\* spent; the event sent to an event port is delivered.
Emptied == 0

\* The poll ends with as many events as there is room for, or times out.
PollReturns ==
  /\ pc = "blocked"
  /\ \E some \in SUBSET Occurs, me \in BOOLEAN :
       /\ me => Interrupted
       /\ LET all == Cardinality(Entries(Occurs)) + (IF Interrupted THEN 1 ELSE 0)
              n == Cardinality(Entries(some)) + (IF me THEN 1 ELSE 0)
          IN IF Queued THEN n = Min({all, room}) ELSE some = Occurs /\ me = Interrupted
       /\ Report(some, me)
       /\ intr' = IF me THEN Emptied ELSE intr
  /\ pc' = "transports" /\ polled' = TRUE /\ called' = FALSE
  /\ todo' = {f \in Fds : sock[f] = "open"}
  /\ UNCHANGED <<table, kernel, room, svars, ready>>

\* is_ready.  The watchers with an array take the first entry of the
\* descriptor or, when there is none, the entry behind the last reported.
First(hits) == IF hits # {} THEN Min(hits) ELSE nrev + 1
At(i, evs) == IF i > Len(revents) THEN {} ELSE revents[i].ev \cap evs
Of(f) == {i \in 1..nrev : revents[i].fd = f}
SelectReady(f, evs) == UNION {revents[i].ev \cap evs : i \in Of(f)}
PollReady(f, evs) == At(First(Of(f)), evs)
EpollReady(f, evs) == At(First(Of(f)), evs)
EvportReady(f, evs) == At(First(Of(f)), evs)
KqueueReady(f, evs) == At(First({i \in Of(f) : revents[i].ev \subseteq evs}), evs)
IsReady(f, evs) == CASE Backend = "select" -> SelectReady(f, evs)
                     [] Backend = "poll" -> PollReady(f, evs)
                     [] Backend = "epoll" -> EpollReady(f, evs)
                     [] Backend = "evport" -> EvportReady(f, evs)
                     [] OTHER -> KqueueReady(f, evs)

\* Mutant: nothing is written.
WritesNothing == intr

\* interrupt() writes to the interrupter; wakeup() of epoll arms its one
\* shot again, and that of event ports sends an event.
Interrupt == Min({intr + 1, IF Backend = "epoll" THEN 1 ELSE MaxWakes})

\* A thread calls wakeup().
Wakeup == /\ intr' = Interrupt
          /\ called' = TRUE
          /\ UNCHANGED <<wvars, svars, pc, todo, polled, ready>>

-----------------------------------------------------------------------------
\* run: a pass of the worker

\* Mutant: a pass may follow a pass whatever the time to wait.
TopUnpolled == /\ pc = "top"
               /\ pc' = "transports" /\ polled' = FALSE
               /\ todo' = {f \in Fds : sock[f] = "open"}
               /\ UNCHANGED <<wvars, svars, intr, ready, called>>
             \/ /\ pc = "top" /\ pc' = "blocked"
                /\ UNCHANGED <<wvars, svars, intr, ready, called, todo, polled>>

\* Poll, or go on at once.
Top == /\ pc = "top"
       /\ \/ /\ pc' = "blocked" /\ UNCHANGED <<todo, polled>>
          \/ /\ ZeroWait
             /\ pc' = "transports" /\ polled' = FALSE
             /\ todo' = {f \in Fds : sock[f] = "open"}
       /\ UNCHANGED <<wvars, svars, intr, ready, called>>

Worker == <<intr, pc, polled, called>>
Done(f) == f \in todo /\ todo' = todo \ {f}
Free(f) == /\ sock' = [sock EXCEPT ![f] = "free"] /\ pollout' = pollout \ {f}
           /\ shaken' = shaken \ {f} /\ ready' = [ready EXCEPT ![f] = {}]

\* do_read and do_write of a transport.
Transport(f) ==
  /\ pc = "transports" /\ Done(f)
  /\ \/ \* all is read; the send queue goes out, or there was none
        /\ ready' = [ready EXCEPT ![f] = @ \ IsReady(f, {"r"})]
        /\ IF f \in pollout /\ "w" \in ready[f] THEN ModEvent(f, {}, {"w"}) ELSE UNCHANGED wvars
        /\ pollout' = IF "w" \in ready[f] THEN pollout \ {f} ELSE pollout
        /\ UNCHANGED <<sock, shaken, early>>
     \/ \* the kernel's buffer is full
        /\ ready' = [ready EXCEPT ![f] = @ \ (IsReady(f, {"r"}) \union {"w"})]
        /\ IF f \in pollout THEN UNCHANGED wvars ELSE ModEvent(f, {"w"}, {})
        /\ pollout' = pollout \union {f}
        /\ UNCHANGED <<sock, shaken, early>>
     \/ \* handle_close
        CleanupIo(f) /\ Free(f) /\ UNCHANGED early
  /\ UNCHANGED Worker

\* do_connect, or do_accept_completion for a connection taken in.
Opens(f) ==
  /\ pc = "channels" /\ sock[f] = "free" /\ Done(f)
  /\ \/ /\ room < MaxRoom
        /\ sock' = [sock EXCEPT ![f] = "connecting"] /\ ModEvent(f, Events, {})
        /\ UNCHANGED <<shaken, ready>>
     \/ /\ room < MaxRoom
        /\ sock' = [sock EXCEPT ![f] = "open"] /\ ModEvent(f, {"r"}, {})
        /\ shaken' = shaken \union {f} /\ ready' = [ready EXCEPT ![f] = {"w"}]
     \/ \* nothing to open
        UNCHANGED <<wvars, sock, shaken, ready>>
  /\ UNCHANGED <<pollout, early, Worker>>

\* do_connect_completion; SO_ERROR is 0 unless the handshake has failed.
Completes(f) ==
  /\ pc = "channels" /\ sock[f] = "connecting" /\ Done(f)
  /\ IF IsReady(f, Events) = {} THEN UNCHANGED <<wvars, svars, ready>>
     ELSE \/ /\ sock' = [sock EXCEPT ![f] = "open"] /\ ModEvent(f, {}, {"w"})
             /\ early' = (early \/ f \notin shaken)
             /\ UNCHANGED <<pollout, shaken, ready>>
          \/ f \in shaken /\ CleanupIo(f) /\ Free(f) /\ UNCHANGED early
  /\ UNCHANGED Worker

\* An open socket has no channel operation, and a server's is like Opens.
Passed(f) == /\ pc = "channels" /\ sock[f] = "open" /\ Done(f)
             /\ UNCHANGED <<wvars, svars, ready, Worker>>

\* process_timers: the timer of a connect runs out.
ConnectTimeout(f) ==
  /\ pc = "top" /\ sock[f] = "connecting"
  /\ CleanupIo(f) /\ Free(f) /\ UNCHANGED <<early, todo, Worker>>

NextPart == /\ todo = {}
            /\ \/ pc = "transports" /\ pc' = "channels" /\ todo' = Fds
               \/ pc = "channels" /\ pc' = "top" /\ UNCHANGED todo
            /\ UNCHANGED <<wvars, svars, intr, polled, ready, called>>

-----------------------------------------------------------------------------
\* The peers: a handshake ends, bytes arrive, the send buffer drains.
Shakes(f) == /\ sock[f] = "connecting" /\ f \notin shaken
             /\ shaken' = shaken \union {f}
             /\ \E e \in {{"w"}, Events} : ready' = [ready EXCEPT ![f] = e]
             /\ UNCHANGED <<wvars, sock, pollout, early, Worker, todo>>
Arrives(f) == /\ sock[f] = "open" /\ f \in shaken
              /\ \E e \in Events \ ready[f] : ready' = [ready EXCEPT ![f] = @ \union {e}]
              /\ UNCHANGED <<wvars, svars, Worker, todo>>

WorkerStep == \/ Top \/ PollReturns \/ NextPart
              \/ \E f \in Fds : Transport(f) \/ Opens(f) \/ Completes(f) \/ Passed(f)
Next == \/ WorkerStep \/ Wakeup
        \/ \E f \in Fds : Shakes(f) \/ Arrives(f) \/ ConnectTimeout(f)

Spec == Init /\ [][Next]_vars
\* A poll with a descriptor ready does end, and a pass does go on.
FairSpec == /\ Spec
            /\ WF_vars(PollReturns /\ (Occurs # {} \/ Interrupted))
            /\ WF_vars(Top) /\ WF_vars(NextPart)
            /\ \A f \in Fds : WF_vars(Transport(f) \/ Opens(f) \/ Completes(f) \/ Passed(f))

-----------------------------------------------------------------------------
\* The watcher watches what the service needs to hear of, on every socket
\* and on no closed one: do_connect_completion hears of a handshake, do_read
\* of bytes, do_write of a buffer that drains only while its socket is full.
Needed(f) == CASE sock[f] = "free" -> {}
               [] sock[f] = "connecting" -> Events
               [] OTHER -> {"r"} \union (IF f \in pollout THEN {"w"} ELSE {})
WatchesNeeded == \A f \in Fds : Watched[f] = Needed(f)

\* poll_io's assertion: there is room for an event when the worker polls.
RoomToPoll == pc = "blocked" => room > 0

\* What is_ready says after a poll was so: entries of an earlier poll, behind
\* the last one reported, are never taken for events of this one.
ReportIsFresh == (pc = "transports" /\ polled) =>
                   \A f \in todo : IsReady(f, Events) \subseteq ready[f]

\* A poll is ended by the interrupter only if some thread called wakeup()
\* since the last one: interrupt bytes do not make the worker spin.
NoSpin == (pc = "blocked" /\ intr > 0) => called

\* wakeup() ends the poll, whenever it is called (io_service::wakeup).
Blocked == pc = "blocked"
Woken == Blocked /\ called
WakeHeard == Woken ~> ~Blocked

\* A connection is reported when "The nonblocking tcp handshake complete",
\* and not because of an event of the socket that had the descriptor before.
HandshakeDone == ~early
=============================================================================
