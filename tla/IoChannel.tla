----------------------------- MODULE IoChannel -----------------------------
(***************************************************************************)
(* The reactor of yasio's io_service, seen by the TCP client channels it   *)
(* serves: a worker thread runs poll, transports, channels, timers, events *)
(* in a loop, while callers open and close channels from their own thread  *)
(* or from the event handler, which runs on the worker.                    *)
(*                                                                         *)
(* opmask_ is a plain byte that both threads change without a lock: every  *)
(* change is a read and a later write, so that an update can get lost.     *)
(* Descriptors are numbers that the kernel hands out lowest first, and the *)
(* readiness a poll reports is kept by number until the next poll.         *)
(***************************************************************************)
EXTENDS Integers, SequencesExt, FiniteSetsExt

CONSTANTS Channels,    \* TCP client channels
          Named,       \* the channels whose host is a name, not an address
          Fds,         \* descriptor numbers, 1..n
          Careful,     \* callers open only a channel whose end they have seen,
                       \* and no two calls work on one channel at a time
          MaxOpens     \* bound: opens accepted

IoAssumption == /\ Named \subseteq Channels
                /\ Fds = 1..Cardinality(Channels)
                /\ Careful \in BOOLEAN
                /\ MaxOpens \in Nat

VARIABLES
  state, opmask, error,  \* io_base: state_, opmask_, error_ of every channel
  sock,      \* the descriptor of socket_, 0 when it is not open
  eps,       \* remote_eps_ is not empty
  query,     \* a resolver thread is running for the channel
  timer,     \* timer_: "off", "armed" or "due" (armed and expired())
  ops,       \* channel_ops_
  trans,     \* transports_: the channel of each
  events,    \* events_
  kern,      \* what the kernel knows of a descriptor
  reg,       \* events_ of the watcher: what is watched, by descriptor
  ready,     \* revents_ of the watcher: the descriptors the last poll reported
  busy,      \* wait_duration_ is 0: the next iteration does not poll
  pc, at, saved, back,   \* where the worker is, its place in a loop, the
                         \* mask it has read, where a failure returns to
  call,      \* what each caller is doing
  known,     \* what the events dispatched so far say of every channel
  asked,     \* history: opens accepted, by channel
  closing,   \* history: the channels closed since they were last opened
  false_ok   \* history: a handshake was taken for complete and was not

io == <<state, opmask, error, sock, eps, query, timer>>
net == <<kern, reg, ready>>
loop == <<busy, pc, at, saved, back>>
vars == <<io, net, loop, ops, trans, events, call, known, asked, closing, false_ok>>

Callers == {"app", "io"}      \* another thread, and the event handler
Idle == [do |-> "none"]
Event == [c : Channels, kind : {"open", "failed", "close"}]

Init == /\ state = [c \in Channels |-> "CLOSED"]
        /\ opmask = [c \in Channels |-> {}]
        /\ error = [c \in Channels |-> "none"]
        /\ sock = [c \in Channels |-> 0]
        /\ eps = [c \in Channels |-> FALSE]
        /\ query = [c \in Channels |-> FALSE]
        /\ timer = [c \in Channels |-> "off"]
        /\ ops = <<>> /\ trans = <<>> /\ events = <<>>
        /\ kern = [f \in Fds |-> "free"]
        /\ reg = [f \in Fds |-> {}]
        /\ ready = {}
        /\ busy = FALSE /\ pc = "top" /\ at = 1 /\ saved = {} /\ back = "top"
        /\ call = [t \in Callers |-> Idle]
        /\ known = [c \in Channels |-> "idle"]
        /\ asked = [c \in Channels |-> 0]
        /\ closing = {}
        /\ false_ok = FALSE

-----------------------------------------------------------------------------
(* The kernel: a connection attempt ends well, badly or never, and a peer  *)
(* ends a connection.                                                      *)

Turn(f, from, to) == /\ kern[f] = from
                     /\ kern' = [kern EXCEPT ![f] = to]
                     /\ UNCHANGED <<io, reg, ready, loop, ops, trans, events,
                                    call, known, asked, closing, false_ok>>

Kernel == \E f \in Fds : \/ Turn(f, "connecting", "up")
                         \/ Turn(f, "connecting", "refused")
                         \/ Turn(f, "up", "eof")

\* What poll reports of a watched descriptor.
Reported(f) == \/ kern[f] = "up" /\ "w" \in reg[f]
               \/ kern[f] \in {"refused", "eof"} /\ reg[f] # {}

\* The resolver thread of start_query: endpoints, or an error.
Resolved(c, ok) == /\ query[c]
                   /\ query' = [query EXCEPT ![c] = FALSE]
                   /\ eps' = [eps EXCEPT ![c] = ok]
                   /\ error' = IF ok THEN error
                                     ELSE [error EXCEPT ![c] = "failed"]
                   /\ UNCHANGED <<state, opmask, sock, timer, net, loop, ops,
                                  trans, events, call, known, asked, closing, false_ok>>

-----------------------------------------------------------------------------
(* The callers.  The handler runs on the worker, while it dispatches.      *)

MayCall(t, c) == /\ call[t] = Idle
                 /\ t = "io" => pc = "events"
                 /\ Careful => \A o \in Callers : call[o] # Idle => call[o].c # c

\* open_internal reads state_ and opmask_ ...
Open(t, c) ==
  /\ MayCall(t, c)
  /\ SumFunction(asked) < MaxOpens
  /\ Careful => known[c] = "idle"
  /\ state[c] \notin {"CONNECTING", "RESOLVING"}
  /\ call' = [call EXCEPT ![t] = [do |-> "open", c |-> c, mask |-> opmask[c]]]
  /\ known' = [known EXCEPT ![c] = "asked"]
  /\ asked' = [asked EXCEPT ![c] = @ + 1]
  /\ closing' = closing \ {c}
  /\ UNCHANGED <<io, net, loop, ops, trans, events, false_ok>>

\* ... writes opmask_ ...
OpenMask(t) ==
  /\ call[t].do = "open"
  /\ opmask' = [opmask EXCEPT ![call[t].c] = (call[t].mask \ {"CLOSE"}) \cup {"OPEN"}]
  /\ call' = [call EXCEPT ![t] = [do |-> "push", c |-> call[t].c]]
  /\ UNCHANGED <<state, error, sock, eps, query, timer, net, loop, ops, trans,
                 events, known, asked, closing, false_ok>>

\* ... and queues the channel, once process_channels leaves the list alone.
InChannels == pc \in {"channel", "clear", "work"} \/ (pc = "fail" /\ back = "channel")

OpenPush(t) ==
  /\ call[t].do = "push"
  /\ ~InChannels
  /\ ops' = IF Contains(ops, call[t].c) THEN ops ELSE Append(ops, call[t].c)
  /\ call' = [call EXCEPT ![t] = Idle]
  /\ UNCHANGED <<io, net, loop, trans, events, known, asked, closing, false_ok>>

\* close(index) of a channel the caller takes for live.  The handler does not
\* close a channel for ever.
Close(t, c) ==
  /\ MayCall(t, c)
  /\ known[c] # "idle"
  /\ t = "io" => c \notin closing
  /\ "CLOSE" \notin opmask[c]
  /\ call' = [call EXCEPT ![t] = [do |-> "close", c |-> c, mask |-> opmask[c]]]
  /\ closing' = closing \cup {c}
  /\ UNCHANGED <<io, net, loop, ops, trans, events, known, asked, false_ok>>

CloseClear(t) ==
  LET c == call[t].c IN
  /\ call[t].do = "close"
  /\ opmask' = [opmask EXCEPT ![c] = call[t].mask \ {"OPEN"}]
  /\ call' = [call EXCEPT ![t] = IF sock[c] = 0 THEN Idle
                                 ELSE [do |-> "mark", c |-> c, mask |-> opmask'[c]]]
  /\ UNCHANGED <<state, error, sock, eps, query, timer, net, loop, ops, trans,
                 events, known, asked, closing, false_ok>>

CloseMark(t) ==
  /\ call[t].do = "mark"
  /\ opmask' = [opmask EXCEPT ![call[t].c] = call[t].mask \cup {"CLOSE"}]
  /\ call' = [call EXCEPT ![t] = Idle]
  /\ UNCHANGED <<state, error, sock, eps, query, timer, net, loop, ops, trans,
                 events, known, asked, closing, false_ok>>

Caller(t) == \/ \E c \in Channels : Open(t, c) \/ Close(t, c)
             \/ OpenMask(t) \/ OpenPush(t) \/ CloseClear(t) \/ CloseMark(t)

-----------------------------------------------------------------------------
(* The worker: run().                                                      *)

\* current_time_ moves on; get_timeout is not positive when a timer is due.
Top == /\ pc = "top"
       /\ \E due \in SUBSET {c \in Channels : timer[c] = "armed"} :
            timer' = [c \in Channels |-> IF c \in due THEN "due" ELSE timer[c]]
       /\ pc' = IF busy \/ \E c \in Channels : timer'[c] = "due"
                THEN "transport" ELSE "poll"
       /\ at' = 1
       /\ busy' = FALSE
       /\ UNCHANGED <<state, opmask, error, sock, eps, query, net, saved, back,
                      ops, trans, events, call, known, asked, closing, false_ok>>

Poll == /\ pc = "poll"
        /\ ready' = {f \in Fds : Reported(f)}
        /\ pc' = "transport"
        /\ UNCHANGED <<io, kern, reg, busy, at, saved, back, ops, trans, events,
                       call, known, asked, closing, false_ok>>

\* poll fails, EINTR: the loop starts again.
PollFails == /\ pc = "poll"
             /\ ready' = {}
             /\ pc' = "top"
             /\ UNCHANGED <<io, kern, reg, busy, at, saved, back, ops, trans,
                            events, call, known, asked, closing, false_ok>>

Goto(p) == pc' = p /\ at' = 1
Fire(c, kind) == events' = Append(events, [c |-> c, kind |-> kind])

\* Mutant: the closed descriptor stays in the watcher.
ReleaseUnwatched(c) == LET f == sock[c] IN
  /\ sock' = [sock EXCEPT ![c] = 0]
  /\ kern' = IF f = 0 THEN kern ELSE [kern EXCEPT ![f] = "free"]
  /\ reg' = reg

\* cleanup_io gives the descriptor of a channel back.
Release(c) == LET f == sock[c] IN
  /\ sock' = [sock EXCEPT ![c] = 0]
  /\ kern' = IF f = 0 THEN kern ELSE [kern EXCEPT ![f] = "free"]
  /\ reg' = IF f = 0 THEN reg ELSE [reg EXCEPT ![f] = {}]

\* do_read recvs only from a descriptor reported ready.
ReadFails(c) == \/ sock[c] = 0
                \/ sock[c] \in ready /\ kern[sock[c]] \in {"refused", "eof"}

\* Mutant: a request on an open channel is not looked at.
NeverRequest(c) == TRUE

\* The opmask_ that process_transports looks at.
NoRequest(c) == opmask[c] = {}

\* process_transports: nothing to end; more data may be waiting.
TransportStays ==
  /\ pc = "transport" /\ at <= Len(trans)
  /\ ~ReadFails(trans[at])
  /\ NoRequest(trans[at])
  /\ at' = at + 1
  /\ busy' \in {busy, TRUE}
  /\ UNCHANGED <<io, net, pc, saved, back, ops, trans, events, call, known,
                 asked, closing, false_ok>>

TransportsDone ==
  /\ pc = "transport" /\ at > Len(trans)
  /\ Goto("channel")
  /\ UNCHANGED <<io, net, busy, saved, back, ops, trans, events, call, known,
                 asked, closing, false_ok>>

\* handle_close: the event, the descriptor, the memory ...
HandleClose ==
  /\ pc = "transport" /\ at <= Len(trans)
  /\ LET c == trans[at] IN
       /\ ReadFails(c) \/ ~NoRequest(c)
       /\ Fire(c, "close")
       /\ Release(c)
       /\ saved' = opmask[c]
       /\ pc' = "closed"
  /\ UNCHANGED <<state, opmask, error, eps, query, timer, ready, busy, at, back,
                 ops, trans, call, known, asked, closing, false_ok>>

\* Mutant: the transport is not taken off the list.
HandleClosedKept ==
  /\ pc = "closed"
  /\ LET c == trans[at] IN
       /\ opmask' = [opmask EXCEPT ![c] = saved \ {"CLOSE"}]
       /\ error' = [error EXCEPT ![c] = "none"]
       /\ state' = [state EXCEPT ![c] = "CLOSED"]
       /\ pc' = "transport" /\ at' = at + 1
  /\ UNCHANGED <<sock, eps, query, timer, net, busy, saved, back, ops, trans,
                 events, call, known, asked, closing, false_ok>>

\* ... then the mask and the state of the channel.
HandleClosed ==
  /\ pc = "closed"
  /\ LET c == trans[at] IN
       /\ opmask' = [opmask EXCEPT ![c] = saved \ {"CLOSE"}]
       /\ error' = [error EXCEPT ![c] = "none"]
       /\ state' = [state EXCEPT ![c] = "CLOSED"]
       /\ trans' = RemoveAt(trans, at)
       /\ pc' = "transport"
  /\ UNCHANGED <<sock, eps, query, timer, net, busy, at, saved, back, ops,
                 events, call, known, asked, closing, false_ok>>

\* process_channels, with channel_ops_mtx_ held: an open is taken up.
TakeOpen == /\ pc = "channel" /\ at <= Len(ops)
            /\ saved' = opmask[ops[at]]
            /\ pc' = IF "OPEN" \in opmask[ops[at]] THEN "clear" ELSE "work"
            /\ UNCHANGED <<io, net, busy, at, back, ops, trans, events, call,
                           known, asked, closing, false_ok>>

ClearOpen == /\ pc = "clear"
             /\ LET c == ops[at] IN
                  /\ opmask' = [opmask EXCEPT ![c] = saved \ {"OPEN"}]
                  /\ state' = [state EXCEPT ![c] = "RESOLVING"]
             /\ pc' = "work"
             /\ UNCHANGED <<error, sock, eps, query, timer, net, busy, at, saved,
                            back, ops, trans, events, call, known, asked, closing, false_ok>>

\* The end of the loop body: the channel leaves the list unless its error_
\* says EINPROGRESS.
Finish(err) == /\ pc' = "channel"
               /\ IF err # "inprogress"
                  THEN ops' = RemoveAt(ops, at) /\ at' = at
                  ELSE ops' = ops /\ at' = at + 1

\* handle_connect_failed: cleanup_io resets error_ and state_ ...
ConnectFailed(c, ret) ==
  /\ error' = [error EXCEPT ![c] = "none"]
  /\ state' = [state EXCEPT ![c] = "CLOSED"]
  /\ pc' = "fail" /\ back' = ret

\* ... the mask and the socket; the event is fired.
FailedAt(c) == /\ opmask' = [opmask EXCEPT ![c] = {}]
               /\ Release(c)
               /\ Fire(c, "failed")

\* do_resolve: 0 when there are endpoints to try.  Endpoints that a query
\* has just brought are used; older ones may have expired.
HasEndpoint(c) == c \notin Named \/ eps[c]
Fresh(c) == c \notin Named \/ error[c] = "inprogress"

ResolveWaits ==
  /\ pc = "work"
  /\ LET c == ops[at] IN
       /\ state[c] = "RESOLVING" /\ error[c] # "failed"
       /\ ~HasEndpoint(c) \/ ~Fresh(c)
       /\ eps' = [eps EXCEPT ![c] = FALSE]
       /\ error' = [error EXCEPT ![c] = "inprogress"]
       /\ query' = [query EXCEPT ![c] = @ \/ error[c] = "none"]
       /\ Finish("inprogress")
  /\ UNCHANGED <<state, opmask, sock, timer, net, busy, saved, back, trans,
                 events, call, known, asked, closing, false_ok>>

ResolveFails ==
  /\ pc = "work"
  /\ LET c == ops[at] IN
       /\ state[c] = "RESOLVING" /\ ~HasEndpoint(c) /\ error[c] = "failed"
       /\ ConnectFailed(c, "channel")
  /\ UNCHANGED <<opmask, sock, eps, query, timer, net, busy, at, saved, ops,
                 trans, events, call, known, asked, closing, false_ok>>

\* do_connect on the lowest free descriptor, after closing the old one.
Lowest(kn) == Min({f \in Fds : kn[f] = "free"})

\* Mutant: the connect timeout is not armed.
NotArmed(c) == timer

\* The connect timeout starts to run.
Armed(c) == [timer EXCEPT ![c] = "armed"]

Connecting ==
  /\ pc = "work"
  /\ LET c == ops[at]
         k == IF sock[c] = 0 THEN kern ELSE [kern EXCEPT ![sock[c]] = "free"]
         f == Lowest(k)
     IN /\ state[c] = "RESOLVING" /\ HasEndpoint(c)
        /\ state' = [state EXCEPT ![c] = "CONNECTING"]
        /\ error' = [error EXCEPT ![c] = "inprogress"]
        /\ opmask' = IF sock[c] = 0 THEN opmask ELSE [opmask EXCEPT ![c] = {}]
        /\ sock' = [sock EXCEPT ![c] = f]
        /\ kern' = [k EXCEPT ![f] = "connecting"]
        /\ reg' = [g \in Fds |-> IF g = f THEN {"r", "w"}
                                 ELSE IF g = sock[c] THEN {} ELSE reg[g]]
        /\ timer' = Armed(c)
        /\ Finish("inprogress")
  /\ UNCHANGED <<eps, query, ready, busy, saved, back, trans, events, call,
                 known, asked, closing, false_ok>>

\* do_connect succeeds at once: the descriptor is watched for reads only.
ConnectsAtOnce ==
  /\ pc = "work"
  /\ LET c == ops[at]
         k == IF sock[c] = 0 THEN kern ELSE [kern EXCEPT ![sock[c]] = "free"]
         f == Lowest(k)
     IN /\ state[c] = "RESOLVING" /\ HasEndpoint(c)
        /\ state' = [state EXCEPT ![c] = "OPENED"]
        /\ error' = [error EXCEPT ![c] = "none"]
        /\ opmask' = IF sock[c] = 0 THEN opmask ELSE [opmask EXCEPT ![c] = {}]
        /\ sock' = [sock EXCEPT ![c] = f]
        /\ kern' = [k EXCEPT ![f] = "up"]
        /\ reg' = [g \in Fds |-> IF g = f THEN {"r"}
                                 ELSE IF g = sock[c] THEN {} ELSE reg[g]]
        /\ trans' = Append(trans, c)
        /\ Fire(c, "open")
        /\ Finish("none")
  /\ UNCHANGED <<eps, query, timer, ready, busy, saved, back, call, known,
                 asked, closing, false_ok>>

\* do_connect fails at once: no socket, no route.
ConnectRefused ==
  /\ pc = "work"
  /\ LET c == ops[at] IN
       /\ state[c] = "RESOLVING" /\ HasEndpoint(c)
       /\ ConnectFailed(c, "channel")
  /\ UNCHANGED <<opmask, sock, eps, query, timer, net, busy, at, saved, ops,
                 trans, events, call, known, asked, closing, false_ok>>

\* Mutant: the timer keeps running once the attempt has ended.
NeverCancelled(c) == timer

\* highp_timer::cancel leaves an expired timer in the queue.
Cancelled(c) == IF timer[c] = "due" THEN timer ELSE [timer EXCEPT ![c] = "off"]

\* do_connect_completion on a descriptor reported ready, SO_ERROR clear.
ConnectCompletes ==
  /\ pc = "work"
  /\ LET c == ops[at]
         f == sock[c]
     IN /\ state[c] = "CONNECTING" /\ f \in ready
        /\ kern[f] # "refused"
        /\ state' = [state EXCEPT ![c] = "OPENED"]
        /\ error' = [error EXCEPT ![c] = "none"]
        /\ reg' = [reg EXCEPT ![f] = @ \ {"w"}]
        /\ trans' = Append(trans, c)
        /\ Fire(c, "open")
        /\ timer' = Cancelled(c)
        /\ false_ok' = (false_ok \/ kern[f] = "connecting")
        /\ Finish("none")
  /\ UNCHANGED <<opmask, sock, eps, query, kern, ready, busy, saved, back, call,
                 known, asked, closing>>

ConnectBroken ==
  /\ pc = "work"
  /\ LET c == ops[at] IN
       /\ state[c] = "CONNECTING" /\ sock[c] \in ready
       /\ kern[sock[c]] = "refused"
       /\ timer' = Cancelled(c)
       /\ ConnectFailed(c, "channel")
  /\ UNCHANGED <<opmask, sock, eps, query, net, busy, at, saved, ops, trans,
                 events, call, known, asked, closing, false_ok>>

\* Nothing to do for the channel: still connecting, or no longer wanted.
ChannelRests ==
  /\ pc = "work"
  /\ LET c == ops[at] IN
       /\ \/ state[c] = "CONNECTING" /\ sock[c] \notin ready
          \/ state[c] \in {"CLOSED", "OPENED"}
       /\ Finish(error[c])
  /\ UNCHANGED <<io, net, busy, saved, back, trans, events, call, known, asked,
                 closing, false_ok>>

ChannelsDone == /\ pc = "channel" /\ at > Len(ops)
                /\ Goto("timer")
                /\ UNCHANGED <<io, net, busy, saved, back, ops, trans, events,
                               call, known, asked, closing, false_ok>>

\* The second half of handle_connect_failed; in process_channels the channel
\* then leaves the list.
FailInChannels ==
  /\ pc = "fail" /\ back = "channel"
  /\ FailedAt(ops[at])
  /\ Finish(error[ops[at]])
  /\ UNCHANGED <<state, error, eps, query, timer, ready, busy, saved, back,
                 trans, call, known, asked, closing, false_ok>>

\* process_timers: a due timer is taken off and its callback gives the
\* attempt up, unless the channel is open.
TimerFires(c) ==
  /\ pc = "timer" /\ timer[c] = "due"
  /\ timer' = [timer EXCEPT ![c] = "off"]
  /\ IF state[c] # "OPENED"
     THEN ConnectFailed(c, "timer") /\ saved' = {c}
     ELSE UNCHANGED <<state, error, pc, back, saved>>
  /\ UNCHANGED <<opmask, sock, eps, query, net, busy, at, ops, trans, events,
                 call, known, asked, closing, false_ok>>

FailInTimers ==
  /\ pc = "fail" /\ back = "timer"
  /\ \E c \in saved : FailedAt(c)
  /\ pc' = "timer"
  /\ UNCHANGED <<state, error, eps, query, timer, ready, busy, at, saved, back,
                 ops, trans, call, known, asked, closing, false_ok>>

TimersDone == /\ pc = "timer" /\ \A c \in Channels : timer[c] # "due"
              /\ Goto("events")
              /\ UNCHANGED <<io, net, busy, saved, back, ops, trans, events,
                             call, known, asked, closing, false_ok>>

\* process_deferred_events: the handler gets the events in order.
Dispatch == /\ pc = "events" /\ events # <<>> /\ call["io"] = Idle
            /\ LET e == Head(events) IN
                 known' = [known EXCEPT ![e.c] = IF e.kind = "open" THEN "up" ELSE "idle"]
            /\ events' = Tail(events)
            /\ UNCHANGED <<io, net, loop, ops, trans, call, asked, closing, false_ok>>

EventsDone == /\ pc = "events" /\ events = <<>> /\ call["io"] = Idle
              /\ Goto("top")
              /\ UNCHANGED <<io, net, busy, saved, back, ops, trans, events,
                             call, known, asked, closing, false_ok>>

Worker == \/ Top \/ Poll \/ PollFails
          \/ TransportStays \/ HandleClose \/ HandleClosed \/ TransportsDone
          \/ TakeOpen \/ ClearOpen
          \/ ResolveWaits \/ ResolveFails
          \/ Connecting \/ ConnectsAtOnce \/ ConnectRefused
          \/ ConnectCompletes \/ ConnectBroken \/ ChannelRests
          \/ FailInChannels \/ ChannelsDone
          \/ (\E c \in Channels : TimerFires(c)) \/ FailInTimers \/ TimersDone
          \/ Dispatch \/ EventsDone

Next == \/ Worker \/ Kernel
        \/ \E t \in Callers : Caller(t)
        \/ \E c \in Channels, ok \in BOOLEAN : Resolved(c, ok)

Spec == Init /\ [][Next]_vars

(* Fairness: the worker and the resolver threads run; a started call goes  *)
(* on, and gets the mutex in the end; the clock moves past every deadline; *)
(* poll does not fail for ever.  The kernel owes nothing.                  *)
Expires(c) == Top /\ timer'[c] = "due"
Resolves(c) == \E ok \in BOOLEAN : Resolved(c, ok)
GoesOn(t) == OpenMask(t) \/ CloseClear(t) \/ CloseMark(t)
Fairness == /\ WF_vars(Worker)
            /\ SF_vars(Poll)
            /\ \A c \in Channels : SF_vars(Expires(c)) /\ WF_vars(Resolves(c))
            /\ \A t \in Callers : /\ WF_vars(GoesOn(t))
                                  /\ SF_vars(OpenPush(t))

FairSpec == Spec /\ Fairness

-----------------------------------------------------------------------------

\* A client channel never has two transports in transports_, and outside the
\* steps of handle_close it is OPENED exactly while it has one.
OneTransport ==
  \A c \in Channels :
    LET its == {i \in DOMAIN trans : trans[i] = c} IN
    /\ Cardinality(its) <= 1
    /\ (state[c] = "OPENED") <=> (its # {})

\* Two channels never share a descriptor, every descriptor in use belongs to
\* a channel, and the watcher watches those and no other: cleanup_io leaves
\* nothing behind whatever path closed the socket.
SocketsOwned ==
  /\ \A c, d \in Channels : c # d /\ sock[c] # 0 => sock[c] # sock[d]
  /\ \A f \in Fds : /\ kern[f] # "free" <=> \E c \in Channels : sock[c] = f
                    /\ reg[f] # {} <=> kern[f] # "free"

\* The channel in the middle of handle_connect_failed.
Failing(c) == pc = "fail" /\ c \in (IF back = "timer" THEN saved ELSE {ops[at]})
Opening(c) == \E t \in Callers : call[t].do = "open" /\ call[t].c = c

\* The life of a channel as the promise of ClientChannel sees it.
LifeOf(c) == CASE pc = "closed" /\ trans[at] = c -> "idle"
               [] Failing(c) -> "asked"
               [] state[c] = "OPENED" -> "up"
               [] state[c] \in {"RESOLVING", "CONNECTING"} -> "asked"
               [] \/ "OPEN" \in opmask[c] \/ Opening(c)
                  \/ pc = "clear" /\ ops[at] = c -> "asked"
               [] OTHER -> "idle"

Channel == INSTANCE ClientChannel WITH life <- [c \in Channels |-> LifeOf(c)],
                                       told <- events

\* The reactor keeps the promise of ClientChannel: across the timeout, the
\* resolver, close() at any moment and the race on opmask_, every open is
\* answered at most once, and a close event follows every open event.
Begins == Channel!Begin
Moves == [Channel!Move]_(Channel!cvars)
KeepsPromise == Channel!Promise

\* An open that nobody closes is answered, be it by the connect timeout.
Unanswered(c) == known[c] = "asked" /\ c \notin closing
AnswersCome == \A c \in Channels : Unanswered(c) ~> ~Unanswered(c)

\* Once close() has seen the open socket of an OPENED channel, the handler
\* learns of the end of the connection.
Marking(c) == state[c] = "OPENED" /\ \E t \in Callers : call[t].do = "mark" /\ call[t].c = c
Over(c) == known[c] = "idle"
ClosesEnd == \A c \in Channels : Marking(c) ~> Over(c)

\* A channel that was closed after it was opened does not stay open.
CloseTakesEffect ==
  \A c \in Channels : c \in closing ~> (known[c] = "idle" \/ c \notin closing
                                        \/ LifeOf(c) = "idle")

\* When the reactor announces a connection its handshake is complete.
HandshakeComplete == ~false_ok
=============================================================================
