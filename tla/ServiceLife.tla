---------------------------- MODULE ServiceLife ----------------------------
(***************************************************************************)
(* The life of an io_service: start, the worker's loop until it may exit,  *)
(* stop from a caller's thread or from an event handler, restart, and the  *)
(* destructor, with the resolver thread that may outlive all of them.  One *)
(* client channel connects, is closed by the stop, and may be opened again *)
(* by a handler at any time.                                               *)
(***************************************************************************)
EXTENDS Integers, SequencesExt

CONSTANTS Inline,      \* YOPT_S_NO_NEW_THREAD: start() runs the loop itself
          NoDispatch,  \* YOPT_S_NO_DISPATCH: the caller's thread dispatches
          BadFd,       \* poll may fail with EBADF
          Query,       \* the channel's host needs a resolver thread
          MaxOpens     \* bound: calls of open

LifeAssumption == /\ {Inline, NoDispatch, BadFd, Query} \subseteq BOOLEAN
                  /\ MaxOpens \in Nat

VARIABLES state,      \* state_
          flag,       \* stop_flag_: "none", "stop" or "final"
          joinable,   \* worker_.joinable()
          wpc,        \* the worker in run()
          conn,       \* transports_ is not empty
          chan,       \* the channel: "closed", "opening", "resolving", "connecting", "opened"
          timer,      \* its connect timer is in timer_queue_
          opened,     \* calls of open
          events,     \* events_
          heard,      \* history: events fired, events heard, opens less closes
          spc,        \* the thread that calls stop: "idle", "join" or "rest"
          returned,   \* state_ when the last stop returned
          rpc,        \* the resolver thread
          wrong       \* "terminate" or "resolver": what must not happen

vars == <<state, flag, joinable, wpc, conn, chan, timer, opened, events, heard, spc, returned, rpc, wrong>>

Init == /\ state = "IDLE" /\ flag = "none" /\ joinable = FALSE /\ wpc = "none"
        /\ conn = FALSE /\ chan = "closed" /\ timer = FALSE /\ opened = 0
        /\ events = <<>> /\ heard = [fired |-> 0, heard |-> 0, open |-> 0]
        /\ spc = "idle" /\ returned = "none" /\ rpc = "none" /\ wrong = "none"

Alive == state # "UNINITIALIZED" /\ wrong = "none"
life == <<state, flag, joinable, spc, returned, wrong>>
net == <<conn, chan, timer, opened, rpc>>

Fire(e) == /\ events' = Append(events, e)
           /\ heard' = [heard EXCEPT !.fired = @ + 1,
                                     !.open = CASE e = "open" -> @ + 1
                                                [] e = "close" -> @ - 1
                                                [] OTHER -> @]
Quiet == UNCHANGED <<events, heard>>

-----------------------------------------------------------------------------
Start == /\ Alive /\ state = "IDLE" /\ spc = "idle"
         /\ state' = "RUNNING" /\ wpc' = "transports" /\ joinable' = ~Inline
         /\ UNCHANGED <<flag, spc, returned, wrong, net, events, heard>>

\* open: refused while an open is in progress.
Open == /\ Alive /\ opened < MaxOpens /\ chan \in {"closed", "opened"}
        /\ chan' = IF chan = "closed" THEN "opening" ELSE chan
        /\ opened' = opened + 1
        /\ UNCHANGED <<conn, timer, rpc>>

OpenCall == Open /\ UNCHANGED <<life, wpc, events, heard>>

\* do_stop on a caller's thread.
Stop(f) == /\ Alive /\ spc = "idle" /\ state \in {"RUNNING", "AT_EXITING"}
           /\ IF flag = "none"
              THEN /\ flag' = f
                   /\ IF state = "RUNNING" THEN spc' = "join" /\ UNCHANGED returned
                      ELSE returned' = state /\ UNCHANGED spc
              ELSE spc' = "join" /\ UNCHANGED <<flag, returned>>
           /\ UNCHANGED <<state, joinable, wpc, wrong, net, events, heard>>

\* Mutant: stop does not wait for the worker.
Detached == TRUE

Joined == joinable => wpc = "exited"

\* handle_stop: join the worker, if there is one to join ...
Join == /\ spc = "join" /\ Joined
        /\ joinable' = FALSE
        /\ IF state = "AT_EXITING" THEN spc' = "rest" /\ UNCHANGED returned
           ELSE spc' = "idle" /\ returned' = state
        /\ UNCHANGED <<state, flag, wpc, wrong, net, events, heard>>

\* Mutant: what is left in the queue is dropped.
DropRest == events' = <<>> /\ UNCHANGED heard

\* The events that are left are dispatched on the caller's thread.
DispatchRest == events' = <<>> /\ heard' = [heard EXCEPT !.heard = @ + Len(events)]

\* ... and reset everything for another start.
Reset == /\ DispatchRest
         /\ conn' = FALSE /\ timer' = FALSE /\ flag' = "none" /\ state' = "IDLE"
         /\ wpc' = "none"

Rest == /\ spc = "rest" /\ spc' = "idle"
        /\ Reset /\ returned' = state'
        /\ UNCHANGED <<joinable, wrong, chan, opened, rpc>>

\* start() after run() has returned on its own thread.
FinishInline == /\ Inline /\ wpc = "exited" /\ Reset
                /\ UNCHANGED <<joinable, spc, returned, wrong, chan, opened, rpc>>

\* The destructor: stop, then finalize when that left the service IDLE.
Destroy == /\ Alive /\ spc = "idle"
           /\ state = "IDLE" \/ (state = "AT_EXITING" /\ flag = "none")
           /\ IF state = "IDLE" THEN state' = "UNINITIALIZED" /\ UNCHANGED wrong
              ELSE wrong' = "terminate" /\ UNCHANGED state   \* ~thread of a joinable worker
           /\ UNCHANGED <<flag, joinable, wpc, spc, returned, net, events, heard>>

\* The caller's thread dispatches events.
Dispatch == /\ Alive /\ NoDispatch /\ spc = "idle" /\ events # <<>>
            /\ events' = Tail(events) /\ heard' = [heard EXCEPT !.heard = @ + 1]
            /\ UNCHANGED <<life, wpc, net>>

-----------------------------------------------------------------------------
(* The worker: one pass of run().                                          *)

Worker(from, to) == wpc = from /\ wpc' = to

PollFails == /\ BadFd /\ Worker("transports", "exited")
             /\ state' = "AT_EXITING"
             /\ UNCHANGED <<flag, joinable, spc, returned, wrong, net, events, heard>>

\* Mutant: a stop leaves connections open.
StaysOpen == TRUE

KeepsOpen == flag = "none"

Transports == /\ Worker("transports", "channels")
              /\ \/ conn /\ conn' = FALSE /\ chan' = "closed" /\ Fire("close")
                 \/ (conn => KeepsOpen) /\ UNCHANGED <<conn, chan>> /\ Quiet
              /\ UNCHANGED <<life, timer, opened, rpc>>

Connect == \/ chan' = "connecting" /\ timer' = TRUE /\ UNCHANGED conn /\ Quiet
           \/ chan' = "opened" /\ conn' = TRUE /\ UNCHANGED timer /\ Fire("open")
           \/ chan' = "closed" /\ UNCHANGED <<conn, timer>> /\ Fire("failed")

Channels == /\ Worker("channels", "timers")
            /\ CASE chan = "opening" /\ Query /\ rpc = "none" ->
                      chan' = "resolving" /\ rpc' = "spawned" /\ UNCHANGED <<conn, timer>> /\ Quiet
                 [] chan = "resolving" /\ rpc = "answered" -> Connect /\ rpc' = "none"
                 [] chan = "opening" /\ ~Query -> Connect /\ UNCHANGED rpc
                 [] chan = "connecting" ->
                      /\ UNCHANGED rpc
                      /\ \/ /\ chan' = "opened" /\ conn' = TRUE /\ timer' = FALSE /\ Fire("open")
                         \/ UNCHANGED <<chan, conn, timer>> /\ Quiet
                 [] OTHER -> UNCHANGED <<chan, conn, timer, rpc>> /\ Quiet
            /\ UNCHANGED <<life, opened>>

TimerFires == /\ Worker("timers", "events") /\ timer
              /\ timer' = FALSE /\ chan' = "closed" /\ Fire("failed")
              /\ UNCHANGED <<life, conn, opened, rpc>>
NoTimer == /\ Worker("timers", "events") /\ UNCHANGED <<life, net, events, heard>>

\* The handler hears an event; it may open the channel again, or stop.
HandlerStop == flag' = IF flag = "none" THEN "stop" ELSE flag
Handle == /\ wpc = "events" /\ ~NoDispatch /\ events # <<>> /\ UNCHANGED wpc
          /\ events' = Tail(events) /\ heard' = [heard EXCEPT !.heard = @ + 1]
          /\ \/ UNCHANGED <<life, net>>
             \/ Open /\ UNCHANGED life
             \/ HandlerStop /\ UNCHANGED <<state, joinable, spc, returned, wrong, net>>

\* Mutants: a stop waits for the channel; a stop does not wait at all.
ExitsWhenClosed == flag # "none" /\ ~conn /\ chan = "closed"
ExitsAtOnce == flag # "none"

MayExit == flag # "none" /\ ~conn

Loop == /\ wpc = "events" /\ (NoDispatch \/ events = <<>>)
        /\ IF MayExit THEN wpc' = "exited" /\ state' = "AT_EXITING"
           ELSE wpc' = "transports" /\ UNCHANGED state
        /\ UNCHANGED <<flag, joinable, spc, returned, wrong, net, events, heard>>

Run == PollFails \/ Transports \/ Channels \/ TimerFires \/ NoTimer \/ Handle \/ Loop

-----------------------------------------------------------------------------
(* The resolver thread.                                                    *)

CheckToken == /\ rpc = "spawned"
              /\ rpc' = IF state = "UNINITIALIZED" THEN "none" ELSE "checked"
              /\ UNCHANGED <<life, wpc, conn, chan, timer, opened, events, heard>>

\* options_.resolv_ of a service that may be gone by now.
Resolve == /\ rpc = "checked" /\ rpc' = "resolved"
           /\ wrong' = IF state = "UNINITIALIZED" THEN "resolver" ELSE wrong
           /\ UNCHANGED <<state, flag, joinable, spc, returned, wpc, conn, chan, timer, opened, events, heard>>

\* Mutant: the life token is not checked again.
StoresAlways == TRUE

MayStore == state # "UNINITIALIZED"

\* The result is stored under the lock that finalize takes.
Update == /\ rpc = "resolved"
          /\ rpc' = IF MayStore THEN "answered" ELSE "none"
          /\ wrong' = IF MayStore /\ state = "UNINITIALIZED" THEN "freed" ELSE wrong
          /\ UNCHANGED <<state, flag, joinable, spc, returned, wpc, conn, chan, timer, opened, events, heard>>

Next == \/ Start \/ OpenCall \/ Stop("stop") \/ Join \/ Rest \/ FinishInline \/ Destroy
        \/ Dispatch \/ Run \/ CheckToken \/ Resolve \/ Update

Spec == Init /\ [][Next]_vars
FairSpec == /\ Spec /\ WF_vars(Run) /\ WF_vars(Join) /\ WF_vars(Rest) /\ WF_vars(FinishInline)
            /\ SF_vars(TimerFires)

-----------------------------------------------------------------------------
\* Every event that was fired is heard once, also those still queued when
\* the service stops: an IDLE service has none left.
AllHeard == /\ heard.heard + Len(events) = heard.fired
            /\ state = "IDLE" => events = <<>>

\* The worker exits only when every connection has been closed in order: when
\* the service is IDLE, each connection that was reported open has been
\* reported closed.
ClosesReported == state = "IDLE" => heard.open = 0

\* stop() returns, whatever handlers open while it waits for the worker.
Stopping == spc # "idle"
StopReturns == Stopping ~> ~Stopping

\* With YOPT_S_NO_NEW_THREAD start() returns, with the service IDLE, after a
\* stop by a handler or by another thread.
Told == flag # "none"
Back == state = "IDLE"
StartReturns == Told ~> Back

\* stop() on a thread other than the worker leaves the service IDLE.
ReturnsIdle == returned' # returned => returned' \in {"IDLE", "none"}
StopIsIdle == [][ReturnsIdle]_vars

\* After the destructor the resolver thread stores nothing in the service.
NothingFreedIsUsed == wrong # "freed"

\* The resolver thread never calls into a service that is gone.
ResolvesSafely == wrong # "resolver"

\* While the service runs, a channel does not stay connecting for ever.
ConnectEnds == (chan = "connecting" /\ state = "RUNNING") ~> (chan # "connecting" \/ state # "RUNNING")
=============================================================================
