---------------------------- MODULE RelayServer ----------------------------
(***************************************************************************)
(* The relay server (rmc-server): one task per TCP connection, a shared    *)
(* registry of players guarded by a mutex, one unbounded channel and one   *)
(* ping task per session, and graceful shutdown.                           *)
(*                                                                         *)
(* Time is left out: a ping tick and the shutdown timeout may happen       *)
(* whenever the code could be waiting for them.  The bytes of a frame are  *)
(* left out too: a frame is what on_recv_message makes of it.              *)
(***************************************************************************)
EXTENDS Naturals, Sequences, FiniteSets

CONSTANTS Sessions,   \* connections the listener may accept
          None,       \* no session
          IdSpace,    \* 2^32 in the code: the range of the AtomicU32 counter
          UseTls,     \* whether the server was built with a TLS configuration
          MaxSent,    \* bound: control messages stop when a channel has this many
          MaxAsked    \* bound: control requests a peer sends

ASSUME RelayAssumption == /\ None \notin Sessions
                          /\ IdSpace \in Nat /\ IdSpace > 1
                          /\ UseTls \in BOOLEAN
                          /\ MaxSent \in Nat /\ MaxAsked \in Nat

VARIABLES
  pc,        \* pc[s]: where the task of connection s is
  id,        \* id[s]: its session_id, 0 before create_session_id
  counter,   \* SESSION_COUNTER
  wraps,     \* history: how often the counter has overflowed
  players,   \* GLOBAL_CONTEXT.players: the session registered under an id
  holder,    \* the session holding the players mutex across several steps
  sent,      \* sent[s]: everything ever accepted by the channel of s
  pinging,   \* pinging[s]: the ping task of s runs
  asked,     \* history: control requests received from s
  granted,   \* history: those with the right authorization code
  todo,      \* todo[s]: players the broadcast loop of s has yet to visit
  cur,       \* cur[s]: number of the broadcast s is performing
  relays,    \* history: the broadcasts, in the order they took the mutex
  server     \* the state of build_with_listener

sessionVars == <<pc, id, counter, wraps, players, pinging>>
relayVars == <<holder, todo, cur, relays>>
askVars == <<asked, granted>>
vars == <<sessionVars, relayVars, sent, askVars, server>>

Ids == 0 .. IdSpace - 1

\* The messages of proto.rs, reduced to what the properties tell apart: the kind,
\* and for a pushed media key event the number of the broadcast that pushed it.
\* "ok" and "denied" are the two SendControlMediaKeyEventResponse values.
ControlKinds == {"ok", "denied", "pong", "ping"}
Message == [kind : ControlKinds \cup {"push"}, n : Nat]
Push(k) == [kind |-> "push", n |-> k]
Control(kind) == [kind |-> kind, n |-> 0]

InSelect == {"running", "locking"}            \* parked at an await of select!
InRun == InSelect \cup {"relaying", "responding"}
Open == InRun \cup {"starting"}               \* the channel's receiver exists
Present == InRun \cup {"closing"}             \* between insert and remove

Init == /\ pc = [s \in Sessions |-> "free"]
        /\ id = [s \in Sessions |-> 0]
        /\ counter = 0
        /\ wraps = 0
        /\ players = [i \in Ids |-> None]
        /\ holder = None
        /\ sent = [s \in Sessions |-> <<>>]
        /\ pinging = [s \in Sessions |-> FALSE]
        /\ asked = [s \in Sessions |-> 0]
        /\ granted = [s \in Sessions |-> 0]
        /\ todo = [s \in Sessions |-> {}]
        /\ cur = [s \in Sessions |-> 0]
        /\ relays = <<>>
        /\ server = "serving"

Goto(s, l) == pc' = [pc EXCEPT ![s] = l]

SendMessage(s, m) == sent' = [sent EXCEPT ![s] = Append(@, m)]

-----------------------------------------------------------------------------
\* The listener and the start of a session.

\* The subscription to the shutdown signal and the clone of shutdown_complete
\* are made before the task is spawned, in the same step as accept.
Accept(s) == /\ server = "serving"
             /\ pc[s] = "free"
             /\ Goto(s, "accepted")
             /\ UNCHANGED <<id, counter, wraps, players, pinging, relayVars,
                            sent, askVars, server>>

TlsFail(s) == /\ UseTls
              /\ pc[s] = "accepted"
              /\ Goto(s, "done")
              /\ UNCHANGED <<id, counter, wraps, players, pinging, relayVars,
                             sent, askVars, server>>

NextId == IF counter = 0 THEN 1 ELSE counter

\* Mutant: the counter is read but not advanced.
FetchAddLost(c) == c

FetchAdd(c) == IF c + 1 = IdSpace THEN 0 ELSE c + 1

StartSession(s) == /\ pc[s] = "accepted"
                   /\ Goto(s, "starting")
                   /\ id' = [id EXCEPT ![s] = NextId]
                   /\ counter' = FetchAdd(NextId)
                   /\ wraps' = IF counter' = 0 THEN wraps + 1 ELSE wraps
                   /\ pinging' = [pinging EXCEPT ![s] = TRUE]
                   /\ UNCHANGED <<players, relayVars, sent, askVars, server>>

Register(s) == /\ pc[s] = "starting"
               /\ holder = None
               /\ players' = [players EXCEPT ![id[s]] = s]
               /\ Goto(s, "running")
               /\ UNCHANGED <<id, counter, wraps, pinging, relayVars,
                              sent, askVars, server>>

-----------------------------------------------------------------------------
\* The end of a session: select! returns, which drops the channel's receiver,
\* and on_session_close aborts the ping task; then it waits for the mutex.

\* Mutant: the ping task is not aborted.
LeaveNoAbort(s) == /\ Goto(s, "closing")
                   /\ UNCHANGED <<id, counter, wraps, players, pinging>>

Leave(s) == /\ Goto(s, "closing")
            /\ pinging' = [pinging EXCEPT ![s] = FALSE]
            /\ UNCHANGED <<id, counter, wraps, players>>

\* End of stream, a read error, or a frame that does not parse.
ReadEnds(s) == /\ pc[s] = "running"
               /\ Leave(s)
               /\ UNCHANGED <<relayVars, sent, askVars, server>>

\* A write_all fails on one of the messages the channel was given.
WriteEnds(s) == /\ pc[s] \in InSelect
                /\ sent[s] # <<>>
                /\ Leave(s)
                /\ UNCHANGED <<relayVars, sent, askVars, server>>

ShutdownRecv(s) == /\ server # "serving"
                   /\ pc[s] \in InSelect
                   /\ Leave(s)
                   /\ UNCHANGED <<relayVars, sent, askVars, server>>

\* Mutant: the entry is not removed.
DeregisterKeeps(s) == /\ pc[s] = "closing"
                      /\ holder = None
                      /\ Goto(s, "done")
                      /\ UNCHANGED <<id, counter, wraps, players, pinging,
                                     relayVars, sent, askVars, server>>

Deregister(s) == /\ pc[s] = "closing"
                 /\ holder = None
                 /\ players' = [players EXCEPT ![id[s]] = None]
                 /\ Goto(s, "done")
                 /\ UNCHANGED <<id, counter, wraps, pinging, relayVars,
                                sent, askVars, server>>

-----------------------------------------------------------------------------
\* The ping task.

PingTick(s) == /\ pinging[s]
               /\ pc[s] \in Open
               /\ Len(sent[s]) < MaxSent
               /\ SendMessage(s, Control("ping"))
               /\ UNCHANGED <<sessionVars, relayVars, askVars, server>>

-----------------------------------------------------------------------------
\* on_recv_message.  "Pong" and unknown names change nothing here.

RecvPing(s) == /\ pc[s] = "running"
               /\ Len(sent[s]) < MaxSent
               /\ SendMessage(s, Control("pong"))
               /\ UNCHANGED <<sessionVars, relayVars, askVars, server>>

\* Mutant: a refused request is relayed all the same.
RecvRequestFallsThrough(s) ==
   /\ pc[s] = "running"
   /\ asked[s] < MaxAsked
   /\ asked' = [asked EXCEPT ![s] = @ + 1]
   /\ SendMessage(s, Control("denied"))
   /\ Goto(s, "locking")
   /\ UNCHANGED <<id, counter, wraps, players, pinging, relayVars, granted,
                  server>>

RecvRequest(s) == /\ pc[s] = "running"
                  /\ asked[s] < MaxAsked
                  /\ asked' = [asked EXCEPT ![s] = @ + 1]
                  /\ \/ /\ granted' = [granted EXCEPT ![s] = @ + 1]
                        /\ Goto(s, "locking")
                        /\ UNCHANGED sent
                     \/ /\ SendMessage(s, Control("denied"))
                        /\ UNCHANGED <<pc, granted>>
                  /\ UNCHANGED <<id, counter, wraps, players, pinging,
                                 relayVars, server>>

\* Mutant: the requester is not filtered out.
AudienceAll(s) == {players[i] : i \in Ids} \ {None}

\* The players the loop of s visits: all but the one under its own id.
Audience(s) == {players[i] : i \in Ids \ {id[s]}} \ {None}

\* Mutant: the mutex is released once the players are listed.
LockNoHold(s) == /\ pc[s] = "locking"
                 /\ holder = None
                 /\ todo' = [todo EXCEPT ![s] = Audience(s)]
                 /\ cur' = [cur EXCEPT ![s] = Len(relays) + 1]
                 /\ relays' = Append(relays, [by |-> s, audience |-> Audience(s),
                                              state |-> "busy"])
                 /\ Goto(s, "relaying")
                 /\ UNCHANGED <<id, counter, wraps, players, pinging, holder,
                                sent, askVars, server>>

Lock(s) == /\ pc[s] = "locking"
           /\ holder = None
           /\ holder' = s
           /\ todo' = [todo EXCEPT ![s] = Audience(s)]
           /\ cur' = [cur EXCEPT ![s] = Len(relays) + 1]
           /\ relays' = Append(relays, [by |-> s, audience |-> Audience(s),
                                        state |-> "busy"])
           /\ Goto(s, "relaying")
           /\ UNCHANGED <<id, counter, wraps, players, pinging,
                          sent, askVars, server>>

\* Mutant: a failed broadcast leaves the mutex locked.
SettleLeak(s, outcome) ==
   /\ holder' = IF outcome = "failed" THEN holder ELSE None
   /\ todo' = [todo EXCEPT ![s] = {}]
   /\ relays' = [relays EXCEPT ![cur[s]].state = outcome]
   /\ UNCHANGED cur

Settle(s, outcome) ==
   /\ holder' = None
   /\ todo' = [todo EXCEPT ![s] = {}]
   /\ relays' = [relays EXCEPT ![cur[s]].state = outcome]
   /\ UNCHANGED cur

\* Mutant: a player visited stays on the list.
RelaySendAgain(s, t) == /\ pc[s] = "relaying"
                        /\ t \in todo[s]
                        /\ pc[t] \in Open
                        /\ Len(sent[t]) < 3
                        /\ SendMessage(t, Push(cur[s]))
                        /\ UNCHANGED <<sessionVars, relayVars, askVars, server>>

RelaySend(s, t) == /\ pc[s] = "relaying"
                   /\ t \in todo[s]
                   /\ pc[t] \in Open
                   /\ SendMessage(t, Push(cur[s]))
                   /\ todo' = [todo EXCEPT ![s] = @ \ {t}]
                   /\ UNCHANGED <<sessionVars, holder, cur, relays,
                                  askVars, server>>

\* The receiver of t is gone: the error leaves the loop and ends session s.
RelayFail(s, t) == /\ pc[s] = "relaying"
                   /\ t \in todo[s]
                   /\ pc[t] \notin Open
                   /\ Settle(s, "failed")
                   /\ Leave(s)
                   /\ UNCHANGED <<sent, askVars, server>>

\* Mutant: the loop stops early.
RelayDoneEarly(s) == /\ pc[s] = "relaying"
                     /\ Settle(s, "complete")
                     /\ Goto(s, "responding")
                     /\ UNCHANGED <<id, counter, wraps, players, pinging,
                                    sent, askVars, server>>

RelayDone(s) == /\ pc[s] = "relaying"
                /\ todo[s] = {}
                /\ Settle(s, "complete")
                /\ Goto(s, "responding")
                /\ UNCHANGED <<id, counter, wraps, players, pinging,
                               sent, askVars, server>>

Respond(s) == /\ pc[s] = "responding"
              /\ SendMessage(s, Control("ok"))
              /\ Goto(s, "running")
              /\ UNCHANGED <<id, counter, wraps, players, pinging, relayVars,
                             askVars, server>>

-----------------------------------------------------------------------------
\* build_with_listener after its select!.

Stop == /\ server = "serving"
        /\ server' = "draining"
        /\ UNCHANGED <<sessionVars, relayVars, sent, askVars>>

\* Mutant: the clone is not dropped at the end of the session.
HoldsCloneLeaked(s) == pc[s] # "free"

\* Sessions that still own a clone of shutdown_complete.
HoldsClone(s) == pc[s] \notin {"free", "done"}

Finish == /\ server = "draining"
          /\ \A s \in Sessions : ~HoldsClone(s)
          /\ server' = "finished"
          /\ UNCHANGED <<sessionVars, relayVars, sent, askVars>>

ForceExit == /\ server = "draining"
             /\ \E s \in Sessions : HoldsClone(s)
             /\ server' = "forced"
             /\ UNCHANGED <<sessionVars, relayVars, sent, askVars>>

\* main has returned: the runtime and every task in it are gone.
Exited == server \in {"finished", "forced"}

-----------------------------------------------------------------------------
Begin(s) == StartSession(s) \/ TlsFail(s)

RelayStep(s) == \/ \E t \in Sessions : RelaySend(s, t) \/ RelayFail(s, t)
                \/ RelayDone(s)
                \/ Respond(s)

Session(s) == \/ Accept(s) \/ Begin(s) \/ Register(s)
              \/ ReadEnds(s) \/ WriteEnds(s) \/ ShutdownRecv(s)
              \/ Deregister(s)
              \/ PingTick(s)
              \/ RecvPing(s) \/ RecvRequest(s) \/ Lock(s) \/ RelayStep(s)

Next == \/ /\ ~Exited
           /\ \/ \E s \in Sessions : Session(s)
              \/ Stop \/ Finish \/ ForceExit
        \/ Exited /\ UNCHANGED vars

Spec == Init /\ [][Next]_vars

\* The tasks run on tokio's scheduler, which polls every woken task; its mutex
\* hands the lock over in arrival order, so a waiter that finds the mutex free
\* again and again gets it (SF).  Reading, writing, accepting, pings and the
\* stop signal depend on the outside and get no fairness; nor does the timeout.
Fairness ==
  /\ WF_vars(~Exited /\ Finish)
  /\ \A s \in Sessions :
       /\ WF_vars(~Exited /\ Begin(s))
       /\ SF_vars(~Exited /\ Register(s))
       /\ WF_vars(~Exited /\ ShutdownRecv(s))
       /\ SF_vars(~Exited /\ Lock(s))
       /\ WF_vars(~Exited /\ RelayStep(s))
       /\ SF_vars(~Exited /\ Deregister(s))

FairSpec == Spec /\ Fairness

-----------------------------------------------------------------------------
Pcs == Present \cup {"free", "accepted", "starting", "done"}

Relay == [by : Sessions, audience : SUBSET Sessions,
          state : {"busy", "complete", "failed"}]

\* Every variable stays in its type.
TypeOK == /\ pc \in [Sessions -> Pcs]
          /\ id \in [Sessions -> Ids]
          /\ counter \in Ids
          /\ wraps \in Nat
          /\ players \in [Ids -> Sessions \cup {None}]
          /\ holder \in Sessions \cup {None}
          /\ sent \in [Sessions -> Seq(Message)]
          /\ pinging \in [Sessions -> BOOLEAN]
          /\ asked \in [Sessions -> Nat]
          /\ granted \in [Sessions -> Nat]
          /\ todo \in [Sessions -> SUBSET Sessions]
          /\ cur \in [Sessions -> Nat]
          /\ relays \in Seq(Relay)
          /\ server \in {"serving", "draining", "finished", "forced"}

\* Until the id counter overflows, the registry holds exactly the sessions
\* between on_session_start's insert and on_session_close's remove, each under
\* its own non-zero id: closing one session never unregisters another.
RegistryExact ==
  wraps = 0 => /\ \A s \in Sessions : pc[s] \in Present => players[id[s]] = s
               /\ \A i \in Ids : players[i] # None =>
                     i > 0 /\ pc[players[i]] \in Present /\ id[players[i]] = i

\* Overflow or not, the registry never keeps an entry of a session that has
\* gone: whoever is registered has yet to run its own remove.
NoDeadEntry == \A i \in Ids : players[i] # None => pc[players[i]] \in Present

\* Every session is sent the broadcasts in the order they took the mutex, so
\* all peers agree on the order of media keys and none gets a key twice.
PushesInOrder ==
  \A s \in Sessions : \A i, j \in 1..Len(sent[s]) :
     /\ i < j
     /\ sent[s][i].kind = "push"
     /\ sent[s][j].kind = "push"
     => sent[s][i].n < sent[s][j].n

\* A media key is pushed only on behalf of a session, never back to it.
NoEcho == \A s \in Sessions : \A i \in 1..Len(sent[s]) :
             sent[s][i].kind = "push" =>
                sent[s][i].n \in 1..Len(relays) /\ relays[sent[s][i].n].by # s

Got(s, k) == \E i \in 1..Len(sent[s]) : sent[s][i] = Push(k)

\* A broadcast that reached the end of its loop is in the channel of every
\* player that was registered when it took the mutex, whatever those players'
\* tasks did meanwhile; one that failed missed a player whose channel is closed.
RelayOutcome ==
  \A k \in 1..Len(relays) :
     /\ relays[k].state = "complete" => \A t \in relays[k].audience : Got(t, k)
     /\ relays[k].state = "failed" =>
           \E t \in relays[k].audience : ~Got(t, k) /\ pc[t] \notin Open

Tally(q, kind) == Cardinality({i \in 1..Len(q) : q[i].kind = kind})
Count(s, kind) == Tally(sent[s], kind)

\* A session waiting for its next frame has answered every request it read:
\* "ok" for each one with the right code, "no permission" for the others.  One
\* that was cut off owes at most the answer to its last request.
AnswersMatch ==
  \A s \in Sessions :
     /\ Count(s, "denied") = asked[s] - granted[s]
     /\ Count(s, "ok") <= granted[s] /\ granted[s] <= Count(s, "ok") + 1
     /\ pc[s] \in {"starting", "running"} => Count(s, "ok") = granted[s]

\* No ping task outlives its session.
PingTaskEnds == \A s \in Sessions : pinging[s] => pc[s] \in Open

\* A session that has gone leaves nothing behind: no entry in the registry, also
\* after on_session_close ran with an id that was given twice, and no ping task.
SessionsLeave == NoDeadEntry /\ PingTaskEnds

\* Once stopped, the server exits: every session sees the dropped notifier and
\* gives its clone of shutdown_complete back, with no help from the timeout.
ShutdownCompletes == (server = "draining") ~> Exited

\* A session waiting for the mutex in a handler or in on_session_close gets on.
NoStuckSession ==
  \A s \in Sessions :
     /\ (pc[s] = "locking") ~> (pc[s] \in {"running", "done"} \/ Exited)
     /\ (pc[s] = "closing") ~> (pc[s] = "done" \/ Exited)

\* The server implements the abstract push log.
Log == INSTANCE PushLog WITH owner <- [k \in 1..Len(relays) |-> relays[k].by],
                             log <- sent

ImplementsPushLog == Log!Spec
=============================================================================
