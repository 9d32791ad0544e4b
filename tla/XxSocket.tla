------------------------------ MODULE XxSocket -------------------------------
(***************************************************************************)
(* yasio/xxsocket.cpp, class xxsocket: wrappers around descriptors of the  *)
(* kernel's table, which gives out the lowest free number again.  Each     *)
(* wrapper is used by a thread of its own; connecting with a timeout takes *)
(* two steps, the threads' steps in between.                               *)
(***************************************************************************)
EXTENDS Integers, Sequences, FiniteSets, SequencesExt

CONSTANTS Wrappers,
          Fds,         \* descriptor numbers
          Hosts,       \* what getaddrinfo may answer: sequences of [fam, a]
          Nets,        \* the address families the machine may have
          Concurrent,  \* whether the wrappers are used at the same time
          MayTimeout   \* whether a connection under way may fail or time out

XxSocketAssumption == Fds \subseteq Nat /\ Concurrent \in BOOLEAN /\ MayTimeout \in BOOLEAN

invalid_socket == -1
Free == [st |-> "free", nb |-> FALSE, by |-> 0]
Opened(w) == [st |-> "open", nb |-> FALSE, by |-> w]
Idle == [pc |-> "idle", op |-> "none", todo |-> <<>>, tried |-> {}, ret |-> 1]

VARIABLES tab,      \* the kernel's table: state, O_NONBLOCK, the wrapper that answers for it
          fd,       \* xxsocket::fd of each wrapper
          th,       \* the connecting call of each wrapper's thread
          loose,    \* handles outside of any wrapper: released or just accepted
          host,     \* the host that is connected to
          net,      \* the address families this machine has
          foreign   \* somebody closed a socket another wrapper answers for
vars == <<tab, fd, th, loose, host, net, foreign>>

Init == /\ tab = [f \in Fds |-> Free]
        /\ fd = [w \in Wrappers |-> invalid_socket]
        /\ th = [w \in Wrappers |-> Idle]
        /\ loose = {}
        /\ host \in Hosts
        /\ net \in Nets
        /\ foreign = FALSE

is_open(w) == fd[w] # invalid_socket
Ready(w) == /\ th[w].pc = "idle"
            /\ Concurrent \/ \A v \in Wrappers : th[v].pc = "idle"
Lowest(t) == LET free == {f \in Fds : t[f].st = "free"}
             IN  IF free = {} THEN invalid_socket ELSE CHOOSE f \in free : \A g \in free : f <= g
closesocket(t, f) == IF f \in Fds THEN [t EXCEPT ![f] = Free] ELSE t
IsForeign(t, f, w) == f \in Fds /\ t[f].st # "free" /\ t[f].by # w
socket(t, w) == IF Lowest(t) = invalid_socket THEN t ELSE [t EXCEPT ![Lowest(t)] = Opened(w)]

(***************************************************************************)
(* Opening, closing and passing on.                                        *)
(***************************************************************************)
open(w) ==
  /\ Ready(w)
  /\ IF is_open(w) THEN UNCHANGED <<tab, fd>>
     ELSE tab' = socket(tab, w) /\ fd' = [fd EXCEPT ![w] = Lowest(tab)]
  /\ th' = [th EXCEPT ![w] = Idle]
  /\ UNCHANGED <<loose, host, net, foreign>>

\* The form that keeps the number.
CloseKeeps(w) ==
  /\ Ready(w) /\ is_open(w)
  /\ tab' = closesocket(tab, fd[w])
  /\ foreign' = (foreign \/ IsForeign(tab, fd[w], w))
  /\ th' = [th EXCEPT ![w] = Idle]
  /\ UNCHANGED <<fd, loose, host, net>>

close(w) ==
  /\ Ready(w) /\ is_open(w)
  /\ tab' = closesocket(tab, fd[w])
  /\ fd' = [fd EXCEPT ![w] = invalid_socket]
  /\ foreign' = (foreign \/ IsForeign(tab, fd[w], w))
  /\ th' = [th EXCEPT ![w] = Idle]
  /\ UNCHANGED <<loose, host, net>>

\* The form that keeps the number.
ReleaseKeeps(w) ==
  /\ Ready(w) /\ is_open(w) /\ tab[fd[w]].by = w
  /\ loose' = loose \cup {fd[w]}
  /\ tab' = [tab EXCEPT ![fd[w]].by = 0]
  /\ th' = [th EXCEPT ![w] = Idle]
  /\ UNCHANGED <<fd, host, net, foreign>>

release_handle(w) ==
  /\ Ready(w) /\ is_open(w) /\ tab[fd[w]].by = w
  /\ loose' = loose \cup {fd[w]}
  /\ tab' = [tab EXCEPT ![fd[w]].by = 0]
  /\ fd' = [fd EXCEPT ![w] = invalid_socket]
  /\ th' = [th EXCEPT ![w] = Idle]
  /\ UNCHANGED <<host, net, foreign>>

\* operator=(handle) takes the handle if the wrapper has none; if not the
\* handle stays with the caller.
assign(w, h) ==
  /\ Ready(w) /\ h \in loose
  /\ IF is_open(w) THEN UNCHANGED <<tab, fd, loose>>
     ELSE /\ fd' = [fd EXCEPT ![w] = h]
          /\ tab' = [tab EXCEPT ![h].by = w]
          /\ loose' = loose \ {h}
  /\ th' = [th EXCEPT ![w] = Idle]
  /\ UNCHANGED <<host, net, foreign>>

\* swap, and with it both moves.
swap(w, v) ==
  LET By(f) == IF tab[f].by = w /\ fd[w] = f THEN v
               ELSE IF tab[f].by = v /\ fd[v] = f THEN w ELSE tab[f].by
  IN  /\ w # v /\ Ready(w) /\ Ready(v)
      /\ fd' = [fd EXCEPT ![w] = fd[v], ![v] = fd[w]]
      /\ tab' = [f \in Fds |-> [tab[f] EXCEPT !.by = By(f)]]
      /\ th' = [th EXCEPT ![w] = Idle, ![v] = Idle]
      /\ UNCHANGED <<loose, host, net, foreign>>

\* pserve: reopen, then bind and listen, each of which may fail.
Reopened(w) == closesocket(tab, fd[w])
pserve(w) ==
  LET t == Reopened(w)  f == Lowest(t)  u == socket(t, w)
  IN  /\ Ready(w)
      /\ fd' = [fd EXCEPT ![w] = f]
      /\ foreign' = (foreign \/ IsForeign(tab, fd[w], w))
      /\ \/ tab' = u
         \/ f # invalid_socket /\ tab' = [u EXCEPT ![f].st = "listening"]
      /\ th' = [th EXCEPT ![w] = Idle]
      /\ UNCHANGED <<loose, host, net>>

\* accept, accept_n and paccept: after EINTR the call is repeated.
Accepts(w, nb) ==
  /\ Ready(w) /\ is_open(w) /\ tab[fd[w]].st = "listening" /\ Lowest(tab) # invalid_socket
  /\ tab' = [tab EXCEPT ![Lowest(tab)] = [st |-> "connected", nb |-> nb, by |-> 0]]
  /\ loose' = loose \cup {Lowest(tab)}
  /\ th' = [th EXCEPT ![w] = Idle]
  /\ UNCHANGED <<fd, host, net, foreign>>
accept(w) == Accepts(w, FALSE)
accept_n(w) == Accepts(w, TRUE)
paccept(w) == Accepts(w, TRUE)

\* popen: open, then poptions.
popen(w) ==
  LET t == IF is_open(w) THEN tab ELSE socket(tab, w)
      f == IF is_open(w) THEN fd[w] ELSE Lowest(tab)
  IN  /\ Ready(w)
      /\ fd' = [fd EXCEPT ![w] = f]
      /\ tab' = IF f = invalid_socket \/ t[f].st = "free" THEN t ELSE [t EXCEPT ![f].nb = TRUE]
      /\ th' = [th EXCEPT ![w] = Idle]
      /\ UNCHANGED <<loose, host, net, foreign>>

disconnect(w) ==
  /\ Ready(w) /\ is_open(w) /\ tab[fd[w]].st = "connected"
  /\ tab' = [tab EXCEPT ![fd[w]].st = "open"]
  /\ th' = [th EXCEPT ![w] = Idle]
  /\ UNCHANGED <<fd, loose, host, net, foreign>>

\* test_nonblocking returns the flag's bit.
O_NONBLOCK == 2048
test_nonblocking(f) == IF tab[f].nb THEN O_NONBLOCK ELSE 0

(***************************************************************************)
(* Names.  getaddrinfo(AF_INET6, AI_V4MAPPED) maps the IPv4 addresses only *)
(* of a host that has no IPv6 ones.                                        *)
(***************************************************************************)
V4(as) == SelectSeq(as, LAMBDA x : x.fam = 4)
V6(as) == SelectSeq(as, LAMBDA x : x.fam = 6)
Mapped(as) == [i \in 1..Len(V4(as)) |-> [fam |-> 6, a |-> V4(as)[i].a]]
resolve == host
resolve_v4to6 == IF V6(host) = <<>> THEN Mapped(host) ELSE V6(host)

\* The form without the mapped addresses.
AttemptsPlain == FlattenSeq([i \in 1..Len(host) |-> IF host[i].fam \in net THEN <<host[i]>> ELSE <<>>])

\* xpconnect: what it connects to, in order, until one succeeds.
Attempts ==
  FlattenSeq([i \in 1..Len(host) |->
    IF host[i].fam \in net THEN <<host[i]>>
    ELSE IF host[i].fam = 4 /\ 6 \in net THEN resolve_v4to6 ELSE <<>>])

(***************************************************************************)
(* Connecting.                                                             *)
(***************************************************************************)
Starts(w, op, todo) ==
  /\ Ready(w)
  /\ th' = [th EXCEPT ![w] = IF todo = <<>> THEN [Idle EXCEPT !.op = op, !.ret = -1]
                             ELSE [Idle EXCEPT !.pc = "loop", !.op = op, !.todo = todo, !.ret = -1]]
  /\ UNCHANGED <<tab, fd, loose, host, net, foreign>>
xpconnect(w) == Starts(w, "xblock", Attempts)
xpconnect_n(w) == Starts(w, "xtimed", Attempts)
pconnect(w) == Starts(w, "block", resolve)
pconnect_n(w) == Starts(w, "timed", resolve)
\* Without a timeout the first address only is used.
pconnect_n_first(w) == Starts(w, "start", IF resolve = <<>> THEN <<>> ELSE <<Head(resolve)>>)

\* After an attempt: the next one, or the end.
After(w, ret) ==
  LET rest == Tail(th[w].todo)
  IN  [th EXCEPT ![w].pc = IF ret = 0 \/ rest = <<>> THEN "idle" ELSE "loop",
                 ![w].todo = IF ret = 0 THEN <<>> ELSE rest,
                 ![w].tried = IF ret = 0 THEN {} ELSE @ \cup {Head(th[w].todo).a},
                 ![w].ret = ret]

\* connect on descriptor f: done, refused, or under way if non-blocking.
Connects(w, t, f) ==
  LET nb == th[w].op \notin {"block", "xblock"}
      u == [t EXCEPT ![f].nb = nb]
  IN  \/ tab' = [u EXCEPT ![f].st = "connected"] /\ th' = After(w, 0)
      \/ tab' = u /\ th' = After(w, -1)
      \/ /\ nb
         /\ tab' = [u EXCEPT ![f].st = "connecting"]
         /\ th' = IF th[w].op = "start" THEN After(w, -1) ELSE [th EXCEPT ![w].pc = "wait"]

\* The form that does not close first.
AttemptKeeps(w) ==
  LET f == Lowest(tab)
  IN  /\ th[w].pc = "loop"
      /\ fd' = [fd EXCEPT ![w] = f]
      /\ IF f = invalid_socket THEN tab' = tab /\ th' = After(w, -1) ELSE Connects(w, socket(tab, w), f)
      /\ UNCHANGED <<loose, host, net, foreign>>

\* pconnect(ep), pconnect_n(ep): reopen for the address' family, connect.
Attempt(w) ==
  LET t == Reopened(w)  f == Lowest(t)
  IN  /\ th[w].pc = "loop"
      /\ fd' = [fd EXCEPT ![w] = f]
      /\ foreign' = (foreign \/ IsForeign(tab, fd[w], w))
      /\ IF f = invalid_socket THEN tab' = t /\ th' = After(w, -1) ELSE Connects(w, socket(t, w), f)
      /\ UNCHANGED <<loose, host, net>>

\* connect_n(ep, timeout) of a wrapper that is open already.
connect_n(w) ==
  /\ Ready(w) /\ is_open(w) /\ tab[fd[w]].st = "open"
  /\ tab' = [tab EXCEPT ![fd[w]].st = "connecting", ![fd[w]].nb = TRUE]
  /\ th' = [th EXCEPT ![w] = [Idle EXCEPT !.pc = "wait", !.op = "timed", !.todo = <<[fam |-> 4, a |-> 0]>>]]
  /\ UNCHANGED <<fd, loose, host, net, foreign>>

\* The form that takes a readable or writable socket for a connected one.
WaitNoError(w) ==
  /\ th[w].pc = "wait"
  /\ \/ tab' = [tab EXCEPT ![fd[w]].st = "connected"] /\ th' = After(w, 0) /\ UNCHANGED foreign
     \/ MayTimeout /\ tab' = tab /\ th' = After(w, 0) /\ UNCHANGED foreign
  /\ UNCHANGED <<fd, loose, host, net>>

\* connect_n, after select: connected; or an error or a timeout, and the
\* descriptor is closed, which the wrapper is not told.
WaitEnds(w) ==
  /\ th[w].pc = "wait"
  /\ \/ /\ tab[fd[w]].st = "connecting"
        /\ tab' = [tab EXCEPT ![fd[w]].st = "connected"]
        /\ th' = After(w, 0)
        /\ UNCHANGED foreign
     \/ /\ MayTimeout
        /\ tab' = closesocket(tab, fd[w])
        /\ foreign' = (foreign \/ IsForeign(tab, fd[w], w))
        /\ th' = After(w, -1)
  /\ UNCHANGED <<fd, loose, host, net>>

Uses(w) ==
  \/ open(w) \/ close(w) \/ release_handle(w) \/ pserve(w) \/ popen(w) \/ disconnect(w)
  \/ accept(w) \/ accept_n(w) \/ paccept(w)
  \/ xpconnect(w) \/ xpconnect_n(w) \/ pconnect(w) \/ pconnect_n(w) \/ pconnect_n_first(w)
  \/ Attempt(w) \/ connect_n(w) \/ WaitEnds(w)
Next == \/ \E w \in Wrappers : Uses(w)
        \/ \E w \in Wrappers, h \in Fds : assign(w, h)
        \/ \E w, v \in Wrappers : swap(w, v)
Spec == Init /\ [][Next]_vars

(***************************************************************************)
(* Properties.                                                             *)
(***************************************************************************)
\* A wrapper that says it is open has a descriptor that is, and is its own.
Owns == \A w \in Wrappers :
  (th[w].pc = "idle" /\ is_open(w)) => tab[fd[w]].st # "free" /\ tab[fd[w]].by = w

\* Nobody closes the socket of another wrapper.
NoForeignClose == ~foreign

\* Every open descriptor is held by a wrapper or by the user: closing,
\* reopening and retrying lose none.
NoLeak == \A f \in Fds :
  tab[f].st # "free" => f \in loose \/ \E w \in Wrappers : fd[w] = f

\* A connecting call with a timeout, or a blocking one, returns 0 exactly with
\* a connected socket in its wrapper.
ReportsConnect ==
  \A w \in Wrappers :
    (th[w].pc # "idle" /\ th'[w].pc = "idle" /\ th[w].op # "start")
      => ((th'[w].ret = 0) <=> (fd'[w] \in Fds /\ tab'[fd'[w]].st = "connected"))
ConnectResult == [][ReportsConnect]_vars

\* xpconnect gives up only when it has tried every address of a family that
\* the machine has, and an IPv4-only host also from an IPv6-only network.
TriesAll == \A w \in Wrappers :
  (th[w].op \in {"xblock", "xtimed"} /\ th[w].pc = "idle" /\ th[w].ret = -1)
    => /\ \A i \in 1..Len(host) : host[i].fam \in net => host[i].a \in th[w].tried
       /\ (net = {6} /\ V6(host) = <<>>) => \A i \in 1..Len(host) : host[i].a \in th[w].tried

\* After connect_n the socket is in blocking mode.
BlockingAfter == \A w \in Wrappers :
  (th[w].op = "timed" /\ th[w].pc = "idle" /\ th[w].ret = 0) => ~tab[fd[w]].nb

\* resolve_v4to6 gives the IPv4 addresses of the host, mapped.
V4to6 == resolve_v4to6 = Mapped(host)

\* test_nonblocking answers 1 or 0.
OneOrZero == \A w \in Wrappers : is_open(w) => test_nonblocking(fd[w]) \in {0, 1}
=============================================================================
