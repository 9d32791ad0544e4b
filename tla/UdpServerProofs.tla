-------------------------- MODULE UdpServerProofs --------------------------
(***************************************************************************)
(* The map of the UDP server and what its sessions hand on, for any set of *)
(* addresses and any number of datagrams.                                  *)
(***************************************************************************)
EXTENDS UdpServer, TLAPS

Task == [addr : Addrs, pc : {"starting", "running", "closing", "removing", "done"},
         first : Nat, chan : Seq(Nat), got : Seq(Nat)]

TypeOK == /\ recv \in [pc : {"recv", "look", "insert", "get", "dropped"},
                       addr : Addrs \cup {"none"}, n : Nat]
          /\ arrived \in [Addrs -> Nat]
          /\ hashmap \in [Addrs -> Nat]
          /\ sess \in Seq(Task)

\* recv_task has a datagram of a that no session has yet.
Holds(a) == recv.pc \in {"look", "insert", "get"} /\ recv.addr = a

\* Consecutive numbers from f on.
Consecutive(f, s) == \A k \in DOMAIN s : s[k] = f + k - 1

Queued(r) == r.got \o r.chan

\* A session that listens has been passed every datagram of its address, from its
\* first to the one before that in the hands of recv_task.
UpToDate(r) ==
  r.pc \in {"starting", "running"} /\ recv.pc # "dropped" =>
    r.first + Len(Queued(r)) = IF Holds(r.addr) THEN arrived[r.addr] ELSE arrived[r.addr] + 1

\* Between the look and the insertion nobody else inserts.
RecvInv == /\ recv.pc \in {"look", "insert", "get"} =>
                recv.addr \in Addrs /\ recv.n = arrived[recv.addr]
           /\ recv.pc = "insert" => hashmap[recv.addr] = 0

MapInv == /\ \A i \in DOMAIN sess : sess[i].pc # "done" => hashmap[sess[i].addr] = i
          /\ \A a \in Addrs : hashmap[a] # 0 => /\ hashmap[a] \in DOMAIN sess
                                                /\ sess[hashmap[a]].addr = a
                                                /\ sess[hashmap[a]].pc # "done"

SessInv == \A i \in DOMAIN sess : /\ Consecutive(sess[i].first, Queued(sess[i]))
                                  /\ UpToDate(sess[i])

UdpInv == TypeOK /\ RecvInv /\ MapInv /\ SessInv

\* Sequences, cut in two in another place, extended or cut short.
LEMMA Recut ==
  ASSUME NEW g \in Seq(Nat), NEW c \in Seq(Nat)
  PROVE  /\ \A n \in Nat : g \o Append(c, n) = Append(g \o c, n)
         /\ c # <<>> => /\ Append(g, Head(c)) \o Tail(c) = g \o c
                        /\ Append(g, Head(c)) \in Seq(Nat) /\ Tail(c) \in Seq(Nat)
         /\ g \o c \in Seq(Nat)
         /\ g \o <<>> = g
<1>1. \A n \in Nat : g \o Append(c, n) = Append(g \o c, n)
  OBVIOUS
<1>2. ASSUME c # <<>> PROVE Append(g, Head(c)) \o Tail(c) = g \o c
  BY <1>2
<1>3. ASSUME c # <<>> PROVE Append(g, Head(c)) \in Seq(Nat) /\ Tail(c) \in Seq(Nat)
  BY <1>3
<1>4. g \o c \in Seq(Nat)
  OBVIOUS
<1>5. g \o <<>> = g
  OBVIOUS
<1> QED BY <1>1, <1>2, <1>3, <1>4, <1>5

\* The channel of a session that does not listen.
LEMMA EmptySeq == <<>> \in Seq(Nat)
OBVIOUS

\* A part at the front of consecutive numbers is consecutive, and so is the whole
\* with the next number.
LEMMA Consecutives ==
  ASSUME NEW f \in Nat, NEW g \in Seq(Nat), NEW c \in Seq(Nat), Consecutive(f, g \o c)
  PROVE  /\ Consecutive(f, g \o <<>>)
         /\ Consecutive(f, Append(g \o c, f + Len(g \o c)))
<1>1. Consecutive(f, g \o <<>>)
  <2>1. \A k \in DOMAIN g : k \in DOMAIN (g \o c) /\ (g \o c)[k] = g[k]
    OBVIOUS
  <2> QED BY <2>1, Recut DEF Consecutive
<1>2. ASSUME NEW q \in Seq(Nat), Consecutive(f, q)
      PROVE  Consecutive(f, Append(q, f + Len(q)))
  BY <1>2 DEF Consecutive
<1> QED BY <1>1, <1>2, Recut

\* Initially nothing has come.
LEMMA UdpInit == Init => UdpInv
BY DEF Init, Idle, UdpInv, TypeOK, RecvInv, MapInv, SessInv

\* What the steps of a session before its removal have in common: it keeps its
\* address, drops nothing from the middle of what it was passed, and while it
\* listens drops nothing at all.
Moves(i, r) ==
  /\ r \in Task
  /\ sess' = [sess EXCEPT ![i] = r]
  /\ UNCHANGED <<recv, arrived, hashmap>>
  /\ sess[i].pc # "done" /\ r.pc # "done"
  /\ r.addr = sess[i].addr /\ r.first = sess[i].first
  /\ Consecutive(r.first, Queued(r))
  /\ r.pc \in {"starting", "running"} => /\ sess[i].pc \in {"starting", "running"}
                                         /\ Queued(r) = Queued(sess[i])

\* Such a step keeps the map and the numbers.
LEMMA SessionMoves ==
  ASSUME UdpInv, NEW i \in DOMAIN sess, NEW r, Moves(i, r) PROVE UdpInv'
<1>1. sess \in Seq(Task) /\ i \in 1..Len(sess) /\ r \in Task /\ sess' = [sess EXCEPT ![i] = r]
  BY DEF UdpInv, TypeOK, Moves
<1>2. sess' \in Seq(Task) /\ DOMAIN sess' = DOMAIN sess /\ sess'[i] = r
      /\ \A j \in DOMAIN sess \ {i} : sess'[j] = sess[j]
  BY <1>1
<1>3. TypeOK' /\ RecvInv'
  BY <1>2 DEF UdpInv, TypeOK, RecvInv, Moves
<1>4. MapInv'
  BY <1>2 DEF UdpInv, MapInv, Moves
<1>5. ASSUME NEW j \in DOMAIN sess PROVE Consecutive(sess'[j].first, Queued(sess'[j])) /\ UpToDate(sess[j])'
  <2>1. CASE j = i
    BY <2>1, <1>2 DEF UdpInv, SessInv, UpToDate, Holds, Moves
  <2>2. CASE j # i
    BY <2>2, <1>2 DEF UdpInv, SessInv, UpToDate, Holds, Moves
  <2> QED BY <2>1, <2>2
<1> QED BY <1>2, <1>3, <1>4, <1>5 DEF UdpInv, SessInv

\* A session that stops listening drops what it has not handed on.
LEMMA GoesMoves ==
  ASSUME UdpInv, NEW i \in DOMAIN sess, NEW pc \in {"closing", "removing"}, sess[i].pc # "done",
         Goes(i, pc), UNCHANGED <<recv, arrived, hashmap>>
  PROVE  UdpInv'
<1> DEFINE r == [sess[i] EXCEPT !.pc = pc, !.chan = <<>>]
<1>1. sess \in Seq(Task) /\ sess[i] \in Task
  BY DEF UdpInv, TypeOK
<1>2. sess' = [sess EXCEPT ![i] = r]
  BY DEF Goes
<1>3. /\ r.pc = pc /\ r.addr = sess[i].addr /\ r.first = sess[i].first
      /\ r.got = sess[i].got /\ r.chan = <<>>
  BY <1>1 DEF Task
<1>t. r \in Task
  BY <1>1, EmptySeq DEF Task
<1>4. sess[i].first \in Nat /\ sess[i].got \in Seq(Nat) /\ sess[i].chan \in Seq(Nat)
      /\ Consecutive(sess[i].first, sess[i].got \o sess[i].chan)
  BY <1>1 DEF Task, UdpInv, SessInv, Queued
<1>5. Consecutive(r.first, Queued(r))
  BY <1>3, <1>4, Consecutives DEF Queued
<1> HIDE DEF r
<1>6. Moves(i, r)
  BY <1>2, <1>3, <1>t, <1>5 DEF Moves
<1> QED BY <1>6, SessionMoves

\* The task of a session, until it is removed.
LEMMA SessionInv ==
  ASSUME UdpInv, NEW i \in DOMAIN sess,
         Starts(i) \/ RecvFrame(i) \/ Leaves(i) \/ OnSessionClose(i)
  PROVE  UdpInv'
<1>1. sess \in Seq(Task) /\ sess[i] \in Task /\ Consecutive(sess[i].first, Queued(sess[i]))
  BY DEF UdpInv, TypeOK, SessInv
<1>2. CASE Starts(i)
  <2>1. CASE Goes(i, "removing")
    BY <1>2, <2>1, GoesMoves DEF Starts
  <2>2. CASE sess' = [sess EXCEPT ![i].pc = "running"]
    <3> DEFINE r == [sess[i] EXCEPT !.pc = "running"]
    <3>1. /\ r \in Task /\ r.pc = "running" /\ r.addr = sess[i].addr /\ r.first = sess[i].first
          /\ Queued(r) = Queued(sess[i])
      BY <1>1 DEF Task, Queued
    <3>2. sess' = [sess EXCEPT ![i] = r]
      BY <2>2
    <3> HIDE DEF r
    <3>3. Moves(i, r)
      BY <1>1, <1>2, <3>1, <3>2 DEF Moves, Starts
    <3> QED BY <3>3, SessionMoves
  <2> QED BY <1>2, <2>1, <2>2 DEF Starts
<1>3. CASE RecvFrame(i)
  <2> DEFINE r == [sess[i] EXCEPT !.chan = Tail(@), !.got = Append(@, Head(sess[i].chan))]
  <2>1. sess[i].got \in Seq(Nat) /\ sess[i].chan \in Seq(Nat) /\ sess[i].chan # <<>>
    BY <1>1, <1>3 DEF Task, RecvFrame
  <2>2. /\ r.pc = sess[i].pc /\ r.addr = sess[i].addr /\ r.first = sess[i].first
        /\ r.chan = Tail(sess[i].chan) /\ r.got = Append(sess[i].got, Head(sess[i].chan))
    BY <1>1 DEF Task
  <2>3. r \in Task
    BY <1>1, <2>1, Recut DEF Task
  <2>4. Queued(r) = Queued(sess[i])
    <3>1. Append(sess[i].got, Head(sess[i].chan)) \o Tail(sess[i].chan) = sess[i].got \o sess[i].chan
      BY <2>1, Recut
    <3> QED BY <2>2, <3>1 DEF Queued
  <2>5. sess' = [sess EXCEPT ![i] = r]
    BY <1>3 DEF RecvFrame
  <2> HIDE DEF r
  <2>6. Moves(i, r)
    BY <1>1, <1>3, <2>2, <2>3, <2>4, <2>5 DEF Moves, RecvFrame
  <2> QED BY <2>6, SessionMoves
<1>4. CASE Leaves(i)
  BY <1>4, GoesMoves DEF Leaves
<1>5. CASE OnSessionClose(i)
  BY <1>5, GoesMoves DEF OnSessionClose
<1> QED BY <1>2, <1>3, <1>4, <1>5

\* A session takes its own entry out of the map, for no other is there for its
\* address; the datagram that recv_task may hold then finds none.
LEMMA RemoveInv == ASSUME UdpInv, NEW i \in DOMAIN sess, Remove(i) PROVE UdpInv'
<1> DEFINE r == [sess[i] EXCEPT !.pc = "done", !.chan = <<>>]
<1>1. sess \in Seq(Task) /\ sess[i] \in Task /\ hashmap \in [Addrs -> Nat]
  BY DEF UdpInv, TypeOK
<1>2. /\ r.pc = "done" /\ r.addr = sess[i].addr /\ r.first = sess[i].first
      /\ r.got = sess[i].got /\ r.chan = <<>> /\ sess[i].addr \in Addrs
  BY <1>1 DEF Task
<1>t. r \in Task
  BY <1>1, EmptySeq DEF Task
<1>3. sess' = [sess EXCEPT ![i] = r] /\ hashmap' = [hashmap EXCEPT ![sess[i].addr] = 0]
      /\ UNCHANGED <<recv, arrived>>
  BY DEF Remove, Goes, Unlisted
<1>4. Consecutive(r.first, Queued(r))
  <2>1. sess[i].first \in Nat /\ sess[i].got \in Seq(Nat) /\ sess[i].chan \in Seq(Nat)
        /\ Consecutive(sess[i].first, sess[i].got \o sess[i].chan)
    BY <1>1 DEF Task, UdpInv, SessInv, Queued
  <2> QED BY <1>2, <2>1, Consecutives DEF Queued
<1> HIDE DEF r
<1>5. sess' \in Seq(Task) /\ DOMAIN sess' = DOMAIN sess /\ sess'[i] = r
      /\ \A j \in DOMAIN sess \ {i} : sess'[j] = sess[j]
  BY <1>1, <1>t, <1>3
<1>6. hashmap' \in [Addrs -> Nat] /\ hashmap'[sess[i].addr] = 0
      /\ \A a \in Addrs \ {sess[i].addr} : hashmap'[a] = hashmap[a]
  BY <1>1, <1>2, <1>3
<1>7. TypeOK' /\ RecvInv'
  BY <1>3, <1>5, <1>6 DEF UdpInv, TypeOK, RecvInv
<1>8. MapInv'
  <2>1. sess[i].pc # "done"
    BY DEF Remove
  <2>2. \A j \in DOMAIN sess \ {i} : sess[j] \in Task
    BY <1>1
  <2>3. ASSUME NEW j \in DOMAIN sess, sess'[j].pc # "done" PROVE hashmap'[sess'[j].addr] = j
    <3>1. j # i /\ sess'[j] = sess[j] /\ hashmap[sess[j].addr] = j /\ hashmap[sess[i].addr] = i
      BY <1>2, <1>5, <2>1, <2>3 DEF UdpInv, MapInv
    <3>2. sess[j].addr \in Addrs
      BY <2>2, <3>1 DEF Task
    <3> QED BY <1>6, <3>1, <3>2
  <2>4. ASSUME NEW a \in Addrs, hashmap'[a] # 0
        PROVE  hashmap'[a] \in DOMAIN sess /\ sess'[hashmap'[a]].addr = a /\ sess'[hashmap'[a]].pc # "done"
    <3>1. a # sess[i].addr /\ hashmap'[a] = hashmap[a]
      BY <1>6, <2>4
    <3>2. hashmap[a] \in DOMAIN sess /\ sess[hashmap[a]].addr = a /\ sess[hashmap[a]].pc # "done"
      BY <2>4, <3>1 DEF UdpInv, MapInv
    <3> QED BY <1>5, <3>1, <3>2
  <2> QED BY <1>5, <2>3, <2>4 DEF MapInv
<1>9. \A j \in DOMAIN sess : UpToDate(sess[j])'
  BY <1>2, <1>3, <1>5 DEF UdpInv, SessInv, UpToDate, Holds
<1> QED BY <1>4, <1>5, <1>7, <1>8, <1>9 DEF UdpInv, SessInv

\* recv_task reads a datagram or looks the address up.
LEMMA ReadInv ==
  ASSUME UdpInv, (\E a \in Addrs : RecvFrom(a)) \/ Look PROVE UdpInv'
<1>1. CASE Look
  <2>1. TypeOK' /\ RecvInv' /\ recv'.addr = recv.addr
        /\ recv.pc = "look" /\ recv'.pc \in {"insert", "get"}
    BY <1>1 DEF Look, UdpInv, TypeOK, RecvInv, Contains
  <2>2. MapInv' /\ SessInv'
    BY <1>1, <2>1 DEF Look, UdpInv, MapInv, SessInv, UpToDate, Holds
  <2> QED BY <2>1, <2>2 DEF UdpInv
<1>2. ASSUME NEW a \in Addrs, RecvFrom(a) PROVE UdpInv'
  <2>1. TypeOK' /\ RecvInv' /\ recv'.addr = a /\ recv'.pc = "look" /\ recv.pc = "recv"
        /\ arrived'[a] = arrived[a] + 1 /\ \A b \in Addrs \ {a} : arrived'[b] = arrived[b]
    BY <1>2 DEF RecvFrom, UdpInv, TypeOK, RecvInv
  <2>2. MapInv'
    BY <1>2 DEF RecvFrom, UdpInv, MapInv
  <2>3. ASSUME NEW i \in DOMAIN sess PROVE UpToDate(sess[i])'
    <3>0. sess[i] \in Task
      BY DEF UdpInv, TypeOK
    <3>1. sess[i].addr \in Addrs /\ UpToDate(sess[i]) /\ sess' = sess
      BY <1>2, <3>0 DEF RecvFrom, UdpInv, Task, SessInv
    <3> QED BY <2>1, <3>1 DEF UpToDate, Holds
  <2>4. SessInv'
    BY <1>2, <2>3 DEF UdpInv, SessInv, RecvFrom
  <2> QED BY <2>1, <2>2, <2>4 DEF UdpInv
<1> QED BY <1>1, <1>2

\* A new session begins with the datagram in hand.
LEMMA InsertInv == ASSUME UdpInv, Insert PROVE UdpInv'
<1>0. PICK n : n = Len(sess) + 1
  OBVIOUS
<1>1. /\ recv.pc = "insert" /\ recv.addr \in Addrs /\ recv.n = arrived[recv.addr]
      /\ hashmap[recv.addr] = 0 /\ recv.n \in Nat
      /\ sess \in Seq(Task) /\ hashmap \in [Addrs -> Nat] /\ n \in Nat
  BY <1>0 DEF Insert, UdpInv, TypeOK, RecvInv
<1>2. /\ NewSession \in Task /\ NewSession.addr = recv.addr /\ NewSession.pc = "starting"
      /\ NewSession.first = recv.n /\ Queued(NewSession) = <<>>
  BY <1>1 DEF NewSession, Task, Queued
<1>3. /\ sess' \in Seq(Task) /\ DOMAIN sess' = DOMAIN sess \cup {n} /\ n \notin DOMAIN sess
      /\ sess'[n] = NewSession /\ \A i \in DOMAIN sess : sess'[i] = sess[i]
  BY <1>0, <1>1, <1>2 DEF Insert
<1>4. hashmap' \in [Addrs -> Nat] /\ hashmap'[recv.addr] = n
      /\ \A a \in Addrs \ {recv.addr} : hashmap'[a] = hashmap[a]
  BY <1>0, <1>1 DEF Insert
<1>5. TypeOK' /\ RecvInv' /\ recv'.pc = "get" /\ recv'.addr = recv.addr /\ arrived' = arrived
  BY <1>1, <1>3, <1>4 DEF Insert, Passes, UdpInv, TypeOK, RecvInv
<1>6. MapInv'
  <2>1. \A i \in DOMAIN sess : sess[i].pc # "done" => sess[i].addr \in Addrs \ {recv.addr}
    <3>1. \A i \in DOMAIN sess : sess[i] \in Task /\ i # 0
      BY <1>1
    <3> QED BY <1>1, <3>1 DEF UdpInv, MapInv, Task
  <2>2. ASSUME NEW i \in DOMAIN sess', sess'[i].pc # "done" PROVE hashmap'[sess'[i].addr] = i
    <3>1. CASE i = n
      BY <1>2, <1>3, <1>4, <3>1
    <3>2. CASE i # n
      BY <1>3, <1>4, <2>1, <2>2, <3>2 DEF UdpInv, MapInv
    <3> QED BY <3>1, <3>2
  <2>3. ASSUME NEW a \in Addrs, hashmap'[a] # 0
        PROVE  hashmap'[a] \in DOMAIN sess' /\ sess'[hashmap'[a]].addr = a /\ sess'[hashmap'[a]].pc # "done"
    <3>1. CASE a = recv.addr
      BY <1>2, <1>3, <1>4, <3>1
    <3>2. CASE a # recv.addr
      BY <1>3, <1>4, <2>3, <3>2 DEF UdpInv, MapInv
    <3> QED BY <3>1, <3>2
  <2> QED BY <2>2, <2>3 DEF MapInv
<1>7. Consecutive(sess'[n].first, Queued(sess'[n])) /\ UpToDate(sess[n])'
  BY <1>1, <1>2, <1>3, <1>5 DEF Consecutive, UpToDate, Holds
<1>8. \A i \in DOMAIN sess : Consecutive(sess'[i].first, Queued(sess'[i])) /\ UpToDate(sess[i])'
  BY <1>1, <1>3, <1>5 DEF UdpInv, SessInv, UpToDate, Holds
<1> QED BY <1>3, <1>5, <1>6, <1>7, <1>8 DEF UdpInv, SessInv

\* The datagram in hand is the next one of a session that listens.
LEMMA GetInv == ASSUME UdpInv, Get PROVE UdpInv'
<1>1. /\ recv.pc = "get" /\ recv.addr \in Addrs /\ recv.n = arrived[recv.addr] /\ recv.n \in Nat
      /\ sess \in Seq(Task) /\ arrived \in [Addrs -> Nat]
      /\ recv' = Idle /\ arrived' = arrived /\ hashmap' = hashmap
  BY DEF Get, UdpInv, TypeOK, RecvInv
<1>2. recv' \in [pc : {"recv", "look", "insert", "get", "dropped"}, addr : Addrs \cup {"none"}, n : Nat]
      /\ recv'.pc = "recv"
  BY <1>1 DEF Idle
<1>3. PICK i : i = hashmap[recv.addr]
  OBVIOUS
<1>4. CASE i # 0 /\ Listens(i)
  <2> DEFINE r == [sess[i] EXCEPT !.chan = Append(@, recv.n)]
  <2>1. i \in DOMAIN sess /\ sess[i] \in Task /\ sess[i].addr = recv.addr
    BY <1>1, <1>3, <1>4 DEF UdpInv, MapInv
  <2>2. sess[i].got \in Seq(Nat) /\ sess[i].chan \in Seq(Nat) /\ sess[i].first \in Nat
        /\ Append(sess[i].chan, recv.n) \in Seq(Nat)
    BY <1>1, <2>1 DEF Task
  <2>3. /\ r.pc = sess[i].pc /\ r.addr = recv.addr /\ r.first = sess[i].first
        /\ r.got = sess[i].got /\ r.chan = Append(sess[i].chan, recv.n)
    BY <2>1 DEF Task
  <2>4. r \in Task
    BY <2>1, <2>2 DEF Task
  <2>5. sess' = [sess EXCEPT ![i] = r]
    BY <1>3, <1>4 DEF Get
  <2>6. Queued(r) = Append(Queued(sess[i]), recv.n) /\ Queued(sess[i]) \in Seq(Nat)
    <3>1. sess[i].got \o Append(sess[i].chan, recv.n) = Append(sess[i].got \o sess[i].chan, recv.n)
          /\ sess[i].got \o sess[i].chan \in Seq(Nat)
      <4> DEFINE g == sess[i].got  c == sess[i].chan  m == recv.n
      <4>1. g \in Seq(Nat) /\ c \in Seq(Nat) /\ m \in Nat
        BY <1>1, <2>2
      <4> HIDE DEF g, c, m
      <4>2. g \o Append(c, m) = Append(g \o c, m) /\ g \o c \in Seq(Nat)
        BY <4>1, Recut
      <4> QED BY <4>2 DEF g, c, m
    <3> QED BY <2>3, <3>1 DEF Queued
  <2> HIDE DEF r
  <2>7. sess' \in Seq(Task) /\ DOMAIN sess' = DOMAIN sess /\ sess'[i] = r
        /\ \A j \in DOMAIN sess \ {i} : sess'[j] = sess[j]
    BY <1>1, <2>1, <2>4, <2>5
  <2>8. recv.n = sess[i].first + Len(Queued(sess[i]))
    BY <1>1, <1>4, <2>1 DEF UdpInv, SessInv, UpToDate, Holds, Listens
  <2>9. Consecutive(r.first, Queued(r)) /\ Len(Queued(r)) = Len(Queued(sess[i])) + 1
    <3>1. Consecutive(sess[i].first, Queued(sess[i]))
      BY <2>1 DEF UdpInv, SessInv
    <3>2. Consecutive(sess[i].first, Append(Queued(sess[i]), recv.n))
      BY <2>2, <2>8, <3>1, Consecutives DEF Queued
    <3> QED BY <1>1, <2>3, <2>6, <3>2
  <2>10. MapInv'
    <3>1. \A j \in DOMAIN sess : sess'[j].addr = sess[j].addr /\ sess'[j].pc = sess[j].pc
      BY <2>1, <2>3, <2>7
    <3> QED BY <1>1, <2>7, <3>1, ZenonT(40) DEF UdpInv, MapInv
  <2>11. UpToDate(sess[i])'
    <3>1. Len(Queued(sess[i])) \in Nat
      BY <2>6
    <3>2. r.first + Len(Queued(r)) = arrived[recv.addr] + 1
      BY <1>1, <2>2, <2>3, <2>8, <2>9, <3>1
    <3>3. sess'[i] = r /\ arrived' = arrived /\ r.addr = recv.addr /\ ~Holds(r.addr)'
      BY <1>1, <1>2, <2>3, <2>7 DEF Holds
    <3> QED BY <1>2, <3>2, <3>3 DEF UpToDate, Holds
  <2>12. ASSUME NEW j \in DOMAIN sess, j # i PROVE UpToDate(sess[j])'
    <3>1. sess[j] \in Task /\ sess'[j] = sess[j]
      BY <1>1, <2>7, <2>12
    <3>2. sess[j].pc \in {"starting", "running"} => sess[j].addr # recv.addr
      BY <1>3, <2>12 DEF UdpInv, MapInv
    <3> QED BY <1>1, <1>2, <3>1, <3>2 DEF UdpInv, SessInv, UpToDate, Holds
  <2>13. SessInv'
    BY <2>7, <2>9, <2>11, <2>12 DEF UdpInv, SessInv
  <2> QED BY <1>1, <1>2, <2>7, <2>10, <2>13 DEF UdpInv, TypeOK, RecvInv
<1>5. CASE ~(i # 0 /\ Listens(i))
  <2>1. sess' = sess
    BY <1>3, <1>5 DEF Get
  <2>2. ASSUME NEW j \in DOMAIN sess PROVE UpToDate(sess[j])'
    <3>1. sess[j].pc \in {"starting", "running"} => sess[j].addr # recv.addr
      <4>1. j # 0
        BY <1>1
      <4> QED BY <1>3, <1>5, <4>1 DEF UdpInv, MapInv, Listens
    <3> QED BY <1>1, <1>2, <2>1, <3>1 DEF UdpInv, SessInv, UpToDate, Holds
  <2> QED BY <1>1, <1>2, <2>1, <2>2 DEF UdpInv, TypeOK, RecvInv, MapInv, SessInv
<1> QED BY <1>4, <1>5

\* The end of run_server: recv_task is dropped wherever it is.
LEMMA EndInv == ASSUME UdpInv, Stop \/ Finish \/ ForceExit PROVE UdpInv'
<1>1. CASE Stop
  <2>1. recv' \in [pc : {"recv", "look", "insert", "get", "dropped"}, addr : Addrs \cup {"none"}, n : Nat]
        /\ recv'.pc = "dropped"
    BY <1>1 DEF Stop, Idle
  <2> QED BY <1>1, <2>1 DEF Stop, UdpInv, TypeOK, RecvInv, MapInv, SessInv, UpToDate
<1>2. CASE UNCHANGED <<recv, arrived, hashmap, sess>>
  BY <1>2 DEF UdpInv, TypeOK, RecvInv, MapInv, SessInv, UpToDate, Holds
<1> QED BY <1>1, <1>2 DEF Finish, ForceExit

\* rmc-server's UDP server: the map names exactly the sessions that have not been
\* removed, one for an address, although sessions remove themselves between the look
\* and the use; and a session hands on consecutive datagrams, none lost within.
THEOREM RoutedCorrect == Spec => []SessionsRouted
<1>1. UdpInv /\ [Next]_vars => UdpInv'
  <2> SUFFICES ASSUME UdpInv, [Next]_vars PROVE UdpInv'
    OBVIOUS
  <2>1. CASE \E a \in Addrs : RecvFrom(a)
    BY <2>1, ReadInv
  <2>2. CASE RecvTask
    BY <2>2, ReadInv, InsertInv, GetInv DEF RecvTask
  <2>3. CASE \E i \in DOMAIN sess : Session(i)
    BY <2>3, SessionInv, RemoveInv DEF Session
  <2>4. CASE Stop \/ Finish \/ ForceExit
    BY <2>4, EndInv
  <2>5. CASE UNCHANGED vars
    BY <2>5 DEF vars, UdpInv, TypeOK, RecvInv, MapInv, SessInv, UpToDate, Holds
  <2> QED BY <2>1, <2>2, <2>3, <2>4, <2>5 DEF Next
<1>2. UdpInv => SessionsRouted
  BY DEF UdpInv, MapInv, SessInv, Consecutive, Queued, SessionsRouted, MapIsSessions, NoHoles,
         Contains
<1> QED BY UdpInit, <1>1, <1>2, PTL DEF Spec
=============================================================================
