----------------------------- MODULE UdpServer -----------------------------
(***************************************************************************)
(* rmc-server's UDP server: one task reads the socket and passes each      *)
(* datagram to the session of its address, found in a map that the session *)
(* tasks clean up themselves.                                              *)
(*                                                                         *)
(* A datagram is its number among those of its address.  Time is left out: *)
(* a session may time out whenever it waits.  So is what poll_write sends: *)
(* for the map it only matters that the writer may end the session.        *)
(***************************************************************************)
EXTENDS Naturals, Sequences, FiniteSets

CONSTANTS Addrs,         \* the addresses datagrams come from
          MaxDatagrams   \* bound: datagrams from one address

UdpAssumption == MaxDatagrams \in Nat

VARIABLES recv,      \* recv_task: where it is, and the datagram in its hands
          arrived,   \* arrived[a]: how many datagrams of a it has read
          hashmap,   \* hashmap[a]: the session whose sender is in the map, 0 for none
          sess,      \* the sessions, in the order of session_id_seed
          server     \* "up", "waiting" for the sessions to end, "finished"
vars == <<recv, arrived, hashmap, sess, server>>

Idle == [pc |-> "recv", addr |-> "none", n |-> 0]

Init == /\ recv = Idle
        /\ arrived = [a \in Addrs |-> 0]
        /\ hashmap = [a \in Addrs |-> 0]
        /\ sess = <<>>
        /\ server = "up"

(***************************************************************************)
(* recv_task.  Every wait for the lock of the map is a step of its own.    *)
(***************************************************************************)
RecvFrom(a) ==
  /\ recv.pc = "recv" /\ arrived[a] < MaxDatagrams
  /\ arrived' = [arrived EXCEPT ![a] = @ + 1]
  /\ recv' = [pc |-> "look", addr |-> a, n |-> arrived[a] + 1]
  /\ UNCHANGED <<hashmap, sess, server>>

\* The form that never finds the address.
ContainsNever(a) == FALSE
Contains(a) == hashmap[a] # 0

Look == /\ recv.pc = "look"
        /\ recv' = [recv EXCEPT !.pc = IF Contains(recv.addr) THEN "get" ELSE "insert"]
        /\ UNCHANGED <<arrived, hashmap, sess, server>>

NewSession == [addr |-> recv.addr, pc |-> "starting", first |-> recv.n, chan |-> <<>>, got |-> <<>>]
\* The form that passes on only the datagrams of a known address.
PassesOnlyKnown == recv' = Idle
Passes == recv' = [recv EXCEPT !.pc = "get"]

\* The sender goes into the map and the session task is spawned.
Insert == /\ recv.pc = "insert"
          /\ sess' = Append(sess, NewSession)
          /\ hashmap' = [hashmap EXCEPT ![recv.addr] = Len(sess) + 1]
          /\ Passes
          /\ UNCHANGED <<arrived, server>>

\* The receiver of a session's channel lives until select! ends.
Listens(i) == sess[i].pc \in {"starting", "running"}

\* By now the entry may be gone, or its session may have stopped listening.
Get == /\ recv.pc = "get"
       /\ LET i == hashmap[recv.addr] IN
            sess' = IF i # 0 /\ Listens(i)
                    THEN [sess EXCEPT ![i].chan = Append(@, recv.n)] ELSE sess
       /\ recv' = Idle
       /\ UNCHANGED <<arrived, hashmap, server>>

(***************************************************************************)
(* The task of session i: udp_session::run, then the removal.              *)
(***************************************************************************)
Goes(i, pc) == sess' = [sess EXCEPT ![i].pc = pc, ![i].chan = <<>>]

\* on_session_start succeeds, or run returns at once.
Starts(i) == /\ sess[i].pc = "starting"
             /\ \/ sess' = [sess EXCEPT ![i].pc = "running"]
                \/ Goes(i, "removing")
             /\ UNCHANGED <<recv, arrived, hashmap, server>>

\* poll_read_from_unbounded_receiver hands a datagram to on_recv_frame.
RecvFrame(i) == /\ sess[i].pc = "running" /\ sess[i].chan # <<>>
                /\ sess' = [sess EXCEPT ![i].chan = Tail(@),
                                        ![i].got = Append(@, Head(sess[i].chan))]
                /\ UNCHANGED <<recv, arrived, hashmap, server>>

\* One branch of select! ends: an error of the delegate, the writer, the time-out.
Leaves(i) == /\ sess[i].pc = "running"
             /\ Goes(i, "closing")
             /\ UNCHANGED <<recv, arrived, hashmap, server>>

\* shutdown.recv, once notify_shutdown is dropped.
Told(i) == server # "up" /\ Leaves(i)

OnSessionClose(i) == /\ sess[i].pc = "closing"
                     /\ Goes(i, "removing")
                     /\ UNCHANGED <<recv, arrived, hashmap, server>>

\* The form without the removal.
StaysListed(i) == UNCHANGED hashmap
Unlisted(i) == hashmap' = [hashmap EXCEPT ![sess[i].addr] = 0]

\* hashmap.remove, and the clone of shutdown_complete_tx is dropped.
Remove(i) == /\ sess[i].pc = "removing"
             /\ Unlisted(i)
             /\ Goes(i, "done")
             /\ UNCHANGED <<recv, arrived, server>>

Session(i) == Starts(i) \/ RecvFrame(i) \/ Leaves(i) \/ OnSessionClose(i) \/ Remove(i)

(***************************************************************************)
(* The end of run_server: select! drops recv_task wherever it waits.       *)
(***************************************************************************)
Stop == /\ server = "up" /\ server' = "waiting"
        /\ recv' = [Idle EXCEPT !.pc = "dropped"]
        /\ UNCHANGED <<arrived, hashmap, sess>>

\* The form in which run_server waits with a sender of its own.
OneHeld == FALSE
AllDropped == \A i \in DOMAIN sess : sess[i].pc = "done"

Finish == /\ server = "waiting" /\ AllDropped
          /\ server' = "finished"
          /\ UNCHANGED <<recv, arrived, hashmap, sess>>

\* The wait has lasted 600 seconds.
ForceExit == /\ server = "waiting" /\ server' = "finished"
             /\ UNCHANGED <<recv, arrived, hashmap, sess>>

RecvTask == Look \/ Insert \/ Get
Next == \/ \E a \in Addrs : RecvFrom(a)
        \/ RecvTask
        \/ \E i \in DOMAIN sess : Session(i)
        \/ Stop \/ Finish \/ ForceExit

Spec == Init /\ [][Next]_vars

\* A session that has begun to end goes on, and so does the wait for it.
Ending(i) == i \in DOMAIN sess /\ (OnSessionClose(i) \/ Remove(i))
Beginning(i) == i \in DOMAIN sess /\ (Starts(i) \/ Told(i))
FairSpec == /\ Spec /\ WF_vars(Finish)
            /\ \A i \in 1 .. MaxDatagrams * Cardinality(Addrs) :
                 WF_vars(Beginning(i)) /\ WF_vars(Ending(i))

(***************************************************************************)
(* Properties.                                                             *)
(***************************************************************************)
\* The map names exactly the sessions that have not been removed, one for an
\* address: no datagram makes a second session beside one that is ending, and
\* the removal of one never takes the entry of another.
MapIsSessions ==
  /\ \A i \in DOMAIN sess : sess[i].pc # "done" => hashmap[sess[i].addr] = i
  /\ \A a \in Addrs : Contains(a) => /\ sess[hashmap[a]].addr = a
                                     /\ sess[hashmap[a]].pc # "done"

\* What a session hands to its delegate are consecutive datagrams of its address,
\* beginning with the one that made it: datagrams are lost between two
\* sessions only, never within one.
NoHoles ==
  \A i \in DOMAIN sess :
    LET s == sess[i].got \o sess[i].chan
    IN  \A k \in DOMAIN s : s[k] = sess[i].first + k - 1

\* Both: every datagram goes to the session of its address.
SessionsRouted == MapIsSessions /\ NoHoles

\* The address of a session that ends is free for a new one again.
Ended(i) == i \in DOMAIN sess /\ sess[i].pc \in {"closing", "removing"}
Freed(i) == i \in DOMAIN sess => hashmap[sess[i].addr] # i

\* Once stopped, the server ends by itself: no session outlives the notice, be
\* it one that had just been made.
Waits == server = "waiting"
=============================================================================
