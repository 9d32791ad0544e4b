---------------------------- MODULE ServerChannel ----------------------------
(***************************************************************************)
(* Server channels of an io_service: opening, accepting TCP connections,   *)
(* and the UDP server, which gives each peer a transport of its own, with  *)
(* a socket bound to the same port and connected to the peer, and keeps    *)
(* them in transport_map_ by the peer's address.                           *)
(***************************************************************************)
EXTENDS Integers, Sequences, FiniteSets, SequencesExt

CONSTANTS Udp, Tcp,   \* the channels
          Peers,
          MaxSlots,   \* bound: transports at a time
          MaxMsgs,    \* bound: datagrams and connections sent
          MaxCalls,   \* bound: calls of open and close
          MayFail     \* connect() of a UDP socket may fail

ServerAssumption ==
  /\ Udp \cap Tcp = {} /\ {MaxSlots, MaxMsgs, MaxCalls} \subseteq Nat /\ MayFail \in BOOLEAN

Channels == Udp \cup Tcp
Slots == 1..MaxSlots
Free == [ch |-> "none", peer |-> "none", peer_ |-> "none", connected_ |-> FALSE,
         q |-> <<>>, close |-> FALSE]
Shut == [open |-> FALSE, mask |-> {}, q |-> <<>>]

VARIABLES chan,            \* open: state_ is OPENED; mask: opmask_; q: what its socket holds
          channel_ops_, transports_,
          tr,              \* the transports, by address
          transport_map_,
          phase, at,       \* the worker: in process_transports or process_channels, and where
          msgs, calls,
          fault
net == <<chan, tr>>
loop == <<phase, at>>
count == <<msgs, calls>>
vars == <<net, channel_ops_, transports_, transport_map_, loop, count, fault>>

Init == /\ chan = [c \in Channels |-> Shut]
        /\ channel_ops_ = <<>> /\ transports_ = <<>>
        /\ tr = [s \in Slots |-> Free]
        /\ transport_map_ = [p \in Peers |-> 0]
        /\ phase = "transports" /\ at = 1
        /\ msgs = 0 /\ calls = 0 /\ fault = {}

Alive(s) == tr[s].ch # "none"
Of(c) == {s \in Slots : tr[s].ch = c}

(***************************************************************************)
(* The network.  A datagram goes to the socket connected to its sender, or *)
(* else to one on its port that is not connected.                          *)
(***************************************************************************)
Arrives(p, c) ==
  LET exact == {s \in Of(c) : c \in Udp /\ tr[s].connected_ /\ tr[s].peer = p}
      loose == {s \in Of(c) : c \in Udp /\ ~tr[s].connected_}
      To(s) == tr' = [tr EXCEPT ![s].q = Append(@, p)] /\ chan' = chan
  IN  /\ msgs < MaxMsgs /\ msgs' = msgs + 1
      /\ \/ \E s \in exact : To(s)
         \/ exact = {} /\ \E s \in loose : To(s)
         \/ /\ exact = {} /\ chan[c].open
            /\ chan' = [chan EXCEPT ![c].q = Append(@, p)] /\ tr' = tr
      /\ UNCHANGED <<channel_ops_, transports_, transport_map_, loop, calls, fault>>

(***************************************************************************)
(* Other threads.                                                          *)
(***************************************************************************)
open(c) ==
  /\ calls < MaxCalls /\ calls' = calls + 1
  /\ phase = "transports" \/ c \in ToSet(channel_ops_)    \* channel_ops_mtx_
  /\ chan' = [chan EXCEPT ![c].mask = {"open"}]
  /\ channel_ops_' = IF c \in ToSet(channel_ops_) THEN channel_ops_ ELSE Append(channel_ops_, c)
  /\ UNCHANGED <<tr, transports_, transport_map_, loop, msgs, fault>>
close(c) ==
  /\ calls < MaxCalls /\ calls' = calls + 1
  /\ "close" \notin chan[c].mask
  /\ chan' = [chan EXCEPT ![c].mask = IF chan[c].open THEN {"close"} ELSE {}]
  /\ UNCHANGED <<tr, channel_ops_, transports_, transport_map_, loop, msgs, fault>>
close_transport(s) ==
  /\ calls < MaxCalls /\ calls' = calls + 1
  /\ Alive(s) /\ ~tr[s].close
  /\ tr' = [tr EXCEPT ![s].close = TRUE]
  /\ UNCHANGED <<chan, channel_ops_, transports_, transport_map_, loop, msgs, fault>>

(***************************************************************************)
(* process_transports                                                      *)
(***************************************************************************)
\* What is wrong with giving transport s, as t holds it, a datagram that p sent
\* to channel c.
Wrong(t, s, p, c) == (IF t[s].ch = "none" THEN {"dangling"} ELSE {})
  \cup (IF t[s].ch # "none" /\ t[s].peer # p THEN {"peer"} ELSE {})
  \cup (IF t[s].ch # "none" /\ t[s].ch # c THEN {"channel"} ELSE {})

\* remote_endpoint: the address the socket is connected to, or the last sender's
remote_endpoint(t) == IF t.connected_ THEN t.peer ELSE t.peer_

\* The form that leaves the map alone.
MapKept(t) == transport_map_
Unmapped(t) == IF t.ch \in Udp THEN [transport_map_ EXCEPT ![remote_endpoint(t)] = 0]
               ELSE transport_map_

Here == transports_[at]
\* do_read: one datagram, if there is one.
Read == LET t == tr[Here]
        IN  IF t.q = <<>> THEN t
            ELSE [t EXCEPT !.q = Tail(@), !.peer_ = IF t.connected_ THEN @ ELSE Head(t.q)]
ReadFault == IF tr[Here].q = <<>> THEN {} ELSE Wrong(tr, Here, Head(tr[Here].q), tr[Here].ch)

AtTransport == phase = "transports" /\ at <= Len(transports_)
\* The form that asks the channel only.
RequestedOfChannel == chan[tr[Here].ch].mask # {}
Requested == tr[Here].close \/ chan[tr[Here].ch].mask # {}

TransportStays ==
  /\ AtTransport /\ ~Requested
  /\ tr' = [tr EXCEPT ![Here] = Read] /\ fault' = fault \cup ReadFault
  /\ at' = at + 1
  /\ UNCHANGED <<chan, channel_ops_, transports_, transport_map_, phase, count>>

\* The read fails, or somebody asked to close, open or stop: handle_close.
TransportEnds ==
  /\ AtTransport
  /\ \/ /\ transport_map_' = Unmapped(tr[Here]) /\ fault' = fault
     \/ Requested /\ transport_map_' = Unmapped(Read) /\ fault' = fault \cup ReadFault
  /\ tr' = [tr EXCEPT ![Here] = Free]
  /\ transports_' = RemoveAt(transports_, at)
  /\ UNCHANGED <<chan, channel_ops_, loop, count>>

TransportsDone == /\ phase = "transports" /\ at > Len(transports_)
                  /\ phase' = "channels" /\ at' = 1
                  /\ UNCHANGED <<net, channel_ops_, transports_, transport_map_, count, fault>>

(***************************************************************************)
(* process_channels                                                        *)
(***************************************************************************)
This == channel_ops_[at]
AtChannel == phase = "channels" /\ at <= Len(channel_ops_)

\* do_accept: the old socket is closed; a new one is opened, bound and listens,
\* unless one of these fails.  cleanup_channel forgets all requests.
do_accept(ok) == [Shut EXCEPT !.open = ok]
cleanup_channel == Shut

Asked(ok) == IF "open" \in chan[This].mask THEN do_accept(ok)
             ELSE IF "close" \in chan[This].mask THEN cleanup_channel ELSE chan[This]

\* The form that takes the channel off the list with its first connection.
FinishedEarly(c) == ~c.open \/ c.q # <<>>
finish(c) == ~c.open

\* Whatever is asked, and no connection or datagram.
ChannelAsked ==
  /\ AtChannel /\ (chan[This].mask # {} \/ chan[This].q = <<>> \/ finish(chan[This]))
  /\ \E ok \in BOOLEAN :
       /\ chan' = [chan EXCEPT ![This] = Asked(ok)]
       /\ IF finish(Asked(ok)) THEN channel_ops_' = RemoveAt(channel_ops_, at) /\ at' = at
          ELSE at' = at + 1 /\ channel_ops_' = channel_ops_
  /\ UNCHANGED <<tr, transports_, transport_map_, phase, count, fault>>

\* allocate_transport and active_transport
Allocated(s, p, conn) == [Free EXCEPT !.ch = This, !.peer = p, !.peer_ = p, !.connected_ = conn]
Activated(s) == transports_' = Append(transports_, s)

\* The head of what the channel's socket holds is taken.
Takes == /\ AtChannel /\ chan[This].mask = {} /\ chan[This].open /\ chan[This].q # <<>>
         /\ chan' = [chan EXCEPT ![This].q = Tail(@)]
         /\ channel_ops_' = IF finish(chan[This]) THEN RemoveAt(channel_ops_, at) ELSE channel_ops_
         /\ at' = IF finish(chan[This]) THEN at ELSE at + 1
         /\ UNCHANGED <<phase, count>>

do_accept_completion ==
  /\ Takes /\ This \in Tcp
  /\ \E s \in Slots : /\ ~Alive(s) /\ \A r \in Slots : r < s => Alive(r)
                      /\ tr' = [tr EXCEPT ![s] = Allocated(s, Head(chan[This].q), TRUE)]
                      /\ Activated(s)
  /\ UNCHANGED <<transport_map_, fault>>

\* The form that does not look into the map.
NeverKnown(p) == FALSE
Known(p) == transport_map_[p] # 0

\* do_dgram_accept finds the peer's transport, and handle_input gives it the datagram,
DgramKnown ==
  LET p == Head(chan[This].q)
  IN  /\ Takes /\ This \in Udp /\ Known(p)
      /\ fault' = fault \cup Wrong(tr, transport_map_[p], p, This)
      /\ UNCHANGED <<tr, transports_, transport_map_>>
\* or makes one,
DgramNew ==
  LET p == Head(chan[This].q)
  IN  /\ Takes /\ This \in Udp /\ ~Known(p)
      /\ \E s \in Slots, conn \in IF MayFail THEN BOOLEAN ELSE {TRUE} :
           /\ ~Alive(s) /\ \A r \in Slots : r < s => Alive(r)
           /\ tr' = [tr EXCEPT ![s] = Allocated(s, p, conn)]
           /\ Activated(s)
           /\ transport_map_' = [transport_map_ EXCEPT ![p] = s]
           /\ fault' = fault \cup Wrong(tr', s, p, This)
\* or cannot: the datagram is lost.
DgramLost == /\ Takes /\ This \in Udp /\ ~Known(Head(chan[This].q))
             /\ UNCHANGED <<tr, transports_, transport_map_, fault>>

ChannelsDone == /\ phase = "channels" /\ at > Len(channel_ops_)
                /\ phase' = "transports" /\ at' = 1
                /\ UNCHANGED <<net, channel_ops_, transports_, transport_map_, count, fault>>

Worker == \/ TransportStays \/ TransportEnds \/ TransportsDone
          \/ ChannelAsked \/ do_accept_completion \/ DgramKnown \/ DgramNew \/ DgramLost \/ ChannelsDone
Next == \/ \E p \in Peers, c \in Channels : Arrives(p, c)
        \/ \E c \in Channels : open(c) \/ close(c)
        \/ \E s \in Slots : close_transport(s)
        \/ Worker
Spec == Init /\ [][Next]_vars
\* The worker runs.
FairSpec == Spec /\ WF_vars(Worker)

(***************************************************************************)
(* Properties.                                                             *)
(***************************************************************************)
\* The map names, for each peer, a transport of that peer that exists, and
\* every UDP transport is in it: handle_close erases the entry that
\* do_dgram_accept made.
MapExact ==
  /\ \A p \in Peers : Known(p) => Alive(transport_map_[p]) /\ tr[transport_map_[p]].peer = p
  /\ \A s \in Slots : tr[s].ch \in Udp => transport_map_[tr[s].peer] = s

\* What a peer sends comes up on a transport of that peer, and not on one that
\* is no more.
RightPeer == fault \cap {"peer", "dangling"} = {}

\* Both: the map is exact, and what is routed by it goes to the right peer.
SessionsRouted == MapExact /\ RightPeer

\* What a peer sends to one channel comes up on that channel.
FourTuple == "channel" \notin fault

\* When a server channel has been closed its connections are closed.
CloseEnds == (phase = "transports" /\ at = 1) =>
  \A s \in Slots : Alive(s) => chan[tr[s].ch].open \/ chan[tr[s].ch].mask # {}

\* A connection that waits is accepted, and a datagram that waits is read.
Waited(c) == chan[c].q # <<>>
Served == \A c \in Channels : Waited(c) ~> ~Waited(c)

\* A transport that somebody closed goes.
Marked(s) == tr[s].close
CloseGoes == \A s \in Slots : Marked(s) ~> ~Marked(s)
=============================================================================
