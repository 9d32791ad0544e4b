-------------------------- MODULE ControllerProofs --------------------------
(***************************************************************************)
(* Safety of the controller for any number of clicks, connections and      *)
(* messages: its status is exact, the page sees every connection opened,   *)
(* then used, then closed, key events stay in order, and after a single    *)
(* login the page shows the status.                                        *)
(***************************************************************************)
EXTENDS Controller, SequenceTheorems, TLAPS

USE DEF uiVars, loopVars, taskVars, outVars

ConnStates == {"none", "opened", "up", "ended", "down", "gone"}

\* The part of the state that the status depends on, well typed.
LinkType == /\ conn \in [Links -> ConnStates]
            /\ link \in 0..MaxLinks
            /\ loop \in {"recv", "connecting", "answering"}
            /\ status \in Statuses
            /\ answer \in PageMessages

\* Connections are used up in order, and an announcement the loop has yet to
\* send is that of the newest one, whose task has not started.
LinkInv == /\ LinkType
           /\ StatusExact
           /\ \A c \in Links : conn[c] # "none" <=> c <= link
           /\ answer.c > 0 => /\ loop = "answering"
                              /\ answer.c = link
                              /\ conn[link] = "opened"
           /\ answer.kind # "lost"

\* At start there is no connection, and none is announced.
LEMMA LinkInit == Init => LinkInv
BY ControllerAssumption
   DEF Init, LinkInv, LinkType, StatusExact, Links, ConnStates, Statuses,
       PageMessages, NoAnswer, ToPage, InUse

\* Each step of the run loop, of a connection task or of the page keeps LinkInv.
LEMMA LinkStep == LinkInv /\ [Next]_vars => LinkInv'
<1> SUFFICES ASSUME LinkInv, [Next]_vars PROVE LinkInv'
  OBVIOUS
<1> USE ControllerAssumption
<1>1. ASSUME UNCHANGED <<loop, answer, status, link, conn>> PROVE LinkInv'
  BY <1>1 DEF LinkInv, LinkType, StatusExact
<1>2. CASE Page
  BY <1>1, <1>2 DEF Page, ReadStatus, Listen, Reload, ClickLogin, ClickControl,
                    OnEvent, ReleaseKey
<1>3. CASE \E m \in Calls : Js2rs(m)
  BY <1>1, <1>3 DEF Js2rs
<1>4. CASE Rs2js
  BY <1>1, <1>4 DEF Rs2js
<1>5. CASE ForwardInput
  BY <1>1, <1>5 DEF ForwardInput
<1>6. CASE ConnectRequest
  BY <1>6 DEF ConnectRequest, TakeInput, LinkInv, LinkType, StatusExact, ToPage,
              PageMessages, Statuses
<1>7. CASE ConnectOk
  BY <1>7 DEF ConnectOk, LinkInv, LinkType, StatusExact, ToPage, PageMessages,
              Statuses, Links, InUse, ConnStates
<1>8. CASE ConnectFail
  BY <1>8 DEF ConnectFail, LinkInv, LinkType, StatusExact, ToPage, PageMessages,
              Statuses
<1>9. CASE Answer
  BY <1>9 DEF Answer, LinkInv, LinkType, StatusExact, ToPage, PageMessages,
              NoAnswer, Links, InUse, ConnStates
<1>10. ASSUME NEW c \in Links, Task(c) PROVE LinkInv'
  <2>1. CASE PollWrite(c) \/ PollRead(c) \/ OnRecvMessage(c)
    BY <1>1, <2>1 DEF PollWrite, PollRead, OnRecvMessage
  <2>2. CASE LinkEnds(c)
    BY <2>2 DEF LinkEnds, LinkInv, LinkType, StatusExact, PageMessages, Links,
                InUse, ConnStates
  <2>3. CASE WriteStatus(c)
    BY <2>3 DEF WriteStatus, LinkInv, LinkType, StatusExact, PageMessages, Links,
                InUse, ConnStates, Statuses
  <2>4. CASE Notify(c)
    BY <2>4 DEF Notify, LinkInv, LinkType, StatusExact, PageMessages, Links,
                InUse, ConnStates
  <2> QED BY <1>10, <2>1, <2>2, <2>3, <2>4 DEF Task
<1>11. CASE UNCHANGED vars
  BY <1>1, <1>11 DEF vars
<1> QED BY <1>2, <1>3, <1>4, <1>5, <1>6, <1>7, <1>8, <1>9, <1>10, <1>11
        DEF Next, RunLoop

\* ControlService.status is Connected exactly while the newest connection is in
\* use: no interleaving lets the task of an old connection overwrite it.
THEOREM StatusCorrect == Spec => []StatusExact
<1>1. LinkInv => StatusExact
  BY DEF LinkInv
<1> QED BY LinkInit, LinkStep, <1>1, PTL DEF Spec

-----------------------------------------------------------------------------
\* The page has heard nothing of a connection before its announcement is sent,
\* and the end only of connections whose task has ended.
EmitInv == /\ emitted \in Seq(PageMessages)
           /\ \A i \in 1..Len(emitted) :
                 /\ emitted[i].c > 0 => conn[emitted[i].c] \notin {"none", "opened"}
                 /\ emitted[i].kind = "lost" =>
                       emitted[i].c \in Links /\ conn[emitted[i].c] = "gone"
           /\ Bracketed

\* conn changes only forwards, as far as EmitInv can tell.
ConnForward ==
  \A c \in Links : /\ conn[c] \notin {"none", "opened"} => conn'[c] \notin {"none", "opened"}
                   /\ conn[c] = "gone" => conn'[c] = "gone"

\* Connections that only move forward, with nothing told to the page, keep EmitInv.
LEMMA EmitFrame ==
  ASSUME EmitInv, ConnForward, UNCHANGED emitted
  PROVE  EmitInv'
<1>1. \A i \in 1..Len(emitted) : emitted[i] \in PageMessages
  BY DEF EmitInv
<1>2. \A i \in 1..Len(emitted) : emitted[i].c > 0 => emitted[i].c \in Links
  BY <1>1, ControllerAssumption DEF PageMessages, Links
<1> QED BY <1>2 DEF EmitInv, ConnForward, Bracketed

\* A message may be sent to the page when its connection has started and has
\* not ended, or when it announces the connection.
LEMMA EmitAppend ==
  ASSUME EmitInv, ConnForward, NEW m \in PageMessages, emitted' = Append(emitted, m),
         m.c > 0 => conn'[m.c] \notin {"none", "opened"} /\ conn[m.c] # "gone",
         m.c > 0 /\ m.kind = "ok" => conn[m.c] \in {"none", "opened"},
         m.kind = "lost" => m.c \in Links /\ conn'[m.c] = "gone"
  PROVE  EmitInv'
<1> DEFINE n == Len(emitted)
<1>1. /\ emitted' \in Seq(PageMessages)
      /\ n \in Nat
      /\ Len(emitted') = n + 1
      /\ emitted'[n + 1] = m
      /\ \A i \in 1..n : emitted'[i] = emitted[i] /\ emitted[i] \in PageMessages
  BY DEF EmitInv
<1>2. \A i \in 1..n : emitted[i].c > 0 => emitted[i].c \in Links
  BY <1>1, ControllerAssumption DEF PageMessages, Links
<1>3. ASSUME NEW i \in 1..n + 1
      PROVE  /\ emitted'[i].c > 0 => conn'[emitted'[i].c] \notin {"none", "opened"}
             /\ emitted'[i].kind = "lost" =>
                   emitted'[i].c \in Links /\ conn'[emitted'[i].c] = "gone"
  BY <1>1, <1>2 DEF EmitInv, ConnForward
<1>4. ASSUME NEW i \in 1..n + 1, NEW j \in 1..n + 1,
             i < j, emitted'[i].c > 0, emitted'[i].c = emitted'[j].c
      PROVE  emitted'[i].kind # "lost" /\ emitted'[j].kind # "ok"
  <2>1. CASE j \in 1..n
    BY <1>1, <1>4, <2>1 DEF EmitInv, Bracketed
  <2>2. CASE j = n + 1
    BY <1>1, <1>4, <2>2 DEF EmitInv
  <2> QED BY <1>1, <2>1, <2>2
<1> QED BY <1>1, <1>3, <1>4 DEF EmitInv, Bracketed

\* At start the page has been told nothing.
LEMMA EmitInit == Init => EmitInv
BY DEF Init, EmitInv, Bracketed

\* What a step tells the page fits where the connection task then is.
LEMMA EmitStep == LinkInv /\ EmitInv /\ [Next]_vars => EmitInv'
<1> SUFFICES ASSUME LinkInv, EmitInv, [Next]_vars PROVE EmitInv'
  OBVIOUS
<1> USE ControllerAssumption
<1>1. ASSUME UNCHANGED <<conn, emitted>> PROVE EmitInv'
  BY <1>1 DEF EmitInv, Bracketed
<1>2. CASE Page
  BY <1>1, <1>2 DEF Page, ReadStatus, Listen, Reload, ClickLogin, ClickControl,
                    OnEvent, ReleaseKey
<1>3. CASE \E m \in Calls : Js2rs(m)
  BY <1>1, <1>3 DEF Js2rs
<1>4. CASE Rs2js
  BY <1>1, <1>4 DEF Rs2js
<1>5. CASE ForwardInput \/ ConnectRequest \/ ConnectFail
  BY <1>1, <1>5 DEF ForwardInput, ConnectRequest, ConnectFail
<1>6. CASE ConnectOk
  <2>1. ConnForward /\ UNCHANGED emitted
    BY <1>6 DEF ConnectOk, ConnForward, LinkInv, LinkType, Links
  <2> QED BY <2>1, EmitFrame
<1>7. CASE Answer
  <2>1. answer \in PageMessages /\ emitted' = Append(emitted, answer)
    BY <1>7 DEF Answer, SendToJs, LinkInv, LinkType
  <2>2. answer.c > 0 => answer.c \in Links /\ conn[answer.c] = "opened"
    BY <2>1 DEF LinkInv, LinkType, PageMessages, Links
  <2>3. ConnForward
    BY <1>7, <2>2 DEF Answer, ConnForward, LinkInv, LinkType
  <2>4. answer.c > 0 => conn'[answer.c] = "up"
    BY <1>7, <2>2 DEF Answer, LinkInv, LinkType
  <2>5. answer.kind # "lost"
    BY DEF LinkInv
  <2> QED BY <2>1, <2>2, <2>3, <2>4, <2>5, EmitAppend
<1>8. ASSUME NEW c \in Links, Task(c) PROVE EmitInv'
  <2>0. c > 0 /\ c \in 0..MaxLinks /\ conn \in [Links -> ConnStates]
    BY <1>8 DEF Links, LinkInv, LinkType
  <2>1. CASE PollWrite(c) \/ PollRead(c)
    BY <1>1, <2>1 DEF PollWrite, PollRead
  <2>2. CASE OnRecvMessage(c)
    <3>1. /\ ToPage("relay", c) \in PageMessages
          /\ ToPage("relay", c).c = c /\ ToPage("relay", c).kind = "relay"
      BY <2>0 DEF ToPage, PageMessages
    <3>2. /\ emitted' = Append(emitted, ToPage("relay", c))
          /\ conn[c] = "up" /\ conn' = conn /\ ConnForward
      BY <2>2 DEF OnRecvMessage, SendToJs, ConnForward
    <3> QED BY <3>1, <3>2, EmitAppend
  <2>3. CASE LinkEnds(c) \/ WriteStatus(c)
    <3>1. ConnForward /\ UNCHANGED emitted
      BY <2>0, <2>3 DEF LinkEnds, WriteStatus, ConnForward
    <3> QED BY <3>1, EmitFrame
  <2>4. CASE Notify(c)
    <3>1. /\ ToPage("lost", c) \in PageMessages
          /\ ToPage("lost", c).c = c /\ ToPage("lost", c).kind = "lost"
      BY <2>0 DEF ToPage, PageMessages
    <3>2. /\ emitted' = Append(emitted, ToPage("lost", c))
          /\ conn[c] = "down" /\ conn'[c] = "gone" /\ ConnForward
      BY <2>0, <2>4 DEF Notify, SendToJs, ConnForward
    <3> QED BY <3>1, <3>2, EmitAppend
  <2> QED BY <1>8, <2>1, <2>2, <2>3, <2>4 DEF Task
<1>9. CASE UNCHANGED vars
  BY <1>1, <1>9 DEF vars
<1> QED BY <1>2, <1>3, <1>4, <1>5, <1>6, <1>7, <1>8, <1>9 DEF Next, RunLoop

\* The page hears of a connection first its ConnectResponse, last its
\* DisconnectNtf, although three senders compete for one place in the channel.
THEOREM BracketCorrect == Spec => []Bracketed
<1>1. EmitInv => Bracketed
  BY DEF EmitInv
<1> QED BY LinkInit, LinkStep, EmitInit, EmitStep, <1>1, PTL DEF Spec

-----------------------------------------------------------------------------
\* Media keys.  What was handed to a connection is what is on its wire, then what
\* waits in its channel.

Keys == {Down(n) : n \in 1..MaxPresses} \cup {Up(n) : n \in 1..MaxPresses}

Pipe == [c \in Links |-> wire[c] \o outbox[c]]

\* KeysInOrder, of any sequences in place of the wires.
Ordered(p) ==
  \A c, d \in Links : \A i \in 1..Len(p[c]), j \in 1..Len(p[d]) :
     /\ p[c][i] = p[d][j] => c = d /\ i = j
     /\ p[c][i].kind = "up" /\ p[d][j] = Down(p[c][i].n) => d < c \/ (d = c /\ j < i)

Early(m) == m \in calls \/ input = <<m>>     \* on its way to the run loop
Late(p, m) == \E c \in Links : \E i \in 1..Len(p[c]) : p[c][i] = m

Budget == [logins : Nat, presses : Nat, reloads : Nat]

KeyType == /\ calls \subseteq Calls
           /\ input = <<>> \/ \E m \in Calls : input = <<m>>
           /\ wire \in [Links -> Seq(Keys)] /\ outbox \in [Links -> Seq(Keys)]
           /\ budget \in Budget

\* Each message is in one place, and an ACTION_UP is behind its ACTION_DOWN: the
\* page makes it only when the first invoke has returned, and each place is
\* first in, first out.
KeyInv ==
  /\ KeyType
  /\ \A c \in Links : c > link => wire[c] = <<>> /\ outbox[c] = <<>>
  /\ Ordered(Pipe)
  /\ \A m \in Keys : /\ Early(m) => ~Late(Pipe, m)
                     /\ input = <<m>> => m \notin calls
  /\ \A n \in 1..MaxPresses :
       /\ Down(n) \in calls => ~Early(Up(n))
       /\ Early(Down(n)) => ~Late(Pipe, Up(n))
       /\ n \in holding => n <= budget.presses /\ ~Early(Up(n)) /\ ~Late(Pipe, Up(n))
       /\ n > budget.presses => /\ ~Early(Down(n)) /\ ~Late(Pipe, Down(n))
                                /\ ~Early(Up(n)) /\ ~Late(Pipe, Up(n))

\* The two actions of a key differ from each other and from those of other keys.
LEMMA KeysApart ==
  /\ Keys \subseteq Calls
  /\ \A m \in Keys : \/ m.kind = "down" /\ m = Down(m.n) /\ m.n \in 1..MaxPresses
                     \/ m.kind = "up" /\ m = Up(m.n) /\ m.n \in 1..MaxPresses
  /\ \A m \in Calls : m.kind \in {"down", "up"} => m \in Keys
  /\ \A n \in 1..MaxPresses : Down(n) \in Keys /\ Up(n) \in Keys
  /\ \A k, n : /\ Down(k) # Up(n) /\ Connect(k) # Down(n) /\ Connect(k) # Up(n)
               /\ Down(k) = Down(n) => k = n
               /\ Up(k) = Up(n) => k = n
<1>1. \A k, n : /\ Down(k) # Up(n) /\ Connect(k) # Down(n) /\ Connect(k) # Up(n)
                /\ Down(k) = Down(n) => k = n
                /\ Up(k) = Up(n) => k = n
  BY DEF Connect, Down, Up
<1>2. /\ Keys \subseteq Calls
      /\ \A n \in 1..MaxPresses : Down(n) \in Keys /\ Up(n) \in Keys
  BY DEF Keys, Calls
<1>3. ASSUME NEW m \in Keys
      PROVE  \/ m.kind = "down" /\ m = Down(m.n) /\ m.n \in 1..MaxPresses
             \/ m.kind = "up" /\ m = Up(m.n) /\ m.n \in 1..MaxPresses
  <2>1. ASSUME NEW n \in 1..MaxPresses, m = Down(n)
        PROVE  m.kind = "down" /\ m = Down(m.n) /\ m.n \in 1..MaxPresses
    BY <2>1 DEF Down
  <2>2. ASSUME NEW n \in 1..MaxPresses, m = Up(n)
        PROVE  m.kind = "up" /\ m = Up(m.n) /\ m.n \in 1..MaxPresses
    BY <2>2 DEF Up
  <2> QED BY <2>1, <2>2 DEF Keys
<1>4. \A m \in Calls : m.kind \in {"down", "up"} => m \in Keys
  BY DEF Keys, Calls, Connect
<1> QED BY <1>1, <1>2, <1>3, <1>4

\* A sequence is the beginning of its concatenation with another.
LEMMA Beginning ==
  ASSUME NEW S, NEW w \in Seq(S), NEW o \in Seq(S)
  PROVE  Len(w) <= Len(w \o o) /\ \A i \in 1..Len(w) : w[i] = (w \o o)[i]
OBVIOUS

\* Taking from the front of a concatenation takes from its first part.
LEMMA HeadTailConcat ==
  ASSUME NEW S, NEW w \in Seq(S), NEW o \in Seq(S), w # <<>>
  PROVE  w \o o # <<>> /\ Head(w \o o) = Head(w) /\ Tail(w \o o) = Tail(w) \o o
OBVIOUS

\* Two ways to cut one sequence in two.
LEMMA Requeued ==
  ASSUME NEW S, NEW w \in Seq(S), NEW o \in Seq(S)
  PROVE  /\ \A m \in S : w \o Append(o, m) = Append(w \o o, m)
         /\ o # <<>> => Append(w, Head(o)) \o Tail(o) = w \o o
<1>1. ASSUME NEW m \in S PROVE w \o Append(o, m) = Append(w \o o, m)
  OBVIOUS
<1>2. ASSUME o # <<>> PROVE Append(w, Head(o)) \o Tail(o) = w \o o
  BY <1>2
<1> QED BY <1>1, <1>2

\* One login, press or reload more leaves the budget a budget and the other counts alone.
LEMMA Counted ==
  ASSUME NEW b \in Budget
  PROVE  /\ [b EXCEPT !.logins = @ + 1] \in Budget
         /\ [b EXCEPT !.logins = @ + 1].presses = b.presses
         /\ [b EXCEPT !.reloads = @ + 1] \in Budget
         /\ [b EXCEPT !.reloads = @ + 1].presses = b.presses
         /\ [b EXCEPT !.presses = @ + 1] \in Budget
         /\ [b EXCEPT !.presses = @ + 1].presses = b.presses + 1
         /\ b.logins \in Nat /\ b.presses \in Nat /\ b.reloads \in Nat
BY DEF Budget

\* Outbox behind wire is one queue of keys for each connection.
LEMMA PipeType ==
  ASSUME KeyType
  PROVE  /\ Pipe \in [Links -> Seq(Keys)]
         /\ \A c \in Links : Pipe[c] = wire[c] \o outbox[c]
BY DEF KeyType, Pipe

\* Connection c is handed m.
Handed(p, q, c, m) ==
  /\ p \in [Links -> Seq(Keys)] /\ c \in Links /\ m \in Keys
  /\ q[c] = Append(p[c], m)
  /\ \A d \in Links : d # c => q[d] = p[d]

\* What a connection is handed next is behind everything handed out so far.
LEMMA LateAppend ==
  ASSUME NEW p, NEW q, NEW c, NEW m, Handed(p, q, c, m)
  PROVE  \A x : Late(q, x) <=> (Late(p, x) \/ x = m)
<1> USE DEF Handed
<1> DEFINE n == Len(p[c])
<1>1. /\ n \in Nat /\ Len(q[c]) = n + 1 /\ q[c][n + 1] = m
      /\ \A i \in 1..n : q[c][i] = p[c][i]
      /\ \A d \in Links : d # c => q[d] = p[d]
      /\ \A d \in Links : Len(p[d]) \in Nat /\ \A i \in 1..Len(p[d]) : p[d][i] \in Keys
  OBVIOUS
<1>2. \A i : i \in 1..n + 1 <=> (i \in 1..n \/ i = n + 1)
  BY <1>1
<1>3. \A x : Late(q, x) <=> (Late(p, x) \/ x = m)
  <2> TAKE x
  <2>1. ASSUME Late(q, x) PROVE Late(p, x) \/ x = m
    BY <1>1, <1>2, <2>1 DEF Late
  <2>2. ASSUME Late(p, x) PROVE Late(q, x)
    <3>0. PICK d \in Links : \E i \in 1..Len(p[d]) : p[d][i] = x
      BY <2>2 DEF Late
    <3>1. PICK i \in 1..Len(p[d]) : p[d][i] = x
      BY <3>0
    <3>2. i \in 1..Len(q[d]) /\ q[d][i] = x
      BY <1>1, <1>2, <3>1
    <3> QED BY <3>2 DEF Late
  <2>3. Late(q, m)
    <3>1. n + 1 \in 1..Len(q[c])
      BY <1>1
    <3> QED BY <1>1, <3>1 DEF Late
  <2> QED BY <2>1, <2>2, <2>3
<1> QED BY <1>3

\* A key handed to the newest connection, behind its ACTION_DOWN, keeps the order.
LEMMA OrderedAppend ==
  ASSUME NEW p, NEW q, NEW c, NEW m, Handed(p, q, c, m),
         Ordered(p), ~Late(p, m), \A d \in Links : d > c => p[d] = <<>>,
         m.kind = "down" => ~Late(p, Up(m.n))
  PROVE  Ordered(q)
<1> USE DEF Handed
<1> DEFINE n == Len(p[c])
<1>0. c \in Nat /\ \A d \in Links : d \in Nat
  BY ControllerAssumption DEF Links
<1>1. /\ n \in Nat /\ Len(q[c]) = n + 1 /\ q[c][n + 1] = m
      /\ \A i \in 1..n : q[c][i] = p[c][i]
      /\ \A d \in Links : d # c => q[d] = p[d]
      /\ \A d \in Links : Len(p[d]) \in Nat /\ \A i \in 1..Len(p[d]) : p[d][i] \in Keys
  OBVIOUS
<1>2. \A i : i \in 1..n + 1 <=> (i \in 1..n \/ i = n + 1)
  BY <1>1
<1> SUFFICES ASSUME NEW a \in Links, NEW b \in Links,
                    NEW i \in 1..Len(q[a]), NEW j \in 1..Len(q[b])
             PROVE  /\ q[a][i] = q[b][j] => a = b /\ i = j
                    /\ q[a][i].kind = "up" /\ q[b][j] = Down(q[a][i].n)
                          => b < a \/ (b = a /\ j < i)
  BY DEF Ordered
<1>3. \A d \in Links : \A k \in 1..Len(q[d]) :
         \/ k \in 1..Len(p[d]) /\ q[d][k] = p[d][k] /\ q[d][k] # m
         \/ d = c /\ k = n + 1 /\ q[d][k] = m
  <2> TAKE d \in Links
  <2> TAKE k \in 1..Len(q[d])
  <2>1. CASE d # c
    <3>1. q[d] = p[d] /\ k \in 1..Len(p[d])
      BY <1>1, <2>1
    <3> QED BY <3>1 DEF Late
  <2>2. CASE d = c /\ k \in 1..n
    BY <1>1, <2>2 DEF Late
  <2>3. CASE d = c /\ k = n + 1
    BY <1>1, <2>3
  <2> QED BY <1>1, <1>2, <2>1, <2>2, <2>3
<1>4. \A d \in Links : \A k \in 1..Len(p[d]) : d < c \/ (d = c /\ k < n + 1)
  BY <1>0, <1>1
<1>5. CASE i \in 1..Len(p[a]) /\ q[a][i] = p[a][i] /\ j \in 1..Len(p[b]) /\ q[b][j] = p[b][j]
  BY <1>5 DEF Ordered
<1>6. CASE /\ i \in 1..Len(p[a]) /\ q[a][i] = p[a][i] /\ q[a][i] # m
           /\ b = c /\ j = n + 1 /\ q[b][j] = m
  <2>1. ASSUME q[a][i].kind = "up", m = Down(q[a][i].n) PROVE FALSE
    <3>1. p[a][i] \in Keys
      BY <1>1, <1>6
    <3>2. m.kind = "down" /\ m.n = p[a][i].n /\ p[a][i] = Up(m.n)
      BY <1>6, <2>1, <3>1, KeysApart DEF Down
    <3> QED BY <1>6, <3>2 DEF Late
  <2> QED BY <1>6, <2>1
<1>7. CASE /\ a = c /\ i = n + 1 /\ q[a][i] = m
           /\ j \in 1..Len(p[b]) /\ q[b][j] = p[b][j] /\ q[b][j] # m
  BY <1>4, <1>7
<1>8. CASE a = c /\ i = n + 1 /\ q[a][i] = m /\ b = c /\ j = n + 1 /\ q[b][j] = m
  <2>1. m.kind = "up" => m # Down(m.n)
    BY KeysApart
  <2> QED BY <1>8, <2>1
<1> QED BY <1>3, <1>5, <1>6, <1>7, <1>8

\* Taking messages off the end keeps the order.
LEMMA PipeCut ==
  ASSUME NEW p \in [Links -> Seq(Keys)], NEW q \in [Links -> Seq(Keys)],
         \A c \in Links : /\ Len(q[c]) <= Len(p[c])
                          /\ \A i \in 1..Len(q[c]) : q[c][i] = p[c][i]
  PROVE  /\ \A x : Late(q, x) => Late(p, x)
         /\ Ordered(p) => Ordered(q)
<1>1. \A c \in Links : \A i \in 1..Len(q[c]) : i \in 1..Len(p[c]) /\ q[c][i] = p[c][i]
  OBVIOUS
<1>2. \A x : Late(q, x) => Late(p, x)
  BY <1>1 DEF Late
<1>3. Ordered(p) => Ordered(q)
  BY <1>1 DEF Ordered
<1> QED BY <1>2, <1>3

\* At start no key is anywhere.
LEMMA KeyInit == Init => KeyInv
<1> SUFFICES ASSUME Init PROVE KeyInv
  OBVIOUS
<1>1. KeyType
  BY ControllerAssumption DEF Init, KeyType, Budget
<1>2. \A c \in Links : wire[c] = <<>> /\ outbox[c] = <<>> /\ Len(Pipe[c]) = 0
  BY DEF Init, Pipe
<1>3. Ordered(Pipe) /\ \A m : ~Late(Pipe, m)
  BY <1>2 DEF Ordered, Late
<1>4. \A m : ~Early(m)
  BY DEF Init, Early
<1> QED BY <1>1, <1>2, <1>3, <1>4, KeysApart DEF KeyInv, Init

\* What a step must do to the places of a message to keep KeyInv, for the steps
\* that make no key and hand none to a connection: messages may vanish, or move
\* from the commands to the input channel.
KeyQuiet ==
  /\ \A m \in Keys : Early(m)' => Early(m)
  /\ \A m \in Keys : Late(Pipe, m)' => Late(Pipe, m)
  /\ Ordered(Pipe)'
  /\ \A m \in Keys : m \in calls' => m \in calls
  /\ \A m \in Keys : input' = <<m>> => m \notin calls'
  /\ holding' \subseteq holding
  /\ budget'.presses = budget.presses
  /\ \A c \in Links : c > link' => wire'[c] = <<>> /\ outbox'[c] = <<>>

\* A step that moves no key keeps KeyInv.
LEMMA KeyFrame == ASSUME KeyInv, KeyType', KeyQuiet PROVE KeyInv'
<1>1. \A n \in 1..MaxPresses : Down(n) \in Keys /\ Up(n) \in Keys
  BY KeysApart
<1>2. \A m \in Keys : /\ Early(m)' => ~Late(Pipe, m)'
                      /\ input' = <<m>> => m \notin calls'
  BY DEF KeyInv, KeyQuiet
<1>3. ASSUME NEW n \in 1..MaxPresses
      PROVE  /\ Down(n) \in calls' => ~Early(Up(n))'
             /\ Early(Down(n))' => ~Late(Pipe, Up(n))'
             /\ n \in holding' => n <= budget'.presses /\ ~Early(Up(n))' /\ ~Late(Pipe, Up(n))'
             /\ n > budget'.presses => /\ ~Early(Down(n))' /\ ~Late(Pipe, Down(n))'
                                       /\ ~Early(Up(n))' /\ ~Late(Pipe, Up(n))'
  BY <1>1, <1>3 DEF KeyInv, KeyQuiet
<1>4. /\ Ordered(Pipe)'
      /\ \A c \in Links : c > link' => wire'[c] = <<>> /\ outbox'[c] = <<>>
  BY DEF KeyQuiet
<1> QED BY <1>2, <1>3, <1>4 DEF KeyInv

\* The steps that touch neither the connections' channels nor their sockets.
LEMMA KeyFrameEarly ==
  ASSUME KeyInv, KeyType', UNCHANGED <<wire, outbox, link>>, holding' \subseteq holding,
         budget'.presses = budget.presses,
         \A m \in Keys : /\ Early(m)' => Early(m)
                         /\ m \in calls' => m \in calls
                         /\ input' = <<m>> => m \notin calls'
  PROVE  KeyInv'
<1>1. Pipe' = Pipe
  BY DEF Pipe
<1>2. KeyQuiet
  BY <1>1 DEF KeyQuiet, KeyInv, Late, Ordered
<1> QED BY <1>2, KeyFrame

\* Each step that makes, hands on or loses a key keeps KeyInv.
LEMMA KeyStep == LinkInv /\ KeyInv /\ [Next]_vars => KeyInv'
<1> SUFFICES ASSUME LinkInv, KeyInv, [Next]_vars PROVE KeyInv'
  OBVIOUS
<1> USE ControllerAssumption
<1>0. KeyType /\ Pipe \in [Links -> Seq(Keys)] /\ link \in 0..MaxLinks
  BY PipeType DEF KeyInv, LinkInv, LinkType
<1>1. ASSUME UNCHANGED <<wire, outbox, link, calls, input>>, holding' \subseteq holding,
             budget' \in Budget,
             budget'.presses = budget.presses
      PROVE  KeyInv'
  <2>1. KeyType'
    BY <1>0, <1>1 DEF KeyType
  <2>2. \A m \in Keys : Early(m)' <=> Early(m)
    BY <1>1 DEF Early
  <2> QED BY <1>1, <2>1, <2>2, KeyFrameEarly DEF KeyInv
<1>2. CASE UNCHANGED <<wire, outbox, link, calls, input, holding, budget>>
  BY <1>0, <1>1, <1>2 DEF KeyType
<1>3. CASE ReadStatus \/ Listen \/ OnEvent
  BY <1>2, <1>3 DEF ReadStatus, Listen, OnEvent
<1>4. CASE Reload
  <2>1. budget' \in Budget /\ budget'.presses = budget.presses
    BY <1>0, <1>4, Counted DEF Reload, KeyType
  <2> QED BY <1>1, <1>4, <2>1 DEF Reload
<1>5. CASE ClickLogin
  <2>1. /\ calls' = calls \cup {Connect(budget.logins + 1)} /\ budget.logins + 1 \in 1..MaxLogins
        /\ budget' \in Budget /\ budget'.presses = budget.presses
        /\ UNCHANGED <<input, holding, wire, outbox, link>>
    <3>1. /\ budget \in Budget /\ budget' = [budget EXCEPT !.logins = @ + 1]
          /\ calls' = calls \cup {Connect(budget'.logins)} /\ budget.logins < MaxLogins
          /\ UNCHANGED <<input, holding, wire, outbox, link>>
      BY <1>0, <1>5 DEF ClickLogin, KeyType
    <3>2. budget'.logins = budget.logins + 1
      BY <3>1 DEF Budget
    <3>3. budget' \in Budget /\ budget'.presses = budget.presses /\ budget.logins \in Nat
      BY <3>1, Counted DEF Budget
    <3> QED BY <3>1, <3>2, <3>3
  <2>2. Connect(budget.logins + 1) \in Calls /\ Connect(budget.logins + 1) \notin Keys
    BY <2>1, KeysApart DEF Calls, Keys
  <2>3. KeyType'
    BY <1>0, <2>1, <2>2 DEF KeyType
  <2>4. \A m \in Keys : (Early(m)' <=> Early(m)) /\ (m \in calls' => m \in calls)
    BY <2>1, <2>2 DEF Early
  <2> QED BY <2>1, <2>3, <2>4, KeyFrameEarly DEF KeyInv
<1>6. CASE ClickControl
  <2> DEFINE n == budget.presses + 1
  <2>1. /\ calls' = calls \cup {Down(n)} /\ n \in 1..MaxPresses
        /\ budget' \in Budget /\ holding' = holding \cup {n}
        /\ budget'.presses = n /\ budget.presses \in Nat
        /\ UNCHANGED <<input, wire, outbox, link>>
    <3>1. /\ budget \in Budget /\ budget' = [budget EXCEPT !.presses = @ + 1]
          /\ calls' = calls \cup {Down(budget'.presses)} /\ budget.presses < MaxPresses
          /\ holding' = holding \cup {budget'.presses}
          /\ UNCHANGED <<input, wire, outbox, link>>
      BY <1>0, <1>6 DEF ClickControl, KeyType
    <3>2. /\ budget' \in Budget /\ budget'.presses = budget.presses + 1
          /\ budget.presses \in Nat
      BY <3>1 DEF Budget
    <3> QED BY <3>1, <3>2
  <2> HIDE DEF n
  <2>2. /\ Down(n) \in Keys /\ Keys \subseteq Calls
        /\ \A k \in 1..MaxPresses : Up(k) # Down(n) /\ (k # n => Down(k) # Down(n))
    BY <2>1, KeysApart
  <2>3. KeyType'
    BY <1>0, <2>1, <2>2 DEF KeyType
  <2>4. Pipe' = Pipe /\ \A m : Early(m)' <=> (Early(m) \/ m = Down(n))
    BY <2>1 DEF Pipe, Early
  <2>5. n > budget.presses
    BY <2>1 DEF n
  <2>6. /\ ~Early(Down(n)) /\ ~Late(Pipe, Down(n)) /\ ~Early(Up(n)) /\ ~Late(Pipe, Up(n))
    BY <2>1, <2>5 DEF KeyInv
  <2>7. \A m \in Keys : /\ Early(m)' => ~Late(Pipe, m)'
                        /\ input' = <<m>> => m \notin calls'
    BY <2>1, <2>4, <2>6 DEF KeyInv, Late, Early
  <2>8. ASSUME NEW k \in 1..MaxPresses
        PROVE  /\ Down(k) \in calls' => ~Early(Up(k))'
               /\ Early(Down(k))' => ~Late(Pipe, Up(k))'
               /\ k \in holding' => k <= budget'.presses /\ ~Early(Up(k))' /\ ~Late(Pipe, Up(k))'
    <3>1. (Early(Up(k))' <=> Early(Up(k))) /\ (Late(Pipe, Up(k))' <=> Late(Pipe, Up(k)))
      BY <2>2, <2>4, <2>8 DEF Late
    <3>2. CASE k = n
      BY <2>1, <2>6, <3>1, <3>2
    <3>3. CASE k # n
      <4>1. /\ Early(Down(k))' <=> Early(Down(k))
            /\ (Down(k) \in calls' => Down(k) \in calls)
            /\ k \in holding' => k \in holding
        BY <2>1, <2>2, <2>4, <2>8, <3>3
      <4>2. k \in holding => k <= budget.presses
        BY <2>8 DEF KeyInv
      <4>3. k <= budget.presses => k <= budget'.presses
        BY <2>1, <2>5, <2>8
      <4> QED BY <2>8, <3>1, <4>1, <4>2, <4>3 DEF KeyInv
    <3> QED BY <3>2, <3>3
  <2>9. ASSUME NEW k \in 1..MaxPresses, k > budget'.presses
        PROVE  /\ ~Early(Down(k))' /\ ~Late(Pipe, Down(k))'
               /\ ~Early(Up(k))' /\ ~Late(Pipe, Up(k))'
    <3>1. k > budget.presses /\ k # n
      BY <2>1, <2>5, <2>9
    <3> QED BY <2>2, <2>4, <2>9, <3>1 DEF KeyInv, Late
  <2>10. Ordered(Pipe)' /\ \A c \in Links : c > link' => wire'[c] = <<>> /\ outbox'[c] = <<>>
    BY <2>1, <2>4 DEF KeyInv, Ordered
  <2> QED BY <2>3, <2>7, <2>8, <2>9, <2>10 DEF KeyInv
<1>7. ASSUME NEW n \in 1..MaxPresses, ReleaseKey(n) PROVE KeyInv'
  <2>1. /\ n \in holding /\ Down(n) \notin calls /\ holding' = holding \ {n}
        /\ calls' = calls \cup {Up(n)} /\ UNCHANGED <<budget, input, wire, outbox, link>>
    BY <1>7 DEF ReleaseKey
  <2>2. /\ Up(n) \in Keys /\ Keys \subseteq Calls
        /\ \A k \in 1..MaxPresses : Down(k) # Up(n) /\ (k # n => Up(k) # Up(n))
    BY KeysApart
  <2>3. KeyType'
    BY <1>0, <2>1, <2>2 DEF KeyType
  <2>4. Pipe' = Pipe /\ \A m : Early(m)' <=> (Early(m) \/ m = Up(n))
    BY <2>1 DEF Pipe, Early
  <2>5. n <= budget.presses /\ ~Early(Up(n)) /\ ~Late(Pipe, Up(n))
    BY <2>1 DEF KeyInv
  <2>6. \A m \in Keys : /\ Early(m)' => ~Late(Pipe, m)'
                        /\ input' = <<m>> => m \notin calls'
    BY <2>1, <2>4, <2>5 DEF KeyInv, Late, Early
  <2>7. ASSUME NEW k \in 1..MaxPresses
        PROVE  /\ Down(k) \in calls' => ~Early(Up(k))'
               /\ Early(Down(k))' => ~Late(Pipe, Up(k))'
               /\ k \in holding' => k <= budget'.presses /\ ~Early(Up(k))' /\ ~Late(Pipe, Up(k))'
    <3>1. /\ Early(Down(k))' <=> Early(Down(k))
          /\ Late(Pipe, Up(k))' <=> Late(Pipe, Up(k))
          /\ Down(k) \in calls' <=> Down(k) \in calls
      BY <2>1, <2>2, <2>4, <2>7 DEF Late
    <3>2. CASE k = n
      BY <2>1, <2>5, <3>1, <3>2
    <3>3. CASE k # n
      BY <2>1, <2>2, <2>4, <2>7, <3>1, <3>3 DEF KeyInv
    <3> QED BY <3>2, <3>3
  <2>8. ASSUME NEW k \in 1..MaxPresses, k > budget'.presses
        PROVE  /\ ~Early(Down(k))' /\ ~Late(Pipe, Down(k))'
               /\ ~Early(Up(k))' /\ ~Late(Pipe, Up(k))'
    <3>1. k # n /\ k > budget.presses
      BY <1>0, <2>1, <2>5, <2>8 DEF KeyType, Budget
    <3> QED BY <2>2, <2>4, <2>8, <3>1 DEF KeyInv, Late
  <2>9. Ordered(Pipe)' /\ \A c \in Links : c > link' => wire'[c] = <<>> /\ outbox'[c] = <<>>
    BY <2>1, <2>4 DEF KeyInv, Ordered
  <2> QED BY <2>3, <2>6, <2>7, <2>8, <2>9 DEF KeyInv
<1>8. ASSUME NEW m \in Calls, Js2rs(m) PROVE KeyInv'
  <2>1. /\ m \in calls /\ input = <<>> /\ input' = <<m>> /\ calls' = calls \ {m}
        /\ UNCHANGED <<wire, outbox, link, holding, budget>>
    BY <1>8 DEF Js2rs
  <2>2. KeyType'
    BY <1>0, <2>1 DEF KeyType
  <2>3. \A x \in Keys : /\ Early(x)' => Early(x)
                        /\ x \in calls' => x \in calls
                        /\ input' = <<x>> => x \notin calls'
    BY <2>1 DEF Early
  <2> QED BY <2>1, <2>2, <2>3, KeyFrameEarly
<1>9. CASE Rs2js
  BY <1>2, <1>9 DEF Rs2js
<1>10. ASSUME NEW kinds, TakeInput(kinds)
       PROVE  \E m \in Calls : /\ input = <<m>> /\ m.kind \in kinds /\ Head(input) = m
                               /\ input' = <<>>
  <2>1. input # <<>> /\ Head(input).kind \in kinds /\ input' = Tail(input)
    BY <1>10 DEF TakeInput
  <2>2. PICK m \in Calls : input = <<m>>
    BY <1>0, <2>1 DEF KeyType
  <2>3. Head(<<m>>) = m /\ Tail(<<m>>) = <<>>
    OBVIOUS
  <2> QED BY <2>1, <2>2, <2>3
<1>11. ASSUME TakeInput({"connect", "down", "up"}), UNCHANGED <<wire, outbox, link, calls, holding, budget>>
       PROVE  KeyInv'
  <2>1. PICK m \in Calls : input = <<m>> /\ input' = <<>>
    BY <1>10, <1>11
  <2>2. KeyType'
    BY <1>0, <1>11, <2>1 DEF KeyType
  <2>3. \A x \in Keys : /\ Early(x)' => Early(x)
                        /\ x \in calls' => x \in calls
                        /\ input' # <<x>>
    BY <1>11, <2>1 DEF Early
  <2> QED BY <1>11, <2>2, <2>3, KeyFrameEarly
<1>12. CASE ForwardInput
  <2>1. CASE Listening(link)
    <3>1. PICK m \in Calls : input = <<m>> /\ m.kind \in {"down", "up"} /\ Head(input) = m /\ input' = <<>>
      BY <1>10, <1>12 DEF ForwardInput
    <3>2. m \in Keys /\ link \in Links
      BY <1>0, <2>1, <3>1, KeysApart DEF Listening, Links
    <3>3. /\ outbox' = [outbox EXCEPT ![link] = Append(@, m)]
          /\ UNCHANGED <<wire, link, calls, holding, budget>>
      BY <1>12, <2>1, <3>1 DEF ForwardInput
    <3>4. /\ Append(outbox[link], m) \in Seq(Keys) /\ outbox' \in [Links -> Seq(Keys)]
          /\ outbox'[link] = Append(outbox[link], m)
          /\ \A c \in Links : c # link => outbox'[c] = outbox[c]
      BY <1>0, <3>2, <3>3 DEF KeyType
    <3>5. KeyType'
      BY <1>0, <3>1, <3>3, <3>4 DEF KeyType
    <3>6. Pipe' = [Pipe EXCEPT ![link] = Append(Pipe[link], m)]
      <4>1. wire[link] \o Append(outbox[link], m) = Append(wire[link] \o outbox[link], m)
        BY <1>0, <3>2, Requeued DEF KeyType
      <4> QED BY <3>2, <3>3, <3>4, <4>1 DEF Pipe
    <3>7. \A x : Late(Pipe, x)' <=> (Late(Pipe, x) \/ x = m)
      <4>1. Handed(Pipe, Pipe', link, m)
        BY <1>0, <3>2, <3>6 DEF Handed
      <4>2. \A x : Late(Pipe', x) <=> (Late(Pipe, x) \/ x = m)
        BY <4>1, LateAppend
      <4> QED BY <4>2 DEF Late
    <3>8. /\ m \notin calls /\ \A x : Early(x)' <=> (Early(x) /\ x # m)
          /\ Early(m)
      BY <3>1, <3>2, <3>3 DEF Early, KeyInv
    <3>9. Ordered(Pipe)'
      <4>1. m.kind = "down" => m = Down(m.n) /\ m.n \in 1..MaxPresses
        BY <3>2, KeysApart
      <4>2. m.kind = "down" => ~Late(Pipe, Up(m.n))
        BY <3>8, <4>1 DEF KeyInv
      <4>3. ~Late(Pipe, m) /\ Ordered(Pipe)
        BY <3>2, <3>8 DEF KeyInv
      <4>4. \A d \in Links : d > link => Pipe[d] = <<>>
        BY ConcatEmptySeq DEF KeyInv, Pipe
      <4>5. Handed(Pipe, Pipe', link, m)
        BY <1>0, <3>2, <3>6 DEF Handed
      <4>6. Ordered(Pipe')
        BY <4>2, <4>3, <4>4, <4>5, OrderedAppend
      <4> QED BY <4>6 DEF Ordered
    <3>10. \A x \in Keys : /\ Early(x)' => ~Late(Pipe, x)'
                           /\ input' # <<x>>
      BY <3>1, <3>7, <3>8 DEF KeyInv
    <3>11. ASSUME NEW k \in 1..MaxPresses
           PROVE  /\ Down(k) \in calls' => ~Early(Up(k))'
                  /\ Early(Down(k))' => ~Late(Pipe, Up(k))'
                  /\ k \in holding' => k <= budget'.presses /\ ~Early(Up(k))' /\ ~Late(Pipe, Up(k))'
                  /\ k > budget'.presses => /\ ~Early(Down(k))' /\ ~Late(Pipe, Down(k))'
                                            /\ ~Early(Up(k))' /\ ~Late(Pipe, Up(k))'
      <4>1. m = Up(k) => Down(k) \notin calls
        BY <3>8, <3>11 DEF KeyInv
      <4>2. Down(k) # m /\ Early(Down(k)) => Down(k) \in calls
        BY <3>1 DEF Early
      <4> QED BY <3>3, <3>7, <3>8, <3>11, <4>1, <4>2 DEF KeyInv
    <3>12. \A c \in Links : c > link' => wire'[c] = <<>> /\ outbox'[c] = <<>>
      BY <1>0, <3>3, <3>4 DEF KeyInv
    <3> QED BY <3>5, <3>9, <3>10, <3>11, <3>12 DEF KeyInv
  <2>2. CASE ~Listening(link)
    <3>1. TakeInput({"connect", "down", "up"}) /\ UNCHANGED <<wire, outbox, link, calls, holding, budget>>
      BY <1>12, <2>2 DEF ForwardInput, TakeInput
    <3> QED BY <1>11, <3>1
  <2> QED BY <2>1, <2>2
<1>13. CASE ConnectRequest
  <2>1. TakeInput({"connect", "down", "up"}) /\ UNCHANGED <<wire, outbox, link, calls, holding, budget>>
    BY <1>13 DEF ConnectRequest, TakeInput
  <2> QED BY <1>11, <2>1
<1>14. CASE ConnectFail \/ Answer
  BY <1>2, <1>14 DEF ConnectFail, Answer
<1>15. CASE ConnectOk
  <2>1. link' = link + 1 /\ UNCHANGED <<wire, outbox, calls, input, holding, budget>>
    BY <1>15 DEF ConnectOk
  <2>2. KeyType' /\ Pipe' = Pipe /\ \A m : Early(m)' <=> Early(m)
    BY <1>0, <2>1 DEF KeyType, Pipe, Early
  <2>3. \A c \in Links : c > link' => wire'[c] = <<>> /\ outbox'[c] = <<>>
    BY <1>0, <2>1 DEF KeyInv, Links
  <2>4. KeyQuiet
    BY <2>1, <2>2, <2>3 DEF KeyQuiet, KeyInv, Late, Ordered
  <2> QED BY <2>2, <2>4, KeyFrame
<1>16. ASSUME NEW c \in Links, PollWrite(c) PROVE KeyInv'
  <2>1. /\ outbox[c] # <<>> /\ wire' = [wire EXCEPT ![c] = Append(@, Head(outbox[c]))]
        /\ outbox' = [outbox EXCEPT ![c] = Tail(@)] /\ conn[c] = "up"
        /\ UNCHANGED <<link, calls, input, holding, budget>>
    BY <1>16 DEF PollWrite
  <2>2. /\ wire[c] \in Seq(Keys) /\ outbox[c] \in Seq(Keys)
        /\ Head(outbox[c]) \in Keys /\ Tail(outbox[c]) \in Seq(Keys)
        /\ Append(wire[c], Head(outbox[c])) \in Seq(Keys)
    BY <1>0, <2>1, HeadTailProperties DEF KeyType
  <2>3. KeyType'
    BY <1>0, <2>1, <2>2 DEF KeyType
  <2>4. Append(wire[c], Head(outbox[c])) \o Tail(outbox[c]) = wire[c] \o outbox[c]
    BY <2>1, <2>2, Requeued
  <2>5. Pipe' = Pipe
    BY <1>0, <2>1, <2>4 DEF Pipe, KeyType
  <2>6. c <= link
    BY <2>1 DEF LinkInv
  <2>7. \A d \in Links : d > link' => wire'[d] = <<>> /\ outbox'[d] = <<>>
    BY <1>0, <2>1, <2>6 DEF KeyInv, KeyType, Links
  <2>8. \A m : Early(m)' <=> Early(m)
    BY <2>1 DEF Early
  <2>9. KeyQuiet
    BY <2>1, <2>5, <2>7, <2>8 DEF KeyQuiet, KeyInv, Late, Ordered
  <2> QED BY <2>3, <2>9, KeyFrame
<1>17. ASSUME NEW c \in Links, PollRead(c) \/ OnRecvMessage(c) \/ WriteStatus(c) \/ Notify(c)
       PROVE  KeyInv'
  BY <1>2, <1>17 DEF PollRead, OnRecvMessage, WriteStatus, Notify
<1>18. ASSUME NEW c \in Links, LinkEnds(c) PROVE KeyInv'
  <2>1. /\ outbox' = [outbox EXCEPT ![c] = <<>>]
        /\ UNCHANGED <<wire, link, calls, input, holding, budget>>
    BY <1>18 DEF LinkEnds
  <2>2. KeyType'
    BY <1>0, <2>1 DEF KeyType
  <2>3. Pipe' \in [Links -> Seq(Keys)]
    BY <2>2 DEF KeyType, Pipe
  <2>4. \A d \in Links : /\ Len(Pipe'[d]) <= Len(Pipe[d])
                         /\ \A i \in 1..Len(Pipe'[d]) : Pipe'[d][i] = Pipe[d][i]
    <3> TAKE d \in Links
    <3>1. wire[d] \in Seq(Keys) /\ outbox[d] \in Seq(Keys) /\ Pipe[d] = wire[d] \o outbox[d]
      BY <1>0 DEF KeyType, Pipe
    <3>2. CASE d # c
      <4>1. Pipe'[d] = Pipe[d]
        BY <1>0, <2>1, <3>2 DEF KeyType, Pipe
      <4> QED BY <3>1, <4>1
    <3>3. CASE d = c
      <4>1. Pipe'[d] = wire[d] \o <<>>
        BY <1>0, <2>1, <3>3 DEF KeyType, Pipe
      <4>2. Pipe'[d] = wire[d]
        BY <3>1, <4>1, ConcatEmptySeq
      <4>3. /\ Len(wire[d]) <= Len(wire[d] \o outbox[d])
            /\ \A i \in 1..Len(wire[d]) : wire[d][i] = (wire[d] \o outbox[d])[i]
        BY <3>1, Beginning
      <4> QED BY <3>1, <4>2, <4>3
    <3> QED BY <3>2, <3>3
  <2>5. /\ Ordered(Pipe')
        /\ \A x : Late(Pipe', x) => Late(Pipe, x)
    BY <1>0, <2>3, <2>4, PipeCut DEF KeyInv
  <2>6. \A m : Early(m)' <=> Early(m)
    BY <2>1 DEF Early
  <2>7. \A d \in Links : d > link' => wire'[d] = <<>> /\ outbox'[d] = <<>>
    BY <1>0, <2>1 DEF KeyInv, KeyType
  <2>8. Ordered(Pipe)' /\ \A x : Late(Pipe, x)' => Late(Pipe, x)
    BY <2>5 DEF Ordered, Late
  <2>9. KeyQuiet
    BY <2>1, <2>6, <2>7, <2>8 DEF KeyQuiet, KeyInv
  <2> QED BY <2>2, <2>9, KeyFrame
<1>19. CASE UNCHANGED vars
  BY <1>2, <1>19 DEF vars
<1> QED BY <1>3, <1>4, <1>5, <1>6, <1>7, <1>8, <1>9, <1>12, <1>13, <1>14, <1>15, <1>16, <1>17,
           <1>18, <1>19
        DEF Next, Page, RunLoop, Task

\* No media key reaches the server twice, or comes up before it went down, on one
\* connection or across a reconnect, whatever the user, the two channels and the
\* ends of connections do.
THEOREM KeysCorrect == Spec => []KeysInOrder
<1>1. KeyInv => KeysInOrder
  <2> SUFFICES ASSUME KeyInv PROVE Ordered(wire)
    BY DEF Ordered, KeysInOrder
  <2>1. wire \in [Links -> Seq(Keys)] /\ outbox \in [Links -> Seq(Keys)] /\ Ordered(Pipe)
        /\ Pipe \in [Links -> Seq(Keys)]
    BY PipeType DEF KeyInv, KeyType
  <2>2. \A c \in Links : /\ Len(wire[c]) <= Len(Pipe[c])
                         /\ \A i \in 1..Len(wire[c]) : wire[c][i] = Pipe[c][i]
    BY <2>1 DEF Pipe
  <2> QED BY <2>1, <2>2, PipeCut
<1> QED BY LinkInit, LinkStep, KeyInit, KeyStep, <1>1, PTL DEF Spec

-----------------------------------------------------------------------------
\* What the page shows around a single login.  Feed is what it has yet to hear.

Feed == events \o output

FeedType == events \in Seq(PageMessages) /\ output \in Seq(PageMessages)

NoConnect == \A n \in 1..MaxLogins : ~Early(Connect(n))
OneConnect == /\ Early(Connect(1)) /\ ~(Connect(1) \in calls /\ input = <<Connect(1)>>)
              /\ \A n \in 1..MaxLogins : Early(Connect(n)) => n = 1

Fresh == link = 0 /\ loop = "recv" /\ Feed = <<>>
Before == budget.logins = 0 /\ NoConnect /\ Fresh /\ ui = "Disconnected"
Asked == budget.logins = 1 /\ OneConnect /\ Fresh /\ ui = "Connecting" /\ page = "ready"

\* What is decided and not yet said, said and not yet heard, or heard.
Trying == link = 0 /\ loop = "connecting" /\ Feed = <<>>
Failing == link = 0 /\ loop = "answering" /\ answer.kind = "fail" /\ Feed = <<>>
Opening == link = 1 /\ loop = "answering" /\ answer = ToPage("ok", 1) /\ Feed = <<>>
Online == /\ link = 1 /\ loop = "recv" /\ conn[1] \in {"up", "ended", "down"}
          /\ \A i \in 1..Len(Feed) : Feed[i].kind \in {"ok", "relay"}
          /\ ui = "Connected" \/ \E i \in 1..Len(Feed) : Feed[i].kind = "ok"
Offline == /\ loop = "recv" /\ (link = 0 \/ (link = 1 /\ conn[1] = "gone"))
           /\ Feed = <<>> => ui = "Disconnected"
           /\ Feed # <<>> => Feed[Len(Feed)].kind \in {"fail", "lost"}
After == /\ budget.logins = 1 /\ NoConnect /\ page = "ready"
         /\ Trying \/ Failing \/ Opening \/ Online \/ Offline

Single == budget.logins <= 1 /\ budget.reloads = 0

LoginInv == FeedType /\ (Single => Before \/ Asked \/ After)

\* At start the login has not been asked for.
LEMMA LoginInit == Init => LoginInv
<1> SUFFICES ASSUME Init PROVE LoginInv
  OBVIOUS
<1>1. FeedType /\ Feed = <<>>
  BY DEF Init, FeedType, Feed
<1>2. Before
  BY <1>1 DEF Init, Before, NoConnect, Fresh, Early
<1> QED BY <1>1, <1>2 DEF LoginInv

\* How the feed grows and shrinks.
LEMMA FeedSteps ==
  ASSUME FeedType
  PROVE  /\ Feed \in Seq(PageMessages)
         /\ Feed = <<>> => events = <<>> /\ output = <<>>
         /\ \A m \in PageMessages :
               SendToJs(m) => FeedType' /\ Feed' = Append(Feed, m)
         /\ Rs2js => FeedType' /\ (page = "ready" => Feed' = Feed)
         /\ OnEvent => FeedType' /\ Feed # <<>> /\ Head(Feed) = Head(events) /\ Feed' = Tail(Feed)
<1> USE DEF FeedType
<1>1. /\ Feed \in Seq(PageMessages)
      /\ Feed = <<>> => events = <<>> /\ output = <<>>
  BY ConcatEqualIffEmpty DEF Feed
<1>2. ASSUME NEW m \in PageMessages, SendToJs(m)
      PROVE  FeedType' /\ Feed' = Append(Feed, m)
  <2>1. output = <<>> /\ output' = <<m>> /\ events' = events /\ <<m>> \in Seq(PageMessages)
    BY <1>2 DEF SendToJs
  <2>2. Feed = events /\ Feed' = events \o <<m>>
    BY <2>1, ConcatEmptySeq DEF Feed
  <2>3. Append(events, m) = events \o <<m>>
    BY AppendIsConcat
  <2> QED BY <2>1, <2>2, <2>3
<1>3. ASSUME Rs2js PROVE FeedType' /\ (page = "ready" => Feed' = Feed)
  <2>1. /\ output # <<>> /\ output' = Tail(output)
        /\ events' = IF page = "ready" THEN Append(events, Head(output)) ELSE events
    BY <1>3 DEF Rs2js
  <2>2. Head(output) \in PageMessages /\ Tail(output) \in Seq(PageMessages)
    BY <2>1, HeadTailProperties
  <2>3. FeedType'
    BY <2>1, <2>2
  <2>4. Append(events, Head(output)) \o Tail(output) = events \o output
    BY <2>1, Requeued
  <2> QED BY <2>1, <2>3, <2>4 DEF Feed
<1>4. ASSUME OnEvent
      PROVE  FeedType' /\ Feed # <<>> /\ Head(Feed) = Head(events) /\ Feed' = Tail(Feed)
  <2>1. events # <<>> /\ events' = Tail(events) /\ output' = output
    BY <1>4 DEF OnEvent
  <2>2. FeedType'
    BY <2>1, HeadTailProperties
  <2>3. /\ events \o output # <<>>
        /\ Head(events \o output) = Head(events)
        /\ Tail(events \o output) = Tail(events) \o output
    BY <2>1, HeadTailConcat
  <2> QED BY <2>1, <2>2, <2>3 DEF Feed
<1> QED BY <1>1, <1>2, <1>3, <1>4

\* The last message stays the last when the first is taken off, unless it was
\* the only one.
LEMMA LastStays ==
  ASSUME NEW S, NEW q \in Seq(S), q # <<>>
  PROVE  /\ Tail(q) # <<>> => Tail(q)[Len(Tail(q))] = q[Len(q)]
         /\ Tail(q) = <<>> => Head(q) = q[Len(q)]
         /\ \A i \in 1..Len(Tail(q)) : i + 1 \in 1..Len(q) /\ Tail(q)[i] = q[i + 1]
         /\ \A i \in 1..Len(q) : i = 1 \/ i - 1 \in 1..Len(Tail(q))
         /\ Head(q) = q[1]
OBVIOUS

\* Steps that concern neither the logins nor what the page hears.
LoginQuiet ==
  /\ UNCHANGED <<page, ui, budget, loop, answer, link, events, output>>
  /\ \A n \in Nat : Early(Connect(n))' <=> Early(Connect(n))
  /\ ~(Connect(1) \in calls /\ input = <<Connect(1)>>) =>
        ~(Connect(1) \in calls' /\ input' = <<Connect(1)>>)
  /\ link = 1 /\ loop = "recv" =>
        \/ conn'[1] = conn[1]
        \/ conn[1] \in {"up", "ended", "down"} /\ conn'[1] \in {"up", "ended", "down"}

\* A step that changes nothing a login is seen by keeps LoginInv.
LEMMA LoginFrame == ASSUME LoginInv, LoginQuiet PROVE LoginInv'
<1>1. Feed' = Feed /\ FeedType'
  BY DEF LoginInv, LoginQuiet, Feed, FeedType
<1> SUFFICES ASSUME Single' PROVE (Before \/ Asked \/ After)'
  BY <1>1 DEF LoginInv
<1>2. Single
  BY DEF Single, LoginQuiet
<1>3. Fresh' <=> Fresh
  BY <1>1 DEF Fresh, LoginQuiet
<1>4. NoConnect' <=> NoConnect
  BY DEF NoConnect, LoginQuiet
<1>5. ASSUME Before PROVE Before'
  BY <1>3, <1>4, <1>5 DEF Before, LoginQuiet
<1>6. ASSUME Asked PROVE Asked'
  <2>1. OneConnect'
    BY <1>6 DEF Asked, OneConnect, LoginQuiet
  <2> QED BY <1>3, <1>6, <2>1 DEF Asked, LoginQuiet
<1>7. ASSUME After PROVE After'
  BY <1>1, <1>4, <1>7
     DEF After, LoginQuiet, Trying, Failing, Opening, Online, Offline
<1> QED BY <1>2, <1>5, <1>6, <1>7 DEF LoginInv

\* Each step leaves a single login in its phase or takes it to the next.
LEMMA LoginStep == LinkInv /\ KeyInv /\ LoginInv /\ [Next]_vars => LoginInv'
<1> SUFFICES ASSUME LinkInv, KeyInv, LoginInv, [Next]_vars PROVE LoginInv'
  OBVIOUS
<1> USE ControllerAssumption
<1>0. /\ FeedType /\ Feed \in Seq(PageMessages)
      /\ KeyType /\ budget \in Budget
      /\ link \in 0..MaxLinks /\ conn \in [Links -> ConnStates]
      /\ \A c \in Links : conn[c] # "none" => c <= link
  BY FeedSteps DEF LoginInv, LinkInv, LinkType, KeyInv, KeyType
<1>1. ASSUME UNCHANGED <<page, ui, budget, calls, input, loop, answer, link, conn, events, output>>
      PROVE  LoginInv'
  <2>1. LoginQuiet
    BY <1>1 DEF LoginQuiet, Early
  <2> QED BY <2>1, LoginFrame
<1>3. CASE ReadStatus \/ Listen
  <2>1. UNCHANGED <<budget, calls, input, loop, answer, link, conn, events, output>> /\ page # "ready"
    BY <1>3 DEF ReadStatus, Listen
  <2>2. Feed' = Feed /\ FeedType' /\ (Single' => Single)
    BY <1>0, <2>1 DEF Feed, FeedType, Single
  <2>3. Single => Before
    BY <2>1 DEF LoginInv, Asked, After
  <2>4. Before => status = "Disconnected"
    BY <1>0 DEF Before, Fresh, LinkInv, StatusExact, LinkType, Statuses
  <2>5. Before => ui' = "Disconnected"
    BY <1>3, <2>4 DEF ReadStatus, Listen, Before
  <2>6. Before => Before'
    BY <2>1, <2>2, <2>5 DEF Before, Fresh, NoConnect, Early
  <2> QED BY <2>2, <2>3, <2>6 DEF LoginInv
<1>4. CASE Reload
  <2>1. budget'.reloads = budget.reloads + 1 /\ budget.reloads \in Nat /\ events' = <<>> /\ output' = output
    BY <1>0, <1>4 DEF Reload, Budget
  <2> QED BY <1>0, <2>1 DEF LoginInv, Single, FeedType
<1>5. CASE ClickLogin
  <2>1. /\ budget'.logins = budget.logins + 1 /\ budget'.reloads = budget.reloads
        /\ budget.logins \in Nat /\ budget.logins < MaxLogins
        /\ calls' = calls \cup {Connect(budget.logins + 1)} /\ ui' = "Connecting" /\ page = "ready"
        /\ UNCHANGED <<page, input, loop, link, events, output>>
    <3>1. /\ budget' = [budget EXCEPT !.logins = @ + 1]
          /\ calls' = calls \cup {Connect(budget'.logins)}
      BY <1>5 DEF ClickLogin
    <3>2. /\ budget'.logins = budget.logins + 1 /\ budget'.reloads = budget.reloads
          /\ budget.logins \in Nat
      BY <1>0, <3>1 DEF Budget
    <3> QED BY <1>5, <3>1, <3>2 DEF ClickLogin
  <2>2. Feed' = Feed /\ FeedType'
    BY <1>0, <2>1 DEF Feed, FeedType
  <2>3. ASSUME Single' PROVE Asked'
    <3>1. budget.logins = 0 /\ Single /\ Before
      BY <2>1, <2>3 DEF Single, LoginInv, Asked, After
    <3>2. calls' = calls \cup {Connect(1)} /\ input' = input /\ 1 \in 1..MaxLogins
      BY <2>1, <3>1
    <3>3. \A n \in 1..MaxLogins : Connect(n) \notin calls /\ input # <<Connect(n)>>
      BY <3>1 DEF Before, NoConnect, Early
    <3>4. \A n \in 1..MaxLogins : Connect(n) = Connect(1) => n = 1
      BY DEF Connect
    <3>5. OneConnect'
      BY <3>2, <3>3, <3>4 DEF OneConnect, Early
    <3> QED BY <2>1, <2>2, <3>1, <3>5 DEF Asked, Before, Fresh
  <2> QED BY <2>2, <2>3 DEF LoginInv
<1>6. CASE ClickControl
  <2>1. /\ calls' = calls \cup {Down(budget'.presses)}
        /\ budget'.logins = budget.logins /\ budget'.reloads = budget.reloads
        /\ UNCHANGED <<page, ui, input, loop, answer, link, conn, events, output>>
    BY <1>0, <1>6 DEF ClickControl, Budget
  <2>2. \A n : Early(Connect(n))' <=> Early(Connect(n))
    BY <2>1, KeysApart DEF Early
  <2>3. Connect(1) \in calls' <=> Connect(1) \in calls
    BY <2>1, KeysApart
  <2>4. Feed' = Feed /\ FeedType'
    BY <1>0, <2>1 DEF Feed, FeedType
  <2>5. Before => Before'
    BY <2>1, <2>2, <2>4 DEF Before, NoConnect, Fresh
  <2>6. Asked => Asked'
    BY <2>1, <2>2, <2>3, <2>4 DEF Asked, OneConnect, Fresh
  <2>7. After => After'
    BY <2>1, <2>2, <2>4
       DEF After, NoConnect, Trying, Failing, Opening, Online, Offline
  <2> QED BY <2>1, <2>4, <2>5, <2>6, <2>7 DEF LoginInv, Single
<1>7. ASSUME NEW k \in 1..MaxPresses, ReleaseKey(k) PROVE LoginInv'
  <2>1. /\ calls' = calls \cup {Up(k)}
        /\ UNCHANGED <<page, ui, budget, input, loop, answer, link, conn, events, output>>
    BY <1>7 DEF ReleaseKey
  <2>2. LoginQuiet
    BY <2>1, KeysApart DEF LoginQuiet, Early
  <2> QED BY <2>2, LoginFrame
<1>8. CASE OnEvent
  <2>1. /\ FeedType' /\ Feed # <<>> /\ Head(Feed) = Head(events) /\ Feed' = Tail(Feed)
        /\ ui' = Shown(Head(events))
        /\ UNCHANGED <<page, budget, calls, input, loop, answer, link, conn>>
    BY <1>0, <1>8, FeedSteps DEF OnEvent
  <2>2. Single' => Single /\ After /\ (Online \/ Offline)
    BY <2>1 DEF Single, LoginInv, Before, Asked, Fresh, After, Trying, Failing, Opening
  <2>3. NoConnect' <=> NoConnect
    BY <2>1 DEF NoConnect, Early
  <2>4. ASSUME Online PROVE Online'
    <3>1. \A i \in 1..Len(Tail(Feed)) : i + 1 \in 1..Len(Feed) /\ Tail(Feed)[i] = Feed[i + 1]
      BY <1>0, <2>1, LastStays
    <3>2. Head(Feed) = Feed[1] /\ 1 \in 1..Len(Feed)
      BY <1>0, <2>1, LastStays
    <3>3. ui' = IF Head(Feed).kind = "ok" THEN "Connected" ELSE ui
      BY <2>1, <2>4, <3>2 DEF Shown, Online
    <3>4. ASSUME NEW i \in 1..Len(Feed), Feed[i].kind = "ok", i # 1
          PROVE  i - 1 \in 1..Len(Tail(Feed)) /\ Tail(Feed)[i - 1] = Feed[i]
      BY <1>0, <2>1, <3>4, LastStays
    <3>5. \A i \in 1..Len(Feed') : Feed'[i].kind \in {"ok", "relay"}
      BY <2>1, <2>4, <3>1 DEF Online
    <3>6. ui' = "Connected" \/ \E i \in 1..Len(Feed') : Feed'[i].kind = "ok"
      BY <2>1, <2>4, <3>2, <3>3, <3>4 DEF Online
    <3> QED BY <2>1, <2>4, <3>5, <3>6 DEF Online
  <2>5. ASSUME Offline PROVE Offline'
    <3>1. Feed[Len(Feed)].kind \in {"fail", "lost"}
      BY <2>1, <2>5 DEF Offline
    <3>2. Tail(Feed) = <<>> => ui' = "Disconnected"
      BY <1>0, <2>1, <3>1, LastStays DEF Shown
    <3>3. Tail(Feed) # <<>> => Tail(Feed)[Len(Tail(Feed))].kind \in {"fail", "lost"}
      BY <1>0, <2>1, <3>1, LastStays
    <3> QED BY <2>1, <2>5, <3>2, <3>3 DEF Offline
  <2> QED BY <2>1, <2>2, <2>3, <2>4, <2>5 DEF LoginInv, After
<1>9. ASSUME NEW m \in Calls, Js2rs(m) PROVE LoginInv'
  <2>1. /\ m \in calls /\ input = <<>> /\ input' = <<m>> /\ calls' = calls \ {m}
        /\ UNCHANGED <<page, ui, budget, loop, answer, link, conn, events, output>>
    BY <1>9 DEF Js2rs
  <2>2. LoginQuiet
    BY <2>1 DEF LoginQuiet, Early
  <2> QED BY <2>2, LoginFrame
<1>10. CASE Rs2js
  <2>1. /\ FeedType' /\ (page = "ready" => Feed' = Feed) /\ output # <<>>
        /\ UNCHANGED <<page, ui, budget, calls, input, loop, answer, link, conn>>
    BY <1>0, <1>10, FeedSteps DEF Rs2js
  <2>2. Feed # <<>>
    BY <1>0, <2>1, FeedSteps
  <2>3. Single' => After
    BY <2>1, <2>2 DEF Single, LoginInv, Before, Asked, Fresh
  <2>4. After => After'
    BY <2>1 DEF After, NoConnect, Early, Trying, Failing, Opening, Online, Offline
  <2> QED BY <2>1, <2>3, <2>4 DEF LoginInv
<1>11. CASE ForwardInput
  <2>1. /\ TakeInput({"down", "up"})
        /\ UNCHANGED <<page, ui, budget, calls, loop, answer, link, conn, events, output>>
    BY <1>11 DEF ForwardInput
  <2>2. PICK m \in Calls : input = <<m>>
    BY <1>0, <2>1 DEF TakeInput, KeyType
  <2>3. Head(<<m>>) = m /\ Tail(<<m>>) = <<>>
    OBVIOUS
  <2>4. m.kind \in {"down", "up"} /\ input' = <<>>
    BY <2>1, <2>2, <2>3 DEF TakeInput
  <2>5. \A n : m # Connect(n)
    BY <2>4 DEF Connect
  <2>6. LoginQuiet
    BY <2>1, <2>2, <2>4, <2>5 DEF LoginQuiet, Early
  <2> QED BY <2>6, LoginFrame
<1>12. CASE ConnectRequest
  <2>1. /\ TakeInput({"connect"})
        /\ UNCHANGED <<page, ui, budget, calls, link, conn, events, output>>
        /\ status = "Disconnected" => loop' = "connecting"
    BY <1>12 DEF ConnectRequest
  <2>2. PICK m \in Calls : input = <<m>>
    BY <1>0, <2>1 DEF TakeInput, KeyType
  <2>3. Head(<<m>>) = m /\ Tail(<<m>>) = <<>>
    OBVIOUS
  <2>4. m.kind = "connect" /\ input' = <<>>
    BY <2>1, <2>2, <2>3 DEF TakeInput
  <2>5. PICK k \in 1..MaxLogins : m = Connect(k)
    BY <2>4 DEF Calls, Down, Up
  <2>6. Early(Connect(k))
    BY <2>2, <2>5 DEF Early
  <2>7. Feed' = Feed /\ FeedType'
    BY <1>0, <2>1 DEF Feed, FeedType
  <2>8. ASSUME Single' PROVE After'
    <3>1. Asked
      BY <2>1, <2>6, <2>8 DEF Single, LoginInv, Before, After, NoConnect
    <3>2. k = 1 /\ Connect(1) \notin calls
      BY <2>2, <2>5, <2>6, <3>1 DEF Asked, OneConnect
    <3>3. \A n \in 1..MaxLogins : Connect(n) \notin calls
      BY <3>1, <3>2 DEF Asked, OneConnect, Early
    <3>4. NoConnect'
      BY <2>1, <2>4, <3>3 DEF NoConnect, Early
    <3>5. status = "Disconnected"
      BY <1>0, <3>1 DEF Asked, Fresh, LinkInv, StatusExact, LinkType, Statuses
    <3> QED BY <2>1, <2>7, <3>1, <3>4, <3>5 DEF After, Asked, Fresh, Trying
  <2> QED BY <2>7, <2>8 DEF LoginInv
<1>13. CASE ConnectOk
  <2>1. /\ loop = "connecting" /\ link' = link + 1 /\ loop' = "answering" /\ answer' = ToPage("ok", link')
        /\ UNCHANGED <<page, ui, budget, calls, input, events, output>>
    BY <1>13 DEF ConnectOk
  <2>2. Feed' = Feed /\ FeedType' /\ (NoConnect' <=> NoConnect)
    BY <1>0, <2>1 DEF Feed, FeedType, NoConnect, Early
  <2>3. Single' => After /\ Trying
    BY <2>1 DEF Single, LoginInv, Before, Asked, Fresh, After, Failing, Opening, Online, Offline
  <2>4. After /\ Trying => After'
    BY <2>1, <2>2 DEF After, Trying, Opening
  <2> QED BY <2>2, <2>3, <2>4 DEF LoginInv
<1>14. CASE ConnectFail
  <2>1. /\ loop = "connecting" /\ loop' = "answering" /\ answer' = ToPage("fail", 0)
        /\ UNCHANGED <<page, ui, budget, calls, input, link, events, output>>
    BY <1>14 DEF ConnectFail
  <2>2. Feed' = Feed /\ FeedType' /\ (NoConnect' <=> NoConnect)
    BY <1>0, <2>1 DEF Feed, FeedType, NoConnect, Early
  <2>3. Single' => After /\ Trying
    BY <2>1 DEF Single, LoginInv, Before, Asked, Fresh, After, Failing, Opening, Online, Offline
  <2>4. After /\ Trying => After'
    BY <2>1, <2>2 DEF After, Trying, Failing, ToPage
  <2> QED BY <2>2, <2>3, <2>4 DEF LoginInv
<1>15. CASE Answer
  <2>1. /\ loop = "answering" /\ loop' = "recv" /\ SendToJs(answer) /\ answer \in PageMessages
        /\ conn' = IF answer.c > 0 THEN [conn EXCEPT ![answer.c] = "up"] ELSE conn
        /\ UNCHANGED <<page, ui, budget, calls, input, link>>
    BY <1>15 DEF Answer, LinkInv, LinkType
  <2>2. Feed' = Append(Feed, answer) /\ FeedType'
    BY <1>0, <2>1, FeedSteps
  <2>3. NoConnect' <=> NoConnect
    BY <2>1 DEF NoConnect, Early
  <2>4. Single' => After /\ (Failing \/ Opening)
    BY <2>1 DEF Single, LoginInv, Before, Asked, Fresh, After, Trying, Online, Offline
  <2>5. /\ Len(Append(<<>>, answer)) = 1 /\ Append(<<>>, answer)[1] = answer
        /\ Append(<<>>, answer) # <<>>
    BY <2>1
  <2>6. ASSUME Failing PROVE Offline'
    BY <2>1, <2>2, <2>5, <2>6 DEF Failing, Offline
  <2>7. ASSUME Opening PROVE Online'
    <3>1. answer.c = 1 /\ answer.kind = "ok" /\ 1 \in Links
      BY <1>0, <2>7 DEF Opening, ToPage, Links
    <3>2. conn'[1] = "up"
      BY <1>0, <2>1, <3>1
    <3>3. Len(Feed') = 1 /\ Feed'[1].kind = "ok"
      BY <2>2, <2>5, <2>7, <3>1 DEF Opening
    <3> QED BY <2>1, <2>7, <3>2, <3>3 DEF Opening, Online
  <2> QED BY <2>1, <2>2, <2>3, <2>4, <2>6, <2>7 DEF LoginInv, After
<1>16. ASSUME NEW c \in Links, PollWrite(c) \/ PollRead(c) PROVE LoginInv'
  BY <1>1, <1>16 DEF PollWrite, PollRead
<1>17. ASSUME NEW c \in Links, LinkEnds(c) \/ WriteStatus(c) PROVE LoginInv'
  <2>1. /\ conn[c] \in {"up", "ended"}
        /\ conn' = [conn EXCEPT ![c] = "ended"] \/ conn' = [conn EXCEPT ![c] = "down"]
        /\ UNCHANGED <<page, ui, budget, calls, input, loop, answer, link, events, output>>
    BY <1>17 DEF LinkEnds, WriteStatus
  <2>2. LoginQuiet
    BY <1>0, <2>1 DEF LoginQuiet, Early
  <2> QED BY <2>2, LoginFrame
<1>18. ASSUME NEW c \in Links, OnRecvMessage(c) PROVE LoginInv'
  <2> DEFINE m == ToPage("relay", c)
  <2>0. m \in PageMessages /\ m.kind = "relay"
    BY DEF ToPage, PageMessages, Links
  <2>1. /\ conn[c] = "up" /\ SendToJs(m)
        /\ UNCHANGED <<page, ui, budget, calls, input, loop, answer, link, conn>>
    BY <1>18 DEF OnRecvMessage
  <2> HIDE DEF m
  <2>2. Feed' = Append(Feed, m) /\ FeedType'
    BY <1>0, <2>0, <2>1, FeedSteps
  <2>3. NoConnect' <=> NoConnect
    BY <2>1 DEF NoConnect, Early
  <2>4. c <= link /\ c \in Nat /\ c > 0
    BY <1>0, <1>18, <2>1 DEF Links
  <2>5. Single' => After /\ Online
    <3>1. link = 1 => c = 1 /\ conn[1] = "up"
      BY <1>0, <2>1, <2>4
    <3>2. conn[link] # "opened"
      BY <1>0, <2>1, <2>4 DEF LinkInv, StatusExact, InUse
    <3>3. ~Opening
      BY <3>2 DEF LinkInv, Opening, ToPage
    <3> QED BY <1>0, <2>1, <2>4, <3>1, <3>3
            DEF Single, LoginInv, Before, Asked, Fresh, After, Trying, Failing, Offline
  <2>6. ASSUME Online PROVE Online'
    <3>1. /\ Len(Feed') = Len(Feed) + 1 /\ Len(Feed) \in Nat /\ Feed'[Len(Feed) + 1] = m
          /\ \A i \in 1..Len(Feed) : Feed'[i] = Feed[i]
      BY <1>0, <2>0, <2>2, AppendProperties
    <3> QED BY <2>0, <2>1, <2>6, <3>1 DEF Online
  <2> QED BY <2>1, <2>2, <2>3, <2>5, <2>6 DEF LoginInv, After
<1>19. ASSUME NEW c \in Links, Notify(c) PROVE LoginInv'
  <2> DEFINE m == ToPage("lost", c)
  <2>0. m \in PageMessages /\ m.kind = "lost"
    BY DEF ToPage, PageMessages, Links
  <2>1. /\ conn[c] = "down" /\ SendToJs(m) /\ conn' = [conn EXCEPT ![c] = "gone"]
        /\ UNCHANGED <<page, ui, budget, calls, input, loop, answer, link>>
    BY <1>19 DEF Notify
  <2> HIDE DEF m
  <2>2. Feed' = Append(Feed, m) /\ FeedType'
    BY <1>0, <2>0, <2>1, FeedSteps
  <2>3. NoConnect' <=> NoConnect
    BY <2>1 DEF NoConnect, Early
  <2>4. c <= link /\ c \in Nat /\ c > 0
    BY <1>0, <1>19, <2>1 DEF Links
  <2>5. Single' => After /\ Online /\ c = 1
    <3>1. link = 1 => c = 1 /\ conn[1] = "down"
      BY <1>0, <2>1, <2>4
    <3>2. ~Opening
      BY <3>1 DEF LinkInv, Opening, ToPage
    <3>3. link # 0 /\ ~Offline
      BY <1>0, <2>4, <3>1 DEF Offline
    <3>4. Online => c = 1
      BY <3>1 DEF Online
    <3>5. Single' => Single
      BY <2>1 DEF Single
    <3> QED BY <3>2, <3>3, <3>4, <3>5
            DEF LoginInv, Before, Asked, Fresh, After, Trying, Failing
  <2>6. ASSUME Online, c = 1 PROVE Offline'
    <3>1. Feed' # <<>> /\ Feed'[Len(Feed')] = m
      BY <1>0, <2>0, <2>2, AppendProperties
    <3>2. conn'[1] = "gone"
      BY <1>0, <1>19, <2>1, <2>6
    <3> QED BY <2>0, <2>1, <2>6, <3>1, <3>2 DEF Online, Offline
  <2> QED BY <2>1, <2>2, <2>3, <2>5, <2>6 DEF LoginInv, After
<1>20. CASE UNCHANGED vars
  BY <1>1, <1>20 DEF vars
<1> QED BY <1>3, <1>4, <1>5, <1>6, <1>7, <1>8, <1>9, <1>10, <1>11, <1>12, <1>13, <1>14, <1>15,
           <1>16, <1>17, <1>18, <1>19, <1>20
        DEF Next, Page, RunLoop, Task

\* Around a single login on a page that was not reloaded the page ends up showing
\* the service's status, whatever messages cross.
THEOREM LoginCorrect == Spec => []LoginShown
<1>1. LinkInv /\ LoginInv => LoginShown
  <2> SUFFICES ASSUME LinkInv, LoginInv, Single, Quiet PROVE ui = status
    BY DEF LoginShown, PageShowsStatus, Single
  <2>1. Feed = <<>> /\ Len(Feed) = 0 /\ loop = "recv"
    BY ConcatEmptySeq, EmptySeq DEF Quiet, Feed
  <2>2. ~Asked
    BY DEF Asked, OneConnect, Early, Quiet
  <2>3. link = 1 => 1 \in Links
    BY ControllerAssumption DEF LinkInv, LinkType, Links
  <2>4. CASE Before \/ Offline
    <3>1. ui = "Disconnected"
      BY <2>1, <2>4 DEF Before, Offline
    <3>2. link = 0 \/ (link = 1 /\ conn[1] = "gone")
      BY <2>4 DEF Before, Fresh, Offline
    <3> QED BY <2>1, <3>1, <3>2 DEF LinkInv, LinkType, StatusExact, Statuses, InUse
  <2>5. CASE Online
    <3>1. ui = "Connected" /\ conn[1] = "up" /\ link = 1
      BY <2>1, <2>3, <2>5 DEF Online, Quiet
    <3> QED BY <3>1 DEF LinkInv, StatusExact, InUse
  <2> QED BY <2>1, <2>2, <2>4, <2>5 DEF LoginInv, After, Trying, Failing, Opening
<1> QED BY LinkInit, LinkStep, KeyInit, KeyStep, LoginInit, LoginStep, <1>1, PTL DEF Spec
=============================================================================
