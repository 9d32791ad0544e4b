----------------------------- MODULE Controller -----------------------------
(***************************************************************************)
(* The controller (rmc-control): a Vue page and a Rust backend, joined by  *)
(* two channels of capacity one.  The backend has one run loop, which      *)
(* connects on request, and one task per connection, which outlives the    *)
(* connection until its DisconnectNtf is accepted by the output channel.   *)
(*                                                                         *)
(* Connections are numbered in the order they were made.  Bytes, pings and *)
(* the wording of the notices are left out.                                *)
(***************************************************************************)
EXTENDS Naturals, Sequences

CONSTANTS MaxLogins,    \* bound: clicks on Connect
          MaxPresses,   \* bound: clicks on a media key
          MaxRelayed,   \* bound: messages the server sends over a connection
          MaxLinks,     \* bound: connections that succeed
          MaxReloads    \* bound: reloads of the page

ASSUME ControllerAssumption ==
  /\ MaxLogins \in Nat /\ MaxPresses \in Nat /\ MaxRelayed \in Nat
  /\ MaxLinks \in Nat /\ MaxReloads \in Nat

VARIABLES
  page,      \* how far the setup of MainFrame has come
  ui,        \* serviceStatus, what the page shows
  calls,     \* js2rs commands that have not put their message in the channel
  holding,   \* presses between the two invokes of on_click_control
  budget,    \* how many logins, presses and reloads the user has made
  input,     \* the channel to ControlService::run
  loop,      \* where the run loop is
  answer,    \* the message it is sending to the page
  status,    \* ControlService.status
  link,      \* number of connections made; tx belongs to the last one, 0: None
  conn,      \* conn[c]: where the task of connection c is
  outbox,    \* outbox[c]: the unbounded channel read by poll_write
  wire,      \* wire[c]: what poll_write has written to the socket
  reading,   \* reading[c]: poll_read holds a message for the page
  relayed,   \* history: messages connection c has got from the server
  output,    \* the channel to the page
  emitted,   \* history: everything the output channel has accepted
  events     \* rs2js events on their way to the page's listener

uiVars == <<page, ui, calls, holding, budget>>
loopVars == <<loop, answer, status, link>>
taskVars == <<conn, outbox, wire, reading, relayed>>
outVars == <<output, emitted, events>>
vars == <<uiVars, input, loopVars, taskVars, outVars>>

Links == 1..MaxLinks

Connect(n) == [kind |-> "connect", n |-> n]
Down(n) == [kind |-> "down", n |-> n]
Up(n) == [kind |-> "up", n |-> n]

\* To the page: ConnectResponse "ok" (c = 0 when the service was connected
\* already) and "fail", DisconnectNtf "lost", and "relay" for what the server sent.
ToPage(kind, c) == [kind |-> kind, c |-> c]
NoAnswer == ToPage("none", 0)

Init == /\ page = "loading"
        /\ ui = "Disconnected"
        /\ calls = {}
        /\ holding = {}
        /\ budget = [logins |-> 0, presses |-> 0, reloads |-> 0]
        /\ input = <<>>
        /\ loop = "recv"
        /\ answer = NoAnswer
        /\ status = "Disconnected"
        /\ link = 0
        /\ conn = [c \in Links |-> "none"]
        /\ outbox = [c \in Links |-> <<>>]
        /\ wire = [c \in Links |-> <<>>]
        /\ reading = [c \in Links |-> FALSE]
        /\ relayed = [c \in Links |-> 0]
        /\ output = <<>>
        /\ emitted = <<>>
        /\ events = <<>>

-----------------------------------------------------------------------------
\* The page.  The template is shown when the setup has finished.

ReadStatus == /\ page = "loading"
              /\ ui' = status
              /\ page' = "asked"
              /\ UNCHANGED <<calls, holding, budget, input, loopVars, taskVars, outVars>>

Listen == /\ page = "asked"
          /\ page' = "ready"
          /\ UNCHANGED <<ui, calls, holding, budget, input, loopVars, taskVars, outVars>>

\* The web view drops the scripts of the old page; its commands run on.
Reload == /\ budget.reloads < MaxReloads
          /\ budget' = [budget EXCEPT !.reloads = @ + 1]
          /\ page' = "loading"
          /\ ui' = "Disconnected"
          /\ holding' = {}
          /\ events' = <<>>
          /\ UNCHANGED <<calls, input, loopVars, taskVars, output, emitted>>

\* The form is shown in every status but Connected, also while connecting.
ClickLogin == /\ page = "ready"
              /\ ui # "Connected"
              /\ budget.logins < MaxLogins
              /\ budget' = [budget EXCEPT !.logins = @ + 1]
              /\ ui' = "Connecting"
              /\ calls' = calls \cup {Connect(budget'.logins)}
              /\ UNCHANGED <<page, holding, input, loopVars, taskVars, outVars>>

\* Mutant: both invokes are made without awaiting the first.
ClickControlNoAwait ==
   /\ page = "ready"
   /\ ui = "Connected"
   /\ budget.presses < MaxPresses
   /\ budget' = [budget EXCEPT !.presses = @ + 1]
   /\ calls' = calls \cup {Down(budget'.presses), Up(budget'.presses)}
   /\ UNCHANGED <<page, ui, holding, input, loopVars, taskVars, outVars>>

ClickControl == /\ page = "ready"
                /\ ui = "Connected"
                /\ budget.presses < MaxPresses
                /\ budget' = [budget EXCEPT !.presses = @ + 1]
                /\ calls' = calls \cup {Down(budget'.presses)}
                /\ holding' = holding \cup {budget'.presses}
                /\ UNCHANGED <<page, ui, input, loopVars, taskVars, outVars>>

\* The first invoke has returned; the page sends ACTION_UP whatever it shows.
ReleaseKey(n) == /\ n \in holding
                 /\ Down(n) \notin calls
                 /\ holding' = holding \ {n}
                 /\ calls' = calls \cup {Up(n)}
                 /\ UNCHANGED <<page, ui, budget, input, loopVars, taskVars, outVars>>

\* What the rs2js listener makes of an event; "relay" only shows a notice.
Shown(e) == CASE e.kind = "ok" -> "Connected"
              [] e.kind \in {"fail", "lost"} -> "Disconnected"
              [] OTHER -> ui

OnEvent == /\ page = "ready"
           /\ events # <<>>
           /\ ui' = Shown(Head(events))
           /\ events' = Tail(events)
           /\ UNCHANGED <<page, calls, holding, budget, input, loopVars, taskVars,
                          output, emitted>>

-----------------------------------------------------------------------------
\* The commands and the tasks of main.rs.

\* Mutant: try_send, which gives up when the channel is full.
Js2rsTrySend(m) == /\ m \in calls
                   /\ input' = IF input = <<>> THEN <<m>> ELSE input
                   /\ calls' = calls \ {m}
                   /\ UNCHANGED <<page, ui, holding, budget, loopVars, taskVars, outVars>>

\* js2rs takes the mutex and waits for room in the channel; only then does
\* the page's invoke return.
Js2rs(m) == /\ m \in calls
            /\ input = <<>>
            /\ input' = <<m>>
            /\ calls' = calls \ {m}
            /\ UNCHANGED <<page, ui, holding, budget, loopVars, taskVars, outVars>>

\* The event reaches the page if its listener is registered.
Rs2js == /\ output # <<>>
         /\ output' = Tail(output)
         /\ events' = IF page = "ready" THEN Append(events, Head(output)) ELSE events
         /\ UNCHANGED <<uiVars, input, loopVars, taskVars, emitted>>

\* send on the output channel, which has room for one message.
SendToJs(m) == /\ output = <<>>
               /\ output' = <<m>>
               /\ emitted' = Append(emitted, m)
               /\ UNCHANGED events

-----------------------------------------------------------------------------
\* ControlService::run.

TakeInput(kinds) == /\ loop = "recv"
                    /\ input # <<>>
                    /\ Head(input).kind \in kinds
                    /\ input' = Tail(input)

Listening(c) == c > 0 /\ conn[c] \in {"opened", "up"}   \* rx has not been dropped

\* A message for the server goes to the last connection, or nowhere.
ForwardInput == /\ TakeInput({"down", "up"})
                /\ outbox' = IF Listening(link)
                             THEN [outbox EXCEPT ![link] = Append(@, Head(input))]
                             ELSE outbox
                /\ UNCHANGED <<uiVars, loopVars, conn, wire, reading, relayed, outVars>>

\* Mutant: a new connection is made whatever the status.
ConnectRequestAnyStatus ==
   /\ TakeInput({"connect"})
   /\ loop' = "connecting"
   /\ status' = "Connecting"
   /\ UNCHANGED <<answer, uiVars, link, taskVars, outVars>>

\* on_connect_request up to its first await that can block.
ConnectRequest ==
   /\ TakeInput({"connect"})
   /\ \/ /\ status = "Connected"
         /\ loop' = "answering"
         /\ answer' = ToPage("ok", 0)
         /\ UNCHANGED status
      \/ /\ status = "Connecting"
         /\ UNCHANGED <<loop, answer, status>>
      \/ /\ status = "Disconnected"
         /\ loop' = "connecting"
         /\ status' = "Connecting"
         /\ UNCHANGED answer
   /\ UNCHANGED <<uiVars, link, taskVars, outVars>>

\* Mutant: the task of the connection starts before the page is told.
ConnectOkSpawnFirst ==
   /\ loop = "connecting"
   /\ link < MaxLinks
   /\ link' = link + 1
   /\ conn' = [conn EXCEPT ![link'] = "up"]
   /\ status' = "Connected"
   /\ loop' = "answering"
   /\ answer' = ToPage("ok", link')
   /\ UNCHANGED <<uiVars, input, outbox, wire, reading, relayed, outVars>>

ConnectOk == /\ loop = "connecting"
             /\ link < MaxLinks
             /\ link' = link + 1
             /\ conn' = [conn EXCEPT ![link'] = "opened"]
             /\ status' = "Connected"
             /\ loop' = "answering"
             /\ answer' = ToPage("ok", link')
             /\ UNCHANGED <<uiVars, input, outbox, wire, reading, relayed, outVars>>

\* Mutant: a failed connect is not reported.
ConnectFailSilent == /\ loop = "connecting"
                     /\ status' = "Disconnected"
                     /\ loop' = "recv"
                     /\ UNCHANGED <<uiVars, input, answer, link, taskVars, outVars>>

ConnectFail == /\ loop = "connecting"
               /\ status' = "Disconnected"
               /\ loop' = "answering"
               /\ answer' = ToPage("fail", 0)
               /\ UNCHANGED <<uiVars, input, link, taskVars, outVars>>

\* The ConnectResponse is accepted; for a new connection its task is spawned.
Answer == /\ loop = "answering"
          /\ SendToJs(answer)
          /\ loop' = "recv"
          /\ answer' = NoAnswer
          /\ conn' = IF answer.c > 0 THEN [conn EXCEPT ![answer.c] = "up"] ELSE conn
          /\ UNCHANGED <<uiVars, input, status, link, outbox, wire, reading, relayed>>

-----------------------------------------------------------------------------
\* The task of connection c: poll_read, poll_write and ping_forever in one
\* select!, then the status, then the notice.

PollWrite(c) == /\ conn[c] = "up"
                /\ outbox[c] # <<>>
                /\ wire' = [wire EXCEPT ![c] = Append(@, Head(outbox[c]))]
                /\ outbox' = [outbox EXCEPT ![c] = Tail(@)]
                /\ UNCHANGED <<uiVars, input, loopVars, conn, reading, relayed, outVars>>

PollRead(c) == /\ conn[c] = "up"
               /\ ~reading[c]
               /\ relayed[c] < MaxRelayed
               /\ reading' = [reading EXCEPT ![c] = TRUE]
               /\ relayed' = [relayed EXCEPT ![c] = @ + 1]
               /\ UNCHANGED <<uiVars, input, loopVars, conn, outbox, wire, outVars>>

\* Mutant: the reader has a task of its own, which nobody cancels.
OnRecvMessageDetached(c) ==
   /\ conn[c] # "none"
   /\ relayed[c] < MaxRelayed
   /\ SendToJs(ToPage("relay", c))
   /\ relayed' = [relayed EXCEPT ![c] = @ + 1]
   /\ UNCHANGED <<uiVars, input, loopVars, conn, outbox, wire, reading>>

\* on_recv_message: its send waits for room in the output channel.
OnRecvMessage(c) == /\ conn[c] = "up"
                    /\ reading[c]
                    /\ SendToJs(ToPage("relay", c))
                    /\ reading' = [reading EXCEPT ![c] = FALSE]
                    /\ UNCHANGED <<uiVars, input, loopVars, conn, outbox, wire, relayed>>

\* End of stream, an error of a read or a write, or a ping timeout: select!
\* drops both halves, the channel and a message poll_read was sending.
LinkEnds(c) == /\ conn[c] = "up"
               /\ conn' = [conn EXCEPT ![c] = "ended"]
               /\ outbox' = [outbox EXCEPT ![c] = <<>>]
               /\ reading' = [reading EXCEPT ![c] = FALSE]
               /\ UNCHANGED <<uiVars, input, loopVars, wire, relayed, outVars>>

WriteStatus(c) == /\ conn[c] = "ended"
                  /\ status' = "Disconnected"
                  /\ conn' = [conn EXCEPT ![c] = "down"]
                  /\ UNCHANGED <<uiVars, input, loop, answer, link, outbox, wire,
                                 reading, relayed, outVars>>

Notify(c) == /\ conn[c] = "down"
             /\ SendToJs(ToPage("lost", c))
             /\ conn' = [conn EXCEPT ![c] = "gone"]
             /\ UNCHANGED <<uiVars, input, loopVars, outbox, wire, reading, relayed>>

-----------------------------------------------------------------------------
Calls == {Connect(n) : n \in 1..MaxLogins}
            \cup {Down(n) : n \in 1..MaxPresses}
            \cup {Up(n) : n \in 1..MaxPresses}

Page == \/ ReadStatus \/ Listen \/ Reload
        \/ ClickLogin \/ ClickControl \/ OnEvent
        \/ \E n \in 1..MaxPresses : ReleaseKey(n)

RunLoop == \/ ForwardInput \/ ConnectRequest
           \/ ConnectOk \/ ConnectFail \/ Answer

Task(c) == \/ PollWrite(c) \/ PollRead(c) \/ OnRecvMessage(c)
           \/ LinkEnds(c) \/ WriteStatus(c) \/ Notify(c)

Next == \/ Page
        \/ \E m \in Calls : Js2rs(m)
        \/ Rs2js
        \/ RunLoop
        \/ \E c \in Links : Task(c)

Spec == Init /\ [][Next]_vars

\* Tokio polls every woken task; its mutex and the semaphore of a bounded
\* channel serve their waiters in order (SF).  A connect attempt ends one way or
\* the other; a socket takes what poll_write has for it or the connection ends.
\* Nothing is assumed of the user, the server or the end of a connection.
Fairness ==
  /\ WF_vars(ReadStatus) /\ WF_vars(Listen) /\ WF_vars(OnEvent)
  /\ \A n \in 1..MaxPresses : WF_vars(ReleaseKey(n))
  /\ \A m \in Calls : SF_vars(Js2rs(m))
  /\ WF_vars(Rs2js)
  /\ WF_vars(ForwardInput \/ ConnectRequest)
  /\ WF_vars(ConnectOk \/ ConnectFail)
  /\ SF_vars(Answer)
  /\ \A c \in Links : /\ WF_vars(outbox[c] # <<>> /\ (PollWrite(c) \/ LinkEnds(c)))
                      /\ SF_vars(OnRecvMessage(c))
                      /\ WF_vars(WriteStatus(c))
                      /\ SF_vars(Notify(c))

FairSpec == Spec /\ Fairness

-----------------------------------------------------------------------------
Statuses == {"Disconnected", "Connecting", "Connected"}
PageMessages == [kind : {"none", "ok", "fail", "lost", "relay"}, c : 0..MaxLinks]

\* The status is Connected exactly while the newest connection is in use, that
\* is until its own task has written Disconnected: the late write of an old
\* task never hides a newer connection, and there are never two in use.
InUse == {"opened", "up", "ended"}

StatusExact ==
  /\ (status = "Connecting") <=> (loop = "connecting")
  /\ (status = "Connected") <=> (link > 0 /\ conn[link] \in InUse)
  /\ \A c \in Links : conn[c] \in InUse => c = link

\* A media key's ACTION_UP never reaches the server before its ACTION_DOWN, on
\* one connection or across a reconnect, and nothing is written twice.
KeysInOrder ==
  \A c, d \in Links : \A i \in 1..Len(wire[c]), j \in 1..Len(wire[d]) :
     /\ wire[c][i] = wire[d][j] => c = d /\ i = j
     /\ wire[c][i].kind = "up" /\ wire[d][j] = Down(wire[c][i].n) =>
           d < c \/ (d = c /\ j < i)

\* The page is told of a connection, then gets its messages, then is told of
\* its end: nothing of a connection precedes its ConnectResponse or follows its
\* DisconnectNtf, whatever task is waiting for room in the channel.
Bracketed ==
  \A i, j \in 1..Len(emitted) :
     i < j /\ emitted[i].c > 0 /\ emitted[i].c = emitted[j].c =>
        emitted[i].kind # "lost" /\ emitted[j].kind # "ok"

\* Nothing is under way between the page and the backend.
Quiet == /\ page = "ready"
         /\ calls = {} /\ input = <<>> /\ loop = "recv"
         /\ \A c \in Links : conn[c] \in {"none", "up", "gone"}
         /\ output = <<>> /\ events = <<>>

\* The page shows the status of the service whenever nothing is under way.
PageShowsStatus == Quiet => ui = status

\* Around a single login on a page that was not reloaded it does.
LoginShown == (budget.logins <= 1 /\ budget.reloads = 0) => PageShowsStatus

\* Connecting is never the last word: every click on Connect is answered.
LoginAnswered == (ui = "Connecting") ~> (ui # "Connecting")

Written(m) == \E c \in Links : \E i \in 1..Len(wire[c]) : wire[c][i] = m

\* A key that went down at the server comes up again, unless a connection ends.
KeyReleased ==
  \A n \in 1..MaxPresses :
     Written(Down(n)) ~>
       \/ Written(Up(n))
       \/ \E c \in Links : conn[c] \in {"ended", "down", "gone"}
=============================================================================
