----------------------------- MODULE MobileClient ----------------------------
(***************************************************************************)
(* MainActivity.java over TcpClient: the UI thread (buttons, pause and     *)
(* resume, posted status changes) and the network thread (the listener,    *)
(* which reconnects by itself in the background).  The client below them   *)
(* gives each connection the next number and reports what becomes of it.   *)
(***************************************************************************)
EXTENDS Integers, Sequences, FiniteSets

CONSTANTS MaxIds,  \* bound: connections
          Hasty    \* the activity is paused and resumed at any moment, and not
                   \* only when no event is under way

MobileAssumption == MaxIds \in Nat /\ Hasty \in BOOLEAN

CONNECTING == "connecting"
CONNECTED == "connected"
DISCONNECTING == "disconnecting"
DISCONNECTED == "disconnected"
Ids == 1..MaxIds
NoEvent == [k |-> "none", id |-> 0]

VARIABLES curStatus, isForeground, connectionId,
          shown,      \* the status updateUI showed last, and so which buttons work
          ui, uiq,    \* where the UI thread is; the lambdas posted to it
          wk, ev,     \* where the listener is; the event it has
          seed, conn, \* the client's numbers; what became of each connection
          evq,        \* events not yet given to the listener
          off,        \* the user pressed Disconnect last
          foreign     \* updateUI ran on the network thread
screen == <<curStatus, isForeground, shown, foreign>>
net == <<seed, conn, evq>>
vars == <<screen, connectionId, ui, uiq, wk, ev, net, off>>

Init == /\ curStatus = DISCONNECTED /\ shown = DISCONNECTED
        /\ isForeground = TRUE /\ connectionId = -1
        /\ ui = "idle" /\ uiq = <<>> /\ wk = "idle" /\ ev = NoEvent
        /\ seed = 0 /\ conn = [i \in Ids |-> "none"] /\ evq = <<>>
        /\ off = FALSE /\ foreign = FALSE

Live(i) == conn[i] \in {"connecting", "aborting", "connected", "closing"}

(***************************************************************************)
(* The client.                                                             *)
(***************************************************************************)
nextConnectionId == seed + 1

\* A connection that is being made is closed once it is made, or dropped without
\* a word when the service has not taken it up yet.
ClientDisconnects(i) ==
  conn' \in IF i \notin Ids \/ ~Live(i) THEN {conn}
            ELSE IF conn[i] \in {"connecting", "aborting"}
                 THEN {[conn EXCEPT ![i] = "aborting"], [conn EXCEPT ![i] = "dropped"]}
                 ELSE {[conn EXCEPT ![i] = "closing"]}
ClientConnects == /\ seed < MaxIds
                  /\ seed' = seed + 1
                  /\ conn' = [conn EXCEPT ![seed + 1] = "connecting"]
                  /\ UNCHANGED evq

Reports(i, k) == /\ evq' = Append(evq, [k |-> k, id |-> i])
                 /\ conn' = [conn EXCEPT ![i] = IF k # "success" THEN "ended"
                                                ELSE IF @ = "aborting" THEN "closing" ELSE "connected"]
                 /\ UNCHANGED <<screen, connectionId, ui, uiq, wk, ev, seed, off>>
Happens(i) == \/ conn[i] \in {"connecting", "aborting"} /\ (Reports(i, "success") \/ Reports(i, "failed"))
              \/ conn[i] \in {"connected", "closing"} /\ Reports(i, "disconnect")

(***************************************************************************)
(* changeStatus and updateUI                                               *)
(***************************************************************************)
\* The form that leaves the buttons as they are.
ChangesSilently(s, t) == curStatus' = s /\ UNCHANGED <<isForeground, shown, foreign>>

changeStatus(s, t) ==
  /\ curStatus' = s
  /\ shown' = IF curStatus # s /\ isForeground THEN s ELSE shown
  /\ foreign' = (foreign \/ (t = "network" /\ curStatus # s /\ isForeground))
  /\ UNCHANGED isForeground

(***************************************************************************)
(* The UI thread.                                                          *)
(***************************************************************************)
\* onButtonClickConnect: the status, the number, the connection.
ClickConnect == /\ ui = "idle" /\ isForeground /\ shown = DISCONNECTED /\ seed < MaxIds
                /\ changeStatus(CONNECTING, "ui")
                /\ ui' = "number" /\ off' = FALSE
                /\ UNCHANGED <<connectionId, uiq, wk, ev, net>>
UiNumbers == /\ ui = "number"
             /\ connectionId' = nextConnectionId
             /\ ui' = "connect"
             /\ UNCHANGED <<screen, uiq, wk, ev, net, off>>
UiConnects == /\ ui = "connect"
              /\ ClientConnects
              /\ ui' = "idle"
              /\ UNCHANGED <<screen, connectionId, uiq, wk, ev, off>>

onButtonClickDisconnect ==
  /\ ui = "idle" /\ isForeground /\ shown = CONNECTED
  /\ changeStatus(DISCONNECTING, "ui")
  /\ ClientDisconnects(connectionId)
  /\ off' = TRUE
  /\ UNCHANGED <<connectionId, ui, uiq, wk, ev, seed, evq>>

Calm == /\ evq = <<>> /\ uiq = <<>> /\ wk = "idle"
        /\ \A i \in Ids : conn[i] \notin {"aborting", "closing"}
onPause == /\ ui = "idle" /\ isForeground /\ (Hasty \/ Calm)
           /\ isForeground' = FALSE
           /\ UNCHANGED <<curStatus, shown, foreign, connectionId, ui, uiq, wk, ev, net, off>>
\* The form that shows nothing.
ResumesSilently ==
  /\ ui = "idle" /\ ~isForeground /\ (Hasty \/ Calm)
  /\ isForeground' = TRUE
  /\ UNCHANGED <<shown, curStatus, foreign, connectionId, ui, uiq, wk, ev, net, off>>
onResume == /\ ui = "idle" /\ ~isForeground /\ (Hasty \/ Calm)
            /\ isForeground' = TRUE /\ shown' = curStatus
            /\ UNCHANGED <<curStatus, foreign, connectionId, ui, uiq, wk, ev, net, off>>

\* A lambda posted with runOnUiThread.
\* The form without the case of a failure.
FailureIsNone(k) == IF k = "disconnect" THEN DISCONNECTED ELSE CONNECTED
StatusOf(k) == IF k = "success" THEN CONNECTED ELSE DISCONNECTED
UiRuns == /\ ui = "idle" /\ uiq # <<>>
          /\ changeStatus(StatusOf(Head(uiq)), "ui")
          /\ uiq' = Tail(uiq)
          /\ UNCHANGED <<connectionId, ui, wk, ev, net, off>>

(***************************************************************************)
(* The listener, on the network thread.                                    *)
(***************************************************************************)
\* The form that reconnects in the foreground.
OnlyForeground(k) == isForeground /\ k # "success"
\* !isForeground.get(), and the end of a connection
Reconnecting(k) == ~isForeground /\ k # "success"

\* connectionId.get() == connection_id
Mine(e) == connectionId = e.id

onMessage ==
  LET e == Head(evq)
  IN  /\ wk = "idle" /\ evq # <<>>
      /\ evq' = Tail(evq)
      /\ IF Mine(e) /\ Reconnecting(e.k)
         THEN wk' = "status" /\ ev' = e /\ uiq' = uiq
         ELSE /\ uiq' = IF Mine(e) THEN Append(uiq, e.k) ELSE uiq
              /\ UNCHANGED <<wk, ev>>
      /\ UNCHANGED <<screen, connectionId, ui, seed, conn, off>>

WkStatus == /\ wk = "status"
            /\ changeStatus(CONNECTING, "network")
            /\ wk' = "number"
            /\ UNCHANGED <<connectionId, ui, uiq, ev, net, off>>
\* After half a second.
WkNumbers == /\ wk = "number"
             /\ connectionId' = nextConnectionId
             /\ wk' = "connect"
             /\ UNCHANGED <<screen, ui, uiq, ev, net, off>>
WkConnects == /\ wk = "connect"
              /\ ClientConnects
              /\ wk' = "idle" /\ ev' = NoEvent
              /\ UNCHANGED <<screen, connectionId, ui, uiq, off>>

Next == \/ \E i \in Ids : Happens(i)
        \/ ClickConnect \/ UiNumbers \/ UiConnects \/ onButtonClickDisconnect
        \/ onPause \/ onResume \/ UiRuns
        \/ onMessage \/ WkStatus \/ WkNumbers \/ WkConnects
Spec == Init /\ [][Next]_vars

\* Both threads run; nothing is asked of the network or of the user.
FairSpec ==
  /\ Spec
  /\ WF_vars(UiNumbers \/ UiConnects) /\ WF_vars(UiRuns)
  /\ WF_vars(onMessage \/ WkStatus \/ WkNumbers \/ WkConnects)

(***************************************************************************)
(* Properties.                                                             *)
(***************************************************************************)
Numbering == ui \in {"number", "connect"} \/ wk \in {"number", "connect"}

\* There is at most one connection, and it is the one whose events are heard:
\* two threads take the next number and connect in two calls, and neither
\* takes the other's.
OneConnection ==
  /\ Cardinality({i \in Ids : Live(i)}) <= 1
  /\ ~Numbering => \A i \in Ids : Live(i) => connectionId = i
  /\ ~(ui \in {"number", "connect"} /\ wk \in {"number", "connect"})

\* In the foreground the buttons are those of the status.
ShownTrue == (isForeground /\ ui = "idle" /\ wk = "idle") => shown = curStatus

\* When nothing is under way the status is that of the connection: the listener
\* sets it at once and the lambdas it posted before run later, and the two
\* orders end alike.
Quiet == /\ evq = <<>> /\ uiq = <<>> /\ wk = "idle" /\ ui = "idle"
         /\ \A i \in Ids : conn[i] \in {"none", "connected", "ended"}
Settled ==
  Quiet => curStatus = IF \E i \in Ids : conn[i] = "connected" THEN CONNECTED ELSE DISCONNECTED

\* The widgets are touched by the UI thread only.
UiThreadOnly == ~foreign

\* All of it; the last only if the activity is paused and resumed between events.
ActivityTrue == OneConnection /\ Settled /\ ShownTrue /\ (~Hasty => UiThreadOnly)

\* A connection the user ended is not made again by the listener.
NoneWhenOff == seed' # seed => ~off
StaysOff == [][NoneWhenOff]_vars

\* In the background a connection that ends is followed by another.
Lost(i) == /\ ~isForeground /\ conn[i] = "ended" /\ connectionId = i
           /\ curStatus # DISCONNECTED /\ i < MaxIds
Replaced(i) == isForeground \/ connectionId > i
Reconnects == \A i \in Ids : Lost(i) ~> Replaced(i)
=============================================================================
