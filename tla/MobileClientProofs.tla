------------------------- MODULE MobileClientProofs -------------------------
(***************************************************************************)
(* MainActivity and its listener for any number of connections: the two    *)
(* threads never number or connect at the same time, and the status ends   *)
(* as that of the connection.                                              *)
(***************************************************************************)
EXTENDS MobileClient, TLAPS, FiniteSetTheorems, SequenceTheorems

Kinds == {"success", "failed", "disconnect"}
Status == {CONNECTING, CONNECTED, DISCONNECTING, DISCONNECTED}
States == {"none", "connecting", "aborting", "connected", "closing", "dropped", "ended"}

TypeOK ==
  /\ curStatus \in Status /\ shown \in Status
  /\ isForeground \in BOOLEAN /\ off \in BOOLEAN /\ foreign \in BOOLEAN
  /\ connectionId \in Int
  /\ ui \in {"idle", "number", "connect"} /\ wk \in {"idle", "status", "number", "connect"}
  /\ seed \in 0..MaxIds /\ conn \in [Ids -> States]
  /\ uiq \in Seq(Kinds) /\ evq \in Seq([k : Kinds, id : Ids])

Event(k) == [k |-> k, id |-> seed]

\* Lambdas of connections that were made, and that one of them has ended last.
Made(q) == \A k \in 1..Len(q) : q[k] = "success"
EndsLast(q) == q # <<>> /\ \A k \in 1..Len(q) : q[k] = "success" <=> k < Len(q)

\* The connections before the newest have ended, and the later ones are not made.
Numbered == \A i \in Ids : /\ i < seed => conn[i] = "ended"
                           /\ i > seed => conn[i] = "none"
Over == seed > 0 => conn[seed] = "ended"

(***************************************************************************)
(* The five phases of the activity.                                        *)
(***************************************************************************)
\* There is no connection and everybody knows.
Resting == /\ ui = "idle" /\ wk = "idle" /\ Over
           /\ curStatus = DISCONNECTED /\ uiq = <<>> /\ evq = <<>>
\* The user connects.
Dialing == /\ ui \in {"number", "connect"} /\ wk = "idle" /\ Over
           /\ curStatus = CONNECTING /\ uiq = <<>> /\ evq = <<>>
           /\ ui = "connect" => connectionId = seed + 1
\* The listener connects, and the UI thread may be behind.
Redialing == /\ ui = "idle" /\ wk # "idle" /\ Over
             /\ curStatus # DISCONNECTED /\ Made(uiq) /\ evq = <<>>
             /\ wk = "connect" => connectionId = seed + 1
\* The newest connection is alive, or the listener has not heard of its end.
Telling == \/ /\ conn[seed] \in {"connecting", "aborting", "dropped"}
              /\ evq = <<>>
           \/ /\ conn[seed] \in {"connected", "closing"}
              /\ evq \in {<<>>, <<Event("success")>>}
           \/ /\ conn[seed] = "ended"
              /\ evq \in {<<Event("failed")>>, <<Event("disconnect")>>,
                          <<Event("success"), Event("disconnect")>>}
Talking == /\ ui = "idle" /\ wk = "idle" /\ seed > 0 /\ connectionId = seed
           /\ curStatus # DISCONNECTED /\ Made(uiq) /\ Telling
           /\ conn[seed] = "connected" /\ evq = <<>> /\ uiq = <<>> => curStatus = CONNECTED
\* The UI thread has not heard of the end.
Falling == /\ ui = "idle" /\ wk = "idle" /\ Over
           /\ curStatus # DISCONNECTED /\ EndsLast(uiq) /\ evq = <<>>

Phases == Resting \/ Dialing \/ Redialing \/ Talking \/ Falling

\* A calm user: the listener connects in the background, and a connection that the
\* user ended is heard of in the foreground.
CalmInv == ~Hasty => /\ ~foreign
                     /\ wk # "idle" => ~isForeground
                     /\ off => /\ ui = "idle" /\ wk = "idle"
                               /\ seed > 0 => conn[seed] \notin {"connecting", "connected"}
                               /\ ~isForeground => evq = <<>>
                               /\ ~isForeground /\ seed > 0 => conn[seed] \in {"dropped", "ended"}

MobileInv == /\ TypeOK /\ Numbered /\ Phases
             /\ isForeground => shown = curStatus
             /\ CalmInv

\* The lambdas posted to the UI thread, as one is run and as one is added.
LEMMA Posted ==
  ASSUME NEW q \in Seq(Kinds)
  PROVE  /\ Made(q) /\ q # <<>> => Head(q) = "success" /\ Made(Tail(q))
         /\ EndsLast(q) => \/ Head(q) = "success" /\ EndsLast(Tail(q))
                           \/ Head(q) # "success" /\ Tail(q) = <<>>
         /\ Made(q) => Made(Append(q, "success"))
         /\ \A k \in Kinds \ {"success"} : Made(q) => EndsLast(Append(q, k))
<1>1. Made(q) /\ q # <<>> => Head(q) = "success" /\ Made(Tail(q))
  BY DEF Made
<1>2. ASSUME EndsLast(q)
      PROVE  \/ Head(q) = "success" /\ EndsLast(Tail(q))
             \/ Head(q) # "success" /\ Tail(q) = <<>>
  <2>1. q # <<>> /\ Len(q) \in Nat /\ Len(q) > 0 /\ Head(q) = q[1] /\ Len(Tail(q)) = Len(q) - 1
        /\ \A k \in 1..Len(Tail(q)) : Tail(q)[k] = q[k + 1]
    BY <1>2 DEF EndsLast
  <2>4. Tail(q) \in Seq(Kinds) /\ (Tail(q) = <<>> <=> Len(Tail(q)) = 0)
    BY <2>1
  <2>2. CASE Len(q) = 1
    <3>1. Head(q) # "success"
      BY <1>2, <2>1, <2>2 DEF EndsLast
    <3>2. Tail(q) = <<>>
      BY <2>1, <2>2, <2>4
    <3> QED BY <3>1, <3>2
  <2>3. CASE Len(q) > 1
    <3>1. Head(q) = "success"
      BY <1>2, <2>1, <2>3 DEF EndsLast
    <3>2. Tail(q) # <<>>
      BY <2>1, <2>3, <2>4
    <3>3. \A k \in 1..Len(Tail(q)) : Tail(q)[k] = "success" <=> k < Len(Tail(q))
      BY <1>2, <2>1, <2>3 DEF EndsLast
    <3> QED BY <3>1, <3>2, <3>3 DEF EndsLast
  <2> QED BY <2>1, <2>2, <2>3
<1>3. Made(q) => Made(Append(q, "success"))
  BY DEF Made
<1>4. ASSUME NEW k \in Kinds \ {"success"}, Made(q) PROVE EndsLast(Append(q, k))
  BY <1>4 DEF Made, EndsLast
<1> QED BY <1>1, <1>2, <1>3, <1>4

\* Initially there is no connection.
LEMMA MobileInit == ASSUME MobileAssumption, Init PROVE MobileInv
<1>1. TypeOK
  <2>1. seed \in 0..MaxIds /\ connectionId \in Int
    BY DEF MobileAssumption, Init
  <2>2. conn \in [Ids -> States] /\ uiq \in Seq(Kinds) /\ evq \in Seq([k : Kinds, id : Ids])
    BY DEF Init, States
  <2>3. curStatus \in Status /\ shown \in Status
    BY DEF Init, Status
  <2>4. ui \in {"idle", "number", "connect"} /\ wk \in {"idle", "status", "number", "connect"}
    BY DEF Init
  <2>5. isForeground \in BOOLEAN /\ off \in BOOLEAN /\ foreign \in BOOLEAN
    BY DEF Init
  <2> QED BY <2>1, <2>2, <2>3, <2>4, <2>5 DEF TypeOK
<1>2. Numbered
  BY DEF Init, Numbered, Ids, MobileAssumption
<1>3. Resting
  BY DEF Init, Resting, Over
<1>4. CalmInv
  BY DEF Init, CalmInv
<1>5. shown = curStatus
  BY DEF Init
<1> QED BY <1>1, <1>2, <1>3, <1>4, <1>5 DEF MobileInv, Phases

\* changeStatus shows in the foreground what it sets, on the UI thread nothing else.
LEMMA Changes ==
  ASSUME MobileInv, NEW s \in Status, NEW t, changeStatus(s, t)
  PROVE  /\ curStatus' = s
         /\ shown' \in Status
         /\ isForeground' = isForeground
         /\ isForeground' => shown' = curStatus'
         /\ foreign' \in BOOLEAN
         /\ t = "ui" => (foreign' <=> foreign)
<1>1. shown \in Status /\ (isForeground => shown = curStatus)
  BY DEF MobileInv, TypeOK
<1>2. curStatus' = s /\ shown' \in Status /\ isForeground' = isForeground
  BY <1>1 DEF changeStatus
<1>3. isForeground' => shown' = curStatus'
  BY <1>1 DEF changeStatus
<1>4. foreign' \in BOOLEAN
  BY DEF changeStatus, MobileInv, TypeOK
<1>5. t = "ui" => (foreign' <=> foreign)
  BY DEF changeStatus
<1> QED BY <1>2, <1>3, <1>4, <1>5

\* The user presses Connect.
LEMMA ClickInv == ASSUME MobileAssumption, MobileInv, ClickConnect PROVE MobileInv'
<1>0. CONNECTING \in Status /\ changeStatus(CONNECTING, "ui")
  BY DEF Status, ClickConnect
<1>1. /\ curStatus' = CONNECTING /\ shown' \in Status /\ isForeground' = isForeground
      /\ isForeground' => shown' = curStatus'
      /\ foreign' \in BOOLEAN /\ (foreign' <=> foreign)
  BY <1>0, Changes
<1>2. Resting
  BY DEF MobileInv, ClickConnect, Phases, Dialing, Redialing, Talking, Falling
<1>3. TypeOK'
  BY <1>0, <1>1 DEF ClickConnect, MobileInv, TypeOK, net
<1>4. Numbered'
  BY DEF ClickConnect, MobileInv, Numbered, net
<1>5. Dialing'
  BY <1>1, <1>2 DEF ClickConnect, Resting, Dialing, Over, net
<1>6. CalmInv'
  BY <1>1, <1>2 DEF ClickConnect, MobileInv, CalmInv, Resting, net
<1> QED BY <1>1, <1>3, <1>4, <1>5, <1>6 DEF MobileInv, Phases

\* The UI thread takes a number.
LEMMA UiNumbersInv == ASSUME MobileAssumption, MobileInv, UiNumbers PROVE MobileInv'
<1>2. Dialing
  BY DEF MobileInv, UiNumbers, Phases, Resting, Redialing, Talking, Falling
<1>3. TypeOK'
  BY DEF UiNumbers, nextConnectionId, MobileInv, TypeOK, net, screen, MobileAssumption
<1>4. Numbered'
  BY DEF UiNumbers, MobileInv, Numbered, net
<1>5. Dialing'
  BY <1>2 DEF UiNumbers, nextConnectionId, Dialing, Over, net, screen
<1>6. CalmInv'
  BY <1>2 DEF UiNumbers, MobileInv, CalmInv, Dialing, net, screen
<1>7. isForeground' => shown' = curStatus'
  BY DEF UiNumbers, MobileInv, screen
<1> QED BY <1>3, <1>4, <1>5, <1>6, <1>7 DEF MobileInv, Phases

\* It connects with the number it took.
LEMMA ConnectsInv ==
  ASSUME MobileAssumption, MobileInv, UiConnects \/ WkConnects PROVE MobileInv'
<1>1. /\ seed \in 0..MaxIds /\ seed < MaxIds /\ seed' = seed + 1 /\ seed + 1 \in Ids
      /\ conn' = [conn EXCEPT ![seed + 1] = "connecting"] /\ conn \in [Ids -> States]
      /\ evq' = evq /\ uiq' = uiq /\ connectionId' = connectionId
      /\ ui' = "idle" /\ wk' = "idle" /\ curStatus' = curStatus
  BY DEF UiConnects, WkConnects, ClientConnects, MobileInv, TypeOK, Ids, MobileAssumption, screen,
         Phases, Resting, Dialing, Redialing, Talking, Falling
<1>2. connectionId = seed + 1 /\ Over /\ evq = <<>> /\ Made(uiq) /\ curStatus # DISCONNECTED /\ ~(ui = "idle" /\ wk = "idle")
  BY DEF MobileInv, UiConnects, WkConnects, Phases, Resting, Dialing, Redialing, Talking, Falling,
         Made, CONNECTING, DISCONNECTED
<1>3. TypeOK'
  <2>1. seed' \in 0..MaxIds
    BY <1>1 DEF MobileAssumption
  <2>2. conn' \in [Ids -> States]
    BY <1>1 DEF States
  <2> QED BY <1>1, <2>1, <2>2 DEF UiConnects, WkConnects, MobileInv, TypeOK, screen
<1>4. conn'[seed + 1] = "connecting" /\ \A i \in Ids \ {seed + 1} : conn'[i] = conn[i]
  BY <1>1
<1>5. Numbered'
  BY <1>1, <1>2, <1>4 DEF MobileInv, Numbered, Over, Ids, MobileAssumption
<1>6. Talking'
  BY <1>1, <1>2, <1>4 DEF Talking, Telling, Made
<1>7. CalmInv'
  BY <1>1, <1>2 DEF UiConnects, WkConnects, MobileInv, CalmInv, screen
<1>8. isForeground' => shown' = curStatus'
  BY DEF UiConnects, WkConnects, MobileInv, screen
<1> QED BY <1>3, <1>5, <1>6, <1>7, <1>8 DEF MobileInv, Phases

\* The user presses Disconnect: there may be a connection, one being made, one that
\* has ended unheard, or none, for the listener is about to make another.
LEMMA DisconnectInv ==
  ASSUME MobileAssumption, MobileInv, onButtonClickDisconnect PROVE MobileInv'
<1>0. DISCONNECTING \in Status /\ changeStatus(DISCONNECTING, "ui") /\ DISCONNECTING # DISCONNECTED
  BY DEF Status, onButtonClickDisconnect, DISCONNECTING, DISCONNECTED
<1>1. /\ curStatus' = DISCONNECTING /\ shown' \in Status /\ isForeground' = isForeground
      /\ isForeground' => shown' = curStatus'
      /\ foreign' \in BOOLEAN /\ (foreign' <=> foreign)
  BY <1>0, Changes
<1>2. curStatus # DISCONNECTED /\ ui = "idle" /\ isForeground
      /\ (Redialing \/ Talking \/ Falling)
  BY DEF MobileInv, onButtonClickDisconnect, Phases, Resting, Dialing, CONNECTED, DISCONNECTED
<1>3. /\ conn \in [Ids -> States] /\ seed \in 0..MaxIds
      /\ UNCHANGED <<connectionId, ui, uiq, wk, ev, seed, evq>>
      /\ ClientDisconnects(connectionId) /\ off' = TRUE
  BY DEF onButtonClickDisconnect, MobileInv, TypeOK
<1>4. CASE Redialing \/ Falling
  <2>1. conn' = conn
    <3>1. connectionId \in Ids => conn[connectionId] \in {"none", "ended"}
      BY <1>3, <1>4 DEF MobileInv, Numbered, Redialing, Falling, Over, Ids, MobileAssumption
    <3> QED BY <1>3, <3>1 DEF ClientDisconnects, Live
  <2>2. TypeOK'
    BY <1>0, <1>1, <1>3, <2>1 DEF MobileInv, TypeOK
  <2>3. Numbered'
    BY <1>3, <2>1 DEF MobileInv, Numbered
  <2>4. Redialing' \/ Falling'
    BY <1>0, <1>1, <1>3, <1>4, <2>1 DEF Redialing, Falling, Over
  <2>5. CalmInv'
    BY <1>1, <1>2, <1>3, <1>4, <2>1 DEF MobileInv, CalmInv, Redialing, Falling, Over
  <2> QED BY <1>1, <2>2, <2>3, <2>4, <2>5 DEF MobileInv, Phases
<1>5. CASE Talking
  <2>0. seed \in Ids /\ connectionId = seed /\ wk = "idle"
    BY <1>3, <1>5 DEF Talking, Ids, MobileAssumption
  <2>1. PICK x \in States : /\ conn' = [conn EXCEPT ![seed] = x]
                            /\ x \notin {"none", "connecting", "connected"}
                            /\ x = "ended" <=> conn[seed] = "ended"
                            /\ x \in {"aborting", "dropped"} <=> conn[seed] \in {"connecting", "aborting", "dropped"}
    <3>1. CASE Live(seed)
      <4>1. PICK x \in {"aborting", "dropped", "closing"} :
              /\ conn' = [conn EXCEPT ![seed] = x]
              /\ x = "closing" <=> conn[seed] \notin {"connecting", "aborting"}
        BY <1>3, <2>0, <3>1 DEF ClientDisconnects
      <4> QED BY <3>1, <4>1 DEF Live, States
    <3>2. CASE ~Live(seed)
      <4>1. conn' = conn
        BY <1>3, <2>0, <3>2 DEF ClientDisconnects
      <4>2. conn[seed] \in {"dropped", "ended"}
        BY <1>5, <3>2 DEF Talking, Telling, Live
      <4>3. conn' = [conn EXCEPT ![seed] = conn[seed]]
        BY <1>3, <4>1
      <4> QED BY <4>2, <4>3 DEF States
    <3> QED BY <3>1, <3>2
  <2>2. conn' \in [Ids -> States] /\ conn'[seed] = x /\ \A i \in Ids \ {seed} : conn'[i] = conn[i]
    BY <1>3, <2>0, <2>1
  <2>3. TypeOK'
    BY <1>0, <1>1, <1>3, <2>2 DEF MobileInv, TypeOK
  <2>4. Numbered'
    BY <1>3, <2>0, <2>2 DEF MobileInv, Numbered, Ids, MobileAssumption
  <2>5. Telling'
    BY <1>3, <1>5, <2>1, <2>2 DEF Talking, Telling, Event, States
  <2>6. Talking'
    BY <1>0, <1>1, <1>3, <1>5, <2>1, <2>2, <2>5 DEF Talking
  <2>7. CalmInv'
    BY <1>1, <1>2, <1>3, <2>0, <2>1, <2>2 DEF MobileInv, CalmInv
  <2> QED BY <1>1, <2>3, <2>4, <2>6, <2>7 DEF MobileInv, Phases
<1> QED BY <1>2, <1>4, <1>5

\* Pause and resume change only what is shown.
LEMMA ResumeInv ==
  ASSUME MobileAssumption, MobileInv, onPause \/ onResume PROVE MobileInv'
<1>1. /\ UNCHANGED <<curStatus, foreign, connectionId, ui, uiq, wk, ev, net, off>>
      /\ isForeground' \in BOOLEAN
  BY DEF onPause, onResume
<1>2. shown' \in Status /\ (isForeground' => shown' = curStatus')
  BY DEF onPause, onResume, MobileInv, TypeOK
<1>3. TypeOK'
  BY <1>1, <1>2 DEF MobileInv, TypeOK, net
<1>4. Numbered' /\ Phases'
  BY <1>1 DEF MobileInv, Numbered, Phases, Resting, Dialing, Redialing, Talking, Falling,
              Telling, Event, Over, Made, EndsLast, net
<1>5. CalmInv'
  <2> SUFFICES ASSUME ~Hasty PROVE CalmInv'
    BY DEF CalmInv
  <2>1. Calm
    BY DEF onPause, onResume
  <2>2. seed > 0 => conn[seed] \in States \ {"aborting", "closing"}
    BY <2>1 DEF Calm, MobileInv, TypeOK, Ids, MobileAssumption
  <2>3. off /\ seed > 0 => conn[seed] # "none"
    BY DEF MobileInv, Phases, Resting, Dialing, Redialing, Talking, Falling, Telling, Over
  <2> QED BY <1>1, <2>1, <2>2, <2>3 DEF MobileInv, CalmInv, Calm, net, States
<1> QED BY <1>2, <1>3, <1>4, <1>5 DEF MobileInv

\* The UI thread runs a lambda.  One of a connection that the listener has replaced
\* says CONNECTED too early, and one that says DISCONNECTED is the last.
LEMMA UiRunsInv == ASSUME MobileAssumption, MobileInv, UiRuns PROVE MobileInv'
<1> DEFINE s == StatusOf(Head(uiq))
<1>0. s \in Status /\ changeStatus(s, "ui") /\ CONNECTED # DISCONNECTED
      /\ (s = CONNECTED <=> Head(uiq) = "success") /\ s \in {CONNECTED, DISCONNECTED}
  BY DEF Status, StatusOf, UiRuns, CONNECTED, DISCONNECTED
<1> HIDE DEF s
<1>1. /\ curStatus' = s /\ shown' \in Status /\ isForeground' = isForeground
      /\ isForeground' => shown' = curStatus'
      /\ foreign' \in BOOLEAN /\ (foreign' <=> foreign)
  BY <1>0, Changes
<1>2. /\ ui = "idle" /\ uiq # <<>> /\ uiq \in Seq(Kinds)
      /\ uiq' = Tail(uiq) /\ uiq' \in Seq(Kinds)
      /\ UNCHANGED <<connectionId, ui, wk, ev, seed, conn, evq, off>>
  BY DEF UiRuns, net, MobileInv, TypeOK
<1>3. TypeOK'
  BY <1>0, <1>1, <1>2 DEF MobileInv, TypeOK
<1>4. Numbered' /\ CalmInv'
  BY <1>1, <1>2 DEF MobileInv, Numbered, CalmInv
<1>5. Redialing \/ Talking \/ Falling
  BY <1>2 DEF MobileInv, Phases, Resting, Dialing
<1>6. CASE Redialing
  BY <1>0, <1>1, <1>2, <1>3, <1>4, <1>6, Posted DEF MobileInv, Phases, Redialing, Over
<1>7. CASE Talking
  <2>1. Telling'
    BY <1>2, <1>7 DEF Talking, Telling, Event
  <2>2. Talking'
    BY <1>0, <1>1, <1>2, <1>7, <2>1, Posted DEF Talking
  <2> QED BY <1>1, <1>3, <1>4, <2>2 DEF MobileInv, Phases
<1>8. CASE Falling
  <2>1. CASE Head(uiq) = "success"
    <3>1. EndsLast(uiq')
      BY <1>2, <1>8, <2>1, Posted DEF Falling
    <3>2. Falling'
      BY <1>0, <1>1, <1>2, <1>8, <2>1, <3>1 DEF Falling, Over
    <3> QED BY <1>1, <1>3, <1>4, <3>2 DEF MobileInv, Phases
  <2>2. CASE Head(uiq) # "success"
    <3>1. uiq' = <<>>
      BY <1>2, <1>8, <2>2, Posted DEF Falling
    <3>2. Resting'
      BY <1>0, <1>1, <1>2, <1>8, <2>2, <3>1 DEF Falling, Resting, Over
    <3> QED BY <1>1, <1>3, <1>4, <3>2 DEF MobileInv, Phases
  <2> QED BY <2>1, <2>2
<1> QED BY <1>5, <1>6, <1>7, <1>8

\* The listener, before and as it takes a number.
LEMMA WkInv == ASSUME MobileAssumption, MobileInv, WkStatus \/ WkNumbers PROVE MobileInv'
<1>0. Redialing /\ wk # "idle"
  BY DEF WkStatus, WkNumbers, MobileInv, Phases, Resting, Dialing, Talking, Falling
<1>1. CASE WkStatus
  <2>0. CONNECTING \in Status /\ changeStatus(CONNECTING, "network") /\ CONNECTING # DISCONNECTED
    BY <1>1 DEF Status, WkStatus, CONNECTING, DISCONNECTED
  <2>1. /\ curStatus' = CONNECTING /\ shown' \in Status /\ isForeground' = isForeground
        /\ isForeground' => shown' = curStatus'
        /\ foreign' \in BOOLEAN
    BY <2>0, Changes
  <2>2. wk' = "number" /\ UNCHANGED <<connectionId, ui, uiq, ev, seed, conn, evq, off>>
    BY <1>1 DEF WkStatus, net
  <2>3. TypeOK'
    BY <2>0, <2>1, <2>2 DEF MobileInv, TypeOK
  <2>4. Numbered'
    BY <2>2 DEF MobileInv, Numbered
  <2>5. Redialing'
    BY <1>0, <2>0, <2>1, <2>2 DEF Redialing, Over
  <2>6. CalmInv'
    <3>1. ~Hasty => ~isForeground /\ ~off /\ ~foreign
      BY <1>0 DEF MobileInv, CalmInv
    <3>2. ~Hasty => ~foreign'
      BY <2>0, <3>1 DEF changeStatus
    <3> QED BY <2>1, <2>2, <3>1, <3>2 DEF CalmInv
  <2> QED BY <2>1, <2>3, <2>4, <2>5, <2>6 DEF MobileInv, Phases
<1>2. CASE WkNumbers
  <2>1. connectionId' = seed + 1 /\ wk' = "connect"
        /\ UNCHANGED <<curStatus, isForeground, shown, foreign, ui, uiq, ev, seed, conn, evq, off>>
    BY <1>2 DEF WkNumbers, nextConnectionId, screen, net
  <2>2. TypeOK'
    BY <2>1 DEF MobileInv, TypeOK, MobileAssumption
  <2>3. Numbered' /\ CalmInv'
    BY <1>0, <2>1 DEF MobileInv, Numbered, CalmInv
  <2>4. Redialing'
    BY <1>0, <2>1 DEF Redialing, Over
  <2> QED BY <2>1, <2>2, <2>3, <2>4 DEF MobileInv, Phases
<1> QED BY <1>1, <1>2

\* Short sequences.
LEMMA Short ==
  ASSUME NEW a, NEW b
  PROVE  /\ Append(<<>>, a) = <<a>> /\ Append(<<a>>, b) = <<a, b>>
         /\ Head(<<a>>) = a /\ Tail(<<a>>) = <<>>
         /\ Head(<<a, b>>) = a /\ Tail(<<a, b>>) = <<b>>
         /\ <<a>> # <<>> /\ <<a, b>> # <<>>
<1>0. PICK S : a \in S /\ b \in S
  <2>1. a \in {a, b} /\ b \in {a, b}
    OBVIOUS
  <2> QED BY <2>1
<1> USE <1>0
<1>1. Append(<<>>, a) = <<a>>
  OBVIOUS
<1>2. Append(<<a>>, b) = <<a, b>>
  <2> DEFINE p == Append(<<a>>, b)  q == <<a, b>>
  <2>1. p \in Seq(S) /\ Len(p) = 2 /\ p[1] = a /\ p[2] = b
    OBVIOUS
  <2>2. q \in Seq(S) /\ Len(q) = 2 /\ q[1] = a /\ q[2] = b
    OBVIOUS
  <2> HIDE DEF p, q
  <2>3. \A k \in 1..Len(p) : k = 1 \/ k = 2
    BY <2>1
  <2>4. p = q
    BY <2>1, <2>2, <2>3, SeqEqual
  <2> QED BY <2>4 DEF p, q
<1>3. Head(<<a>>) = a /\ Tail(<<a>>) = <<>> /\ <<a>> # <<>>
  OBVIOUS
<1>4. Head(<<a, b>>) = a /\ <<a, b>> # <<>>
  OBVIOUS
<1>5. Tail(<<a, b>>) = <<b>>
  OBVIOUS
<1> QED BY <1>1, <1>2, <1>3, <1>4, <1>5

\* The listener hears an event, which is of the newest connection.
LEMMA onMessageInv == ASSUME MobileAssumption, MobileInv, onMessage PROVE MobileInv'
<1> DEFINE e == Head(evq)
<1>0. /\ wk = "idle" /\ evq # <<>> /\ evq' = Tail(evq)
      /\ UNCHANGED <<curStatus, isForeground, shown, foreign, connectionId, ui, seed, conn, off>>
      /\ uiq \in Seq(Kinds) /\ evq \in Seq([k : Kinds, id : Ids])
      /\ isForeground \in BOOLEAN
  BY DEF onMessage, MobileInv, TypeOK, screen
<1>1. Talking
  BY <1>0 DEF MobileInv, Phases, Resting, Dialing, Redialing, Falling
<1>2. /\ Event("success") = [k |-> "success", id |-> seed] /\ Event("success").k = "success"
      /\ Event("failed").k = "failed" /\ Event("disconnect").k = "disconnect"
      /\ \A k \in Kinds : Event(k).id = seed
  BY DEF Event
<1>3. \/ /\ e = Event("success")
         /\ \/ evq' = <<>> /\ conn[seed] \in {"connected", "closing"}
            \/ evq' = <<Event("disconnect")>> /\ conn[seed] = "ended"
      \/ /\ e \in {Event("failed"), Event("disconnect")}
         /\ evq' = <<>> /\ conn[seed] = "ended"
  <2>1. CASE evq = <<Event("success")>> /\ conn[seed] \in {"connected", "closing"}
    BY <1>0, <2>1, Short
  <2>2. CASE evq = <<Event("success"), Event("disconnect")>> /\ conn[seed] = "ended"
    BY <1>0, <2>2, Short
  <2>3. CASE evq \in {<<Event("failed")>>, <<Event("disconnect")>>} /\ conn[seed] = "ended"
    BY <1>0, <2>3, Short
  <2> QED BY <1>0, <1>1, <2>1, <2>2, <2>3 DEF Talking, Telling
<1>4. Mine(e) /\ e.k \in Kinds
  BY <1>1, <1>2, <1>3 DEF Mine, Talking, Kinds
<1>5. evq' \in Seq([k : Kinds, id : Ids])
  BY <1>0
<1>6. Numbered'
  BY <1>0 DEF MobileInv, Numbered
<1>7. isForeground' => shown' = curStatus'
  BY <1>0 DEF MobileInv
<1>8. CASE e.k = "success"
  <2>1. uiq' = Append(uiq, "success") /\ wk' = wk /\ ev' = ev
    BY <1>4, <1>8 DEF onMessage, Reconnecting
  <2>2. TypeOK'
    <3>1. uiq' \in Seq(Kinds)
      BY <1>0, <2>1 DEF Kinds
    <3> QED BY <1>0, <1>5, <2>1, <3>1 DEF MobileInv, TypeOK
  <2>3. Made(uiq') /\ uiq' # <<>>
    BY <1>0, <1>1, <2>1, Posted DEF Talking
  <2>4. Telling'
    BY <1>0, <1>2, <1>3, <1>8 DEF Telling, Event
  <2>5. Talking'
    BY <1>0, <1>1, <2>1, <2>3, <2>4 DEF Talking
  <2>6. CalmInv'
    BY <1>0, <1>3, <2>1 DEF MobileInv, CalmInv
  <2> QED BY <1>6, <1>7, <2>2, <2>5, <2>6 DEF MobileInv, Phases
<1>9. CASE e.k # "success" /\ isForeground
  <2>1. uiq' = Append(uiq, e.k) /\ wk' = wk /\ ev' = ev
    BY <1>4, <1>9 DEF onMessage, Reconnecting
  <2>2. TypeOK'
    <3>1. uiq' \in Seq(Kinds)
      BY <1>0, <1>4, <2>1
    <3> QED BY <1>0, <1>5, <2>1, <3>1 DEF MobileInv, TypeOK
  <2>3. EndsLast(uiq')
    BY <1>0, <1>1, <1>4, <1>9, <2>1, Posted DEF Talking
  <2>4. Falling'
    BY <1>0, <1>1, <1>2, <1>3, <1>9, <2>1, <2>3 DEF Talking, Falling, Over
  <2>5. CalmInv'
    BY <1>0, <1>9, <2>1 DEF MobileInv, CalmInv
  <2> QED BY <1>6, <1>7, <2>2, <2>4, <2>5 DEF MobileInv, Phases
<1>10. CASE e.k # "success" /\ ~isForeground
  <2>1. uiq' = uiq /\ wk' = "status"
    BY <1>4, <1>10 DEF onMessage, Reconnecting
  <2>2. TypeOK'
    BY <1>0, <1>5, <2>1 DEF MobileInv, TypeOK
  <2>3. Redialing'
    BY <1>0, <1>1, <1>2, <1>3, <1>10, <2>1 DEF Talking, Redialing, Over
  <2>4. CalmInv'
    BY <1>0, <1>10, <2>1 DEF MobileInv, CalmInv
  <2> QED BY <1>6, <1>7, <2>2, <2>3, <2>4 DEF MobileInv, Phases
<1> QED BY <1>0, <1>8, <1>9, <1>10

\* The client reports what becomes of the newest connection: the others have ended.
LEMMA HappensInv ==
  ASSUME MobileAssumption, MobileInv, NEW i \in Ids, Happens(i) PROVE MobileInv'
<1>0. PICK k \in Kinds : /\ Reports(i, k)
                         /\ k # "disconnect" <=> conn[i] \in {"connecting", "aborting"}
                         /\ conn[i] \in {"connecting", "aborting", "connected", "closing"}
  BY DEF Happens, Kinds
<1>1. /\ UNCHANGED <<curStatus, isForeground, shown, foreign, connectionId, ui, uiq, wk, ev, seed, off>>
      /\ conn \in [Ids -> States] /\ seed \in 0..MaxIds
      /\ evq \in Seq([k : Kinds, id : Ids]) /\ evq' = Append(evq, [k |-> k, id |-> i])
  BY <1>0 DEF Reports, screen, MobileInv, TypeOK
<1>2. i = seed /\ Talking
  <2>1. i = seed /\ seed > 0
    BY <1>0, <1>1 DEF MobileInv, Numbered, Ids, MobileAssumption
  <2> QED BY <1>0, <2>1 DEF MobileInv, Phases, Resting, Dialing, Redialing, Falling, Over
<1>3. PICK x \in {"ended", "closing", "connected"} :
        /\ conn' = [conn EXCEPT ![seed] = x]
        /\ x = "ended" <=> k # "success"
        /\ x = "closing" <=> k = "success" /\ conn[seed] = "aborting"
  BY <1>0, <1>2 DEF Reports
<1>4. conn' \in [Ids -> States] /\ conn'[seed] = x /\ \A j \in Ids \ {seed} : conn'[j] = conn[j]
  BY <1>1, <1>2, <1>3 DEF States
<1>5. evq' = Append(evq, Event(k)) /\ evq' \in Seq([k : Kinds, id : Ids])
  BY <1>1, <1>2 DEF Event
<1>6. TypeOK'
  BY <1>1, <1>4, <1>5 DEF MobileInv, TypeOK
<1>7. Numbered'
  BY <1>1, <1>2, <1>4 DEF MobileInv, Numbered, Ids, MobileAssumption
<1>8. Telling' /\ evq' # <<>>
  <2>1. CASE conn[seed] \in {"connecting", "aborting"}
    <3>1. evq = <<>> /\ k \in {"success", "failed"}
      BY <1>0, <1>2, <2>1 DEF Talking, Telling, Kinds
    <3>2. evq' = <<Event(k)>> /\ evq' # <<>>
      BY <1>5, <3>1
    <3> QED BY <1>1, <1>3, <1>4, <3>1, <3>2 DEF Telling, Event
  <2>2. CASE conn[seed] \in {"connected", "closing"}
    <3>1. k = "disconnect" /\ x = "ended" /\ evq \in {<<>>, <<Event("success")>>}
      BY <1>0, <1>2, <1>3, <2>2 DEF Talking, Telling, Kinds
    <3>2. evq' \in {<<Event("disconnect")>>, <<Event("success"), Event("disconnect")>>} /\ evq' # <<>>
      <4>1. CASE evq = <<>>
        BY <1>5, <3>1, <4>1
      <4>2. CASE evq = <<Event("success")>>
        <5>1. Append(<<Event("success")>>, Event("disconnect")) = <<Event("success"), Event("disconnect")>>
              /\ <<Event("success"), Event("disconnect")>> # <<>>
          BY Short, Zenon
        <5> QED BY <1>5, <3>1, <4>2, <5>1
      <4> QED BY <3>1, <4>1, <4>2
    <3> QED BY <1>1, <1>4, <3>1, <3>2 DEF Telling, Event
  <2> QED BY <1>0, <1>2, <2>1, <2>2
<1>9. Talking'
  BY <1>1, <1>2, <1>8 DEF Talking
<1>10. CalmInv'
  <2>1. seed > 0
    BY <1>2 DEF Talking
  <2>2. ASSUME ~Hasty, off PROVE isForeground /\ conn[seed] \in {"aborting", "closing"}
    BY <1>0, <1>2, <2>1, <2>2 DEF MobileInv, CalmInv
  <2>3. ASSUME ~Hasty, off PROVE isForeground' /\ conn'[seed] \notin {"connecting", "connected"}
    BY <1>0, <1>1, <1>2, <1>3, <1>4, <2>2, <2>3
  <2> QED BY <1>1, <2>3 DEF MobileInv, CalmInv
<1>11. isForeground' => shown' = curStatus'
  BY <1>1 DEF MobileInv
<1> QED BY <1>6, <1>7, <1>9, <1>10, <1>11 DEF MobileInv, Phases

\* Every step keeps the invariant.
LEMMA MobileStep == ASSUME MobileAssumption, MobileInv, [Next]_vars PROVE MobileInv'
<1>1. CASE \E i \in Ids : Happens(i)
  BY <1>1, HappensInv
<1>2. CASE ClickConnect \/ UiNumbers \/ UiConnects \/ onButtonClickDisconnect
  BY <1>2, ClickInv, UiNumbersInv, ConnectsInv, DisconnectInv
<1>3. CASE onPause \/ onResume \/ UiRuns
  BY <1>3, ResumeInv, UiRunsInv
<1>4. CASE onMessage \/ WkStatus \/ WkNumbers \/ WkConnects
  BY <1>4, onMessageInv, WkInv, ConnectsInv
<1>5. CASE UNCHANGED vars
  <2>1. TypeOK'
    BY <1>5 DEF vars, screen, net, MobileInv, TypeOK
  <2>2. Numbered'
    BY <1>5 DEF vars, net, MobileInv, Numbered
  <2>3. Phases'
    BY <1>5 DEF vars, screen, net, MobileInv, Phases, Resting, Dialing, Redialing, Talking,
                Falling, Telling, Event, Over, Made, EndsLast
  <2>4. CalmInv' /\ (isForeground' => shown' = curStatus')
    BY <1>5 DEF vars, screen, net, MobileInv, CalmInv
  <2> QED BY <2>1, <2>2, <2>3, <2>4 DEF MobileInv
<1> QED BY <1>1, <1>2, <1>3, <1>4, <1>5 DEF Next

\* At most the newest connection is alive.
LEMMA OneIsLive == ASSUME MobileAssumption, MobileInv PROVE OneConnection
<1>1. \A i \in Ids : Live(i) => i = seed
  <2>1. \A i \in Ids : Live(i) => ~(i < seed) /\ ~(i > seed)
    BY DEF MobileInv, Numbered, Live
  <2>2. seed \in Int /\ \A i \in Ids : i \in Int
    BY DEF MobileInv, TypeOK, Ids, MobileAssumption
  <2> QED BY <2>1, <2>2
<1>2. Cardinality({i \in Ids : Live(i)}) <= 1
  <2> DEFINE L == {i \in Ids : Live(i)}
  <2>1. L \subseteq {seed}
    BY <1>1
  <2>2. IsFiniteSet({seed}) /\ Cardinality({seed}) = 1
    BY FS_Singleton
  <2> HIDE DEF L
  <2>3. IsFiniteSet(L) /\ Cardinality(L) <= Cardinality({seed})
    BY <2>1, <2>2, FS_Subset
  <2>4. Cardinality(L) <= 1
    BY <2>2, <2>3
  <2> QED BY <2>4 DEF L
<1>3. ASSUME ~Numbering, NEW i \in Ids, Live(i) PROVE connectionId = i
  <2>1. i = seed /\ seed > 0
    BY <1>1, <1>3 DEF Ids, MobileAssumption
  <2>2. Talking
    BY <1>3, <2>1 DEF Live, MobileInv, Phases, Resting, Dialing, Redialing, Falling, Over
  <2> QED BY <2>1, <2>2 DEF Talking
<1>4. ~(ui \in {"number", "connect"} /\ wk \in {"number", "connect"})
  BY DEF MobileInv, Phases, Resting, Dialing, Redialing, Talking, Falling
<1> QED BY <1>2, <1>3, <1>4 DEF OneConnection

\* When all is quiet the activity rests or talks.
LEMMA QuietSettles == ASSUME MobileAssumption, MobileInv PROVE Settled
<1> SUFFICES ASSUME Quiet
             PROVE  curStatus = IF \E i \in Ids : conn[i] = "connected" THEN CONNECTED ELSE DISCONNECTED
  BY DEF Settled
<1>0. \A i \in Ids : conn[i] = "connected" => i = seed
  BY DEF MobileInv, TypeOK, Numbered, Ids, MobileAssumption
<1>1. CASE Resting
  <2>1. ~\E i \in Ids : conn[i] = "connected"
    BY <1>0, <1>1 DEF Resting, Over, Ids, MobileAssumption
  <2> QED BY <1>1, <2>1 DEF Resting
<1>2. CASE Talking
  <2>1. seed \in Ids /\ conn[seed] = "connected"
    BY <1>2 DEF Talking, Telling, Quiet, MobileInv, TypeOK, Ids, MobileAssumption
  <2> QED BY <1>2, <2>1 DEF Talking, Quiet
<1>3. ~Dialing /\ ~Redialing /\ ~Falling
  BY DEF Quiet, Dialing, Redialing, Falling, EndsLast
<1> QED BY <1>1, <1>2, <1>3 DEF MobileInv, Phases

\* MainActivity and its listener: at most one connection, whose events are the ones
\* heard; the status and the buttons end as those of the connection; and, if the user
\* pauses only between events, the widgets are touched by the UI thread only.
THEOREM ActivityCorrect == ASSUME MobileAssumption PROVE Spec => []ActivityTrue
<1>1. Init => MobileInv
  BY MobileInit
<1>2. MobileInv /\ [Next]_vars => MobileInv'
  BY MobileStep
<1>3. MobileInv => ActivityTrue
  <2> SUFFICES ASSUME MobileInv PROVE ActivityTrue
    OBVIOUS
  <2>1. OneConnection /\ Settled
    BY OneIsLive, QuietSettles
  <2>2. ShownTrue /\ (~Hasty => UiThreadOnly)
    BY DEF MobileInv, CalmInv, ShownTrue, UiThreadOnly
  <2> QED BY <2>1, <2>2 DEF ActivityTrue
<1> QED BY <1>1, <1>2, <1>3, PTL DEF Spec

\* The listener does not make again a connection that the user ended, if the user
\* pauses and resumes only between events.
THEOREM StaysOffCorrect == ASSUME MobileAssumption, ~Hasty PROVE Spec => StaysOff
<1>1. Init => MobileInv
  BY MobileInit
<1>2. MobileInv /\ [Next]_vars => MobileInv'
  BY MobileStep
<1>3. MobileInv /\ [Next]_vars => [NoneWhenOff]_vars
  <2> SUFFICES ASSUME MobileInv, [Next]_vars, seed' # seed PROVE ~off
    BY DEF NoneWhenOff
  <2>1. ui = "connect" \/ wk = "connect"
    <3>1. CASE \E i \in Ids : Happens(i)
      BY <3>1 DEF Happens, Reports
    <3>2. CASE ClickConnect \/ UiNumbers \/ onButtonClickDisconnect \/ onPause \/ onResume \/ UiRuns
      BY <3>2 DEF ClickConnect, UiNumbers, onButtonClickDisconnect, onPause, onResume, UiRuns, net
    <3>3. CASE onMessage \/ WkStatus \/ WkNumbers
      BY <3>3 DEF onMessage, WkStatus, WkNumbers, net
    <3>4. CASE UiConnects \/ WkConnects
      BY <3>4 DEF UiConnects, WkConnects
    <3>5. CASE UNCHANGED vars
      BY <3>5 DEF vars, net
    <3> QED BY <3>1, <3>2, <3>3, <3>4, <3>5 DEF Next
  <2> QED BY <2>1 DEF MobileInv, CalmInv
<1> QED BY <1>1, <1>2, <1>3, PTL DEF Spec, StaysOff
=============================================================================
