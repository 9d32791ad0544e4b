------------------------------ MODULE PushLog ------------------------------
(***************************************************************************)
(* What the relay server promises to the peers connected to it, without    *)
(* its locks, registry, tasks or shutdown: media key events are published  *)
(* one at a time, and the stream written to a session is a log to which    *)
(* only the latest published event may be added, at most once, and never   *)
(* the session's own.  Control messages (answers, pings, pongs) may be     *)
(* added at any time.                                                      *)
(***************************************************************************)
EXTENDS Naturals, Sequences, TLAPS

CONSTANTS Sessions

VARIABLES owner,   \* owner[k]: the session whose request was the k-th event
          log      \* log[s]: every message ever queued for session s

absVars == <<owner, log>>

\* The messages: a pushed media key event carries its number, the others only their kind.
ControlKinds == {"ok", "denied", "pong", "ping"}
Message == [kind : ControlKinds \cup {"push"}, n : Nat]
Push(k) == [kind |-> "push", n |-> k]
Control(kind) == [kind |-> kind, n |-> 0]

Init == /\ owner = <<>>
        /\ log = [s \in Sessions |-> <<>>]

Publish(s) == /\ owner' = Append(owner, s)
              /\ UNCHANGED log

Deliver(t) == /\ owner # <<>>
              /\ owner[Len(owner)] # t
              /\ \A i \in 1..Len(log[t]) : log[t][i] # Push(Len(owner))
              /\ log' = [log EXCEPT ![t] = Append(@, Push(Len(owner)))]
              /\ UNCHANGED owner

AddControl(s) == /\ \E kind \in ControlKinds :
                      log' = [log EXCEPT ![s] = Append(@, Control(kind))]
                 /\ UNCHANGED owner

Next == \E s \in Sessions : Publish(s) \/ Deliver(s) \/ AddControl(s)

Spec == Init /\ [][Next]_absVars

-----------------------------------------------------------------------------
TypeOK == /\ owner \in Seq(Sessions)
          /\ log \in [Sessions -> Seq(Message)]

\* Events reach every session in publication order: the event numbers in a
\* session's log strictly increase.  So no session sees an event twice, and two
\* sessions never disagree on the order of two events.
InOrder ==
  \A s \in Sessions : \A i, j \in 1..Len(log[s]) :
     /\ i < j
     /\ log[s][i].kind = "push"
     /\ log[s][j].kind = "push"
     => log[s][i].n < log[s][j].n

\* Every event in a log was published, by another session.
OnlyOthers ==
  \A s \in Sessions : \A i \in 1..Len(log[s]) :
     log[s][i].kind = "push" =>
        log[s][i].n \in 1..Len(owner) /\ owner[log[s][i].n] # s

-----------------------------------------------------------------------------
\* PushLog keeps its two promises for every set of sessions.

\* The inductive invariant: OnlyOthers bounds the numbers in a log by the number
\* published, so what Deliver adds is larger than all before it.
LogInv == TypeOK /\ InOrder /\ OnlyOthers

\* A message is told from Push(k) by its two fields.
LEMMA PushExt ==
  ASSUME NEW m \in Message, NEW k \in Nat, m.kind = "push", m # Push(k)
  PROVE  m.n # k
<1>1. m = [kind |-> m.kind, n |-> m.n]
  BY DEF Message
<1> QED BY <1>1 DEF Push

\* Initially the logs are empty.
LEMMA InitInv == Init => LogInv
BY DEF Init, LogInv, TypeOK, InOrder, OnlyOthers

\* Publishing lengthens owner and leaves the logs alone.
LEMMA PublishInv ==
  ASSUME LogInv, NEW s \in Sessions, Publish(s) PROVE LogInv'
<1>1. TypeOK'
  BY DEF LogInv, TypeOK, Publish
<1>2. InOrder'
  BY DEF LogInv, InOrder, Publish
<1>3. OnlyOthers'
  BY DEF LogInv, TypeOK, OnlyOthers, Publish
<1> QED BY <1>1, <1>2, <1>3 DEF LogInv

\* A control message at the end of a log is no event.
LEMMA ControlInv ==
  ASSUME LogInv, NEW s \in Sessions, AddControl(s) PROVE LogInv'
<1> PICK kind \in ControlKinds :
      log' = [log EXCEPT ![s] = Append(@, Control(kind))]
  BY DEF AddControl
<1>0. Control(kind) \in Message /\ Control(kind).kind # "push"
  BY DEF Control, Message, ControlKinds
<1>1. TypeOK'
  BY <1>0 DEF LogInv, TypeOK, AddControl
<1>2. /\ log'[s] = Append(log[s], Control(kind))
      /\ Len(log'[s]) = Len(log[s]) + 1
      /\ Len(log[s]) \in Nat
      /\ \A i \in 1..Len(log[s]) : log'[s][i] = log[s][i]
      /\ log'[s][Len(log[s]) + 1] = Control(kind)
      /\ \A t \in Sessions \ {s} : log'[t] = log[t]
  BY <1>0 DEF LogInv, TypeOK
<1>3. InOrder'
  BY <1>0, <1>2 DEF LogInv, InOrder
<1>4. OnlyOthers'
  BY <1>0, <1>2 DEF LogInv, OnlyOthers, AddControl
<1> QED BY <1>1, <1>3, <1>4 DEF LogInv

\* The delivered number is new to the log, and no number there exceeds it.
LEMMA DeliverInv ==
  ASSUME LogInv, NEW t \in Sessions, Deliver(t) PROVE LogInv'
<1> DEFINE k == Len(owner)
<1>0. k \in Nat /\ k > 0 /\ Push(k) \in Message
      /\ Push(k).kind = "push" /\ Push(k).n = k
  BY DEF LogInv, TypeOK, Deliver, Push, Message
<1>1. TypeOK'
  BY <1>0 DEF LogInv, TypeOK, Deliver
<1>2. /\ Len(log'[t]) = Len(log[t]) + 1
      /\ Len(log[t]) \in Nat
      /\ \A i \in 1..Len(log[t]) : log'[t][i] = log[t][i]
      /\ log'[t][Len(log[t]) + 1] = Push(k)
      /\ \A s \in Sessions \ {t} : log'[s] = log[s]
      /\ owner' = owner
  BY <1>0 DEF LogInv, TypeOK, Deliver
<1>3. \A i \in 1..Len(log[t]) : log[t][i].kind = "push" => log[t][i].n < k
  <2> TAKE i \in 1..Len(log[t])
  <2> HAVE log[t][i].kind = "push"
  <2>0. log[t] \in Seq(Message)
    BY DEF LogInv, TypeOK
  <2>1. log[t][i] \in Message /\ log[t][i] # Push(k)
    BY <2>0 DEF Deliver
  <2>2. log[t][i].n # k
    BY <2>1, <1>0, PushExt
  <2>3. log[t][i].n \in 1..k
    BY DEF LogInv, OnlyOthers
  <2> QED BY <2>2, <2>3, <1>0
<1>4. InOrder'
  <2> SUFFICES ASSUME NEW s \in Sessions,
                      NEW i \in 1..Len(log'[s]), NEW j \in 1..Len(log'[s]),
                      i < j, log'[s][i].kind = "push", log'[s][j].kind = "push"
               PROVE  log'[s][i].n < log'[s][j].n
    BY DEF InOrder
  <2>1. CASE s # t
    BY <2>1, <1>2 DEF LogInv, InOrder
  <2>2. CASE s = t /\ j \in 1..Len(log[t])
    <3>1. i \in 1..Len(log[t])
      BY <2>2, <1>2
    <3> QED BY <2>2, <3>1, <1>2 DEF LogInv, InOrder
  <2>3. CASE s = t /\ j = Len(log[t]) + 1
    <3>1. i \in 1..Len(log[t])
      BY <2>3, <1>2
    <3> QED BY <2>3, <3>1, <1>0, <1>2, <1>3
  <2> QED BY <2>1, <2>2, <2>3, <1>2
<1>5. OnlyOthers'
  BY <1>0, <1>2 DEF LogInv, OnlyOthers, Deliver
<1> QED BY <1>1, <1>4, <1>5 DEF LogInv

\* In every behaviour of PushLog events appear in publication order, at most
\* once, and never in the log of the session that caused them.
THEOREM LogSafe == Spec => [](InOrder /\ OnlyOthers)
<1>1. LogInv /\ [Next]_absVars => LogInv'
  <2> SUFFICES ASSUME LogInv, [Next]_absVars PROVE LogInv'
    OBVIOUS
  <2>1. CASE \E s \in Sessions : Publish(s)
    BY <2>1, PublishInv
  <2>2. CASE \E s \in Sessions : Deliver(s)
    BY <2>2, DeliverInv
  <2>3. CASE \E s \in Sessions : AddControl(s)
    BY <2>3, ControlInv
  <2>4. CASE UNCHANGED absVars
    BY <2>4 DEF absVars, LogInv, TypeOK, InOrder, OnlyOthers
  <2> QED BY <2>1, <2>2, <2>3, <2>4 DEF Next
<1>2. LogInv => InOrder /\ OnlyOthers
  BY DEF LogInv
<1> QED BY InitInv, <1>1, <1>2, PTL DEF Spec
=============================================================================
