---------------------------- MODULE MCPhone ----------------------------
(*****************************************************************************)
(* The phone: yasio_client under one patient caller, the JNI bridge,         *)
(* MainActivity under a calm user and a hasty one, and the channel and the   *)
(* service beneath them.                                                     *)
(*****************************************************************************)
EXTENDS Integers

CONSTANTS Parts,  \* the parts that a run starts
          none, c1  \* model values

VARIABLES part,   \* the part a behaviour is about
          \* its variables; those it does not have are none
          v1, v2, v3, v4, v5, v6, v7, v8, v9, v10, v11, v12, v13, v14, v15, v16, v17, v18,
          v19, v20, v21, v22, v23

all == <<part, v1, v2, v3, v4, v5, v6, v7, v8, v9, v10, v11, v12, v13, v14, v15, v16, v17, v18, v19, v20, v21, v22, v23>>

One == INSTANCE YasioClient WITH MaxChannels <- 2, MaxIds <- 3, Single <- TRUE, Patient <- TRUE,
  life <- v1, closing <- v2, told <- v3, mem <- v4, tpool <- v5, ptrs <- v6, seed <- v7, que <- v8,
  front <- v9, avail <- v10, alive <- v11, ud <- v12, host <- v13, thr <- v14, heard <- v15,
  gone <- v16, stray <- v17
Bridge == INSTANCE NativeHandle WITH Callers <- {"ui", "other"}, MaxClients <- 3, Patient <- TRUE,
  nativeHandle <- v1, obj <- v2, call <- v3, bad <- v4
Calm == INSTANCE MobileClient WITH MaxIds <- 4, Hasty <- FALSE, curStatus <- v1, isForeground <- v2,
  connectionId <- v3, shown <- v4, ui <- v5, uiq <- v6, wk <- v7, ev <- v8, seed <- v9, conn <- v10,
  evq <- v11, off <- v12, foreign <- v13
Rash == INSTANCE MobileClient WITH MaxIds <- 4, Hasty <- TRUE, curStatus <- v1, isForeground <- v2,
  connectionId <- v3, shown <- v4, ui <- v5, uiq <- v6, wk <- v7, ev <- v8, seed <- v9, conn <- v10,
  evq <- v11, off <- v12, foreign <- v13
Solo == INSTANCE IoChannel WITH Channels <- {c1}, Named <- {c1}, Fds <- 1..1, Careful <- TRUE,
  MaxOpens <- 2, state <- v1, opmask <- v2, error <- v3, sock <- v4, eps <- v5, query <- v6,
  timer <- v7, ops <- v8, trans <- v9, events <- v10, kern <- v11, reg <- v12, ready <- v13,
  busy <- v14, pc <- v15, at <- v16, saved <- v17, back <- v18, call <- v19, known <- v20,
  asked <- v21, closing <- v22, false_ok <- v23
Life == INSTANCE ServiceLife WITH Inline <- FALSE, NoDispatch <- FALSE, BadFd <- FALSE,
  Query <- TRUE, MaxOpens <- 3, state <- v1, flag <- v2, joinable <- v3, wpc <- v4, conn <- v5,
  chan <- v6, timer <- v7, opened <- v8, events <- v9, heard <- v10, spc <- v11, returned <- v12,
  rpc <- v13, wrong <- v14
NoPoll == INSTANCE ServiceLife WITH Inline <- FALSE, NoDispatch <- TRUE, BadFd <- TRUE,
  Query <- FALSE, MaxOpens <- 3, state <- v1, flag <- v2, joinable <- v3, wpc <- v4, conn <- v5,
  chan <- v6, timer <- v7, opened <- v8, events <- v9, heard <- v10, spc <- v11, returned <- v12,
  rpc <- v13, wrong <- v14
SameThread == INSTANCE ServiceLife WITH Inline <- TRUE, NoDispatch <- FALSE, BadFd <- FALSE,
  Query <- FALSE, MaxOpens <- 3, state <- v1, flag <- v2, joinable <- v3, wpc <- v4, conn <- v5,
  chan <- v6, timer <- v7, opened <- v8, events <- v9, heard <- v10, spc <- v11, returned <- v12,
  rpc <- v13, wrong <- v14

ASSUME One!ClientAssumption /\ Bridge!NativeHandleAssumption /\ Calm!MobileAssumption /\
       Rash!MobileAssumption /\ Solo!IoAssumption /\ Life!LifeAssumption /\ NoPoll!LifeAssumption /\
       SameThread!LifeAssumption

\* The variables that a part of k variables does not have, and what stays as it is.
Keep23 == UNCHANGED part
None17 == v18 = none /\ v19 = none /\ v20 = none /\ v21 = none /\ v22 = none /\ v23 = none
Keep17 == UNCHANGED <<part, v18, v19, v20, v21, v22, v23>>
None14 == v15 = none /\ v16 = none /\ v17 = none /\ None17
Keep14 == UNCHANGED <<part, v15, v16, v17, v18, v19, v20, v21, v22, v23>>
None13 == v14 = none /\ None14
Keep13 == UNCHANGED <<part, v14, v15, v16, v17, v18, v19, v20, v21, v22, v23>>
None4 == v5 = none /\ v6 = none /\ v7 = none /\ v8 = none /\ v9 = none /\ v10 = none /\ v11 = none
         /\ v12 = none /\ v13 = none /\ None13
Keep4 == UNCHANGED <<part, v5, v6, v7, v8, v9, v10, v11, v12, v13, v14, v15, v16, v17, v18, v19,
         v20, v21, v22, v23>>

Init == /\ part \in Parts
        /\ \/ part = "single" /\ One!Init /\ None17
           \/ part = "bridge" /\ Bridge!Init /\ None4
           \/ part = "calm" /\ Calm!Init /\ None13
           \/ part = "hasty" /\ Rash!Init /\ None13
           \/ part = "open" /\ Solo!Init
           \/ part = "life" /\ Life!Init /\ None14
           \/ part = "badfd" /\ NoPoll!Init /\ None14
           \/ part = "inline" /\ SameThread!Init /\ None14

Next == \/ part = "single" /\ One!Next /\ Keep17
        \/ part = "bridge" /\ Bridge!Next /\ Keep4
        \/ part = "calm" /\ Calm!Next /\ Keep13
        \/ part = "hasty" /\ Rash!Next /\ Keep13
        \/ part = "open" /\ Solo!Next /\ Keep23
        \/ part = "life" /\ Life!Next /\ Keep14
        \/ part = "badfd" /\ NoPoll!Next /\ Keep14
        \/ part = "inline" /\ SameThread!Next /\ Keep14

Spec == Init /\ [][Next]_all

\* A behaviour is about one part only, so that one condition can stand for the k-th
\* fairness condition of every part.
FairSpec ==
  /\ Spec
  /\ WF_all(\/ part = "single" /\ One!Go("app") /\ Keep17
            \/ part = "bridge" /\ Bridge!Thread(1) /\ Keep4
            \/ part = "calm" /\ (Calm!UiNumbers \/ Calm!UiConnects) /\ Keep13
            \/ part = "open" /\ Solo!Worker /\ Keep23
            \/ part = "life" /\ Life!Run /\ Keep14
            \/ part = "badfd" /\ NoPoll!Run /\ Keep14
            \/ part = "inline" /\ SameThread!Run /\ Keep14)
  /\ WF_all(\/ part = "single" /\ One!Go("io") /\ Keep17
            \/ part = "bridge" /\ Bridge!Thread(2) /\ Keep4
            \/ part = "calm" /\ Calm!UiRuns /\ Keep13
            \/ part = "open" /\ Solo!Resolves(c1) /\ Keep23
            \/ part = "life" /\ Life!Join /\ Keep14
            \/ part = "badfd" /\ NoPoll!Join /\ Keep14
            \/ part = "inline" /\ SameThread!Join /\ Keep14)
  /\ WF_all(\/ part = "single" /\ One!Handle /\ Keep17
            \/ part = "bridge" /\ Bridge!Thread(3) /\ Keep4
            \/ part = "calm" /\ (Calm!onMessage \/ Calm!WkStatus \/ Calm!WkNumbers \/ Calm!WkConnects) /\ Keep13
            \/ part = "open" /\ Solo!GoesOn("app") /\ Keep23
            \/ part = "life" /\ Life!Rest /\ Keep14
            \/ part = "badfd" /\ NoPoll!Rest /\ Keep14
            \/ part = "inline" /\ SameThread!Rest /\ Keep14)
  /\ WF_all(\/ part = "bridge" /\ Bridge!Acts("ui") /\ Keep4
            \/ part = "open" /\ Solo!GoesOn("io") /\ Keep23
            \/ part = "life" /\ Life!FinishInline /\ Keep14
            \/ part = "badfd" /\ NoPoll!FinishInline /\ Keep14
            \/ part = "inline" /\ SameThread!FinishInline /\ Keep14)
  /\ WF_all(part = "bridge" /\ Bridge!Acts("other") /\ Keep4)
  /\ SF_all(\/ part = "single" /\ One!Insert("app") /\ Keep17
            \/ part = "open" /\ Solo!Poll /\ Keep23
            \/ part = "life" /\ Life!TimerFires /\ Keep14
            \/ part = "badfd" /\ NoPoll!TimerFires /\ Keep14
            \/ part = "inline" /\ SameThread!TimerFires /\ Keep14)
  /\ SF_all(\/ part = "single" /\ One!Insert("io") /\ Keep17
            \/ part = "open" /\ Solo!Expires(c1) /\ Keep23)
  /\ SF_all(\/ part = "single" /\ One!OnOpen /\ Keep17
            \/ part = "open" /\ Solo!OpenPush("app") /\ Keep23)
  /\ SF_all(\/ part = "single" /\ One!OnEnd /\ Keep17
            \/ part = "open" /\ Solo!OpenPush("io") /\ Keep23)
  /\ SF_all(part = "single" /\ One!Answer(0) /\ Keep17)
  /\ SF_all(part = "single" /\ One!Answer(1) /\ Keep17)
  /\ SF_all(part = "single" /\ One!Closes(0) /\ Keep17)
  /\ SF_all(part = "single" /\ One!Closes(1) /\ Keep17)

-----------------------------------------------------------------------------
\* yasio_client under one patient caller: a connection that left the waiting queue, and was
\* not disconnected there, is the one some channel was opened for, or has ended; onMessage
\* hears that it failed, or that it opened and then that it closed, each once; the pool
\* gets back every channel that is not in use; and what send() writes never goes out on the
\* connection of another id.
ConnectionsKept == part = "single" => One!NoneLost /\ One!HeardInOrder /\ One!PoolComplete /\ One!NoStray

\* native-lib.cpp: no call and no callback uses a deleted client, a service that is not
\* there or a deleted reference, and the handle is zero or a client that is not deleted, if
\* stop() waits for the thread of start().
HandleSafe == part = "bridge" => Bridge!HandleSafe

\* MainActivity: there is at most one connection and it is the one whose events are heard,
\* although the UI thread and the listener both number and connect in two calls; for a
\* hasty user and a calm one, once nothing is under way curStatus and the buttons are those
\* of the connection; with a calm one the widgets are touched by the UI thread only.
ActivityTrue ==
  /\ part = "calm" => Calm!ActivityTrue
  /\ part = "hasty" => Rash!ActivityTrue

\* yasio_client: a connection that a patient caller asks for is answered, and what the
\* caller disconnects ends with an event. native-lib.cpp: stop() ends the client, whose
\* thread clears the handle and deletes it. MainActivity: in the background a connection
\* that ends is followed by another, and one that the user ended is not made again by the
\* listener.
PhoneProgress ==
  /\ [][part = "calm" => Calm!NoneWhenOff]_all
  /\ \A i \in 1..3 : (part = "single" /\ One!Newest(i)) ~> (part = "single" /\ One!HeardOf(i))
  /\ \A i \in 1..3 : (part = "single" /\ One!Closing(i)) ~> (part = "single" /\ One!Ended(i))
  /\ \A c \in 1..3 : (part = "bridge" /\ Bridge!Stopped(c)) ~> (part = "bridge" /\ Bridge!Gone(c))
  /\ \A i \in 1..4 : (part = "calm" /\ Calm!Lost(i)) ~> (part = "calm" /\ Calm!Replaced(i))

\* io_service: an open that nobody closes is answered, be it by the connect timeout; once
\* close() has seen the open socket of an OPENED channel the handler learns of the end;
\* stop() returns, whatever handlers open while it waits for the worker and also when poll
\* fails; and with YOPT_S_NO_NEW_THREAD start() returns after a stop.
ServiceEnds ==
  /\ (part = "open" /\ Solo!Unanswered(c1)) ~> (part = "open" /\ ~Solo!Unanswered(c1))
  /\ (part = "open" /\ Solo!Marking(c1)) ~> (part = "open" /\ Solo!Over(c1))
  /\ ((part = "life" /\ Life!Stopping) \/ (part = "badfd" /\ NoPoll!Stopping))
     ~> ((part = "life" /\ ~Life!Stopping) \/ (part = "badfd" /\ ~NoPoll!Stopping))
  /\ (part = "inline" /\ SameThread!Told) ~> (part = "inline" /\ SameThread!Back)
=============================================================================
