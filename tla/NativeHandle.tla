----------------------------- MODULE NativeHandle ----------------------------
(***************************************************************************)
(* native-lib.cpp: the Java object TcpClient and the yasio_client its      *)
(* nativeHandle points to.  start() makes the client and a detached thread *)
(* that runs it, clears the handle when the run is over and deletes it.    *)
(* Every other call reads the handle first and uses the pointer next.      *)
(***************************************************************************)
EXTENDS Integers, FiniteSets

CONSTANTS Callers,     \* Java threads
          MaxClients,  \* bound: how often start() makes a client
          Patient      \* calls are made of a client that runs, and none beside start and stop

NativeHandleAssumption == MaxClients \in Nat /\ Patient \in BOOLEAN

Clients == 1..MaxClients
Ops == {"nextConnectionId", "connect", "disconnect", "send", "stop", "start"}
Away == [op |-> "none", c |-> 0]
NoClient == [st |-> "none", m_service |-> "wild", stop |-> FALSE, channels |-> FALSE,
             queued |-> FALSE, gref |-> FALSE]

VARIABLES nativeHandle,
          obj,    \* the clients: st is where the detached thread is
          call,   \* what each Java thread does: the call, the pointer it read
          bad     \* a deleted client, a wild m_service or a deleted reference was used
vars == <<nativeHandle, obj, call, bad>>

Init == /\ nativeHandle = 0
        /\ obj = [c \in Clients |-> NoClient]
        /\ call = [t \in Callers |-> Away]
        /\ bad = FALSE

Set(c, f, v) == [obj EXCEPT ![c][f] = v]
Now(c) == obj[c].st
Gone(c) == Now(c) = "dead"

(***************************************************************************)
(* The calls: GetLongField, then the rest.                                 *)
(***************************************************************************)
Waits(op) ==
  /\ op \in {"start", "stop"} => \A t \in Callers : call[t] = Away
  /\ \A t \in Callers : call[t].op \notin {"start", "stop"}
  /\ IF op = "start" THEN nativeHandle = 0 /\ \A c \in Clients : Now(c) \in {"none", "dead"}
     ELSE nativeHandle # 0 /\ Now(nativeHandle) = "run" /\ ~obj[nativeHandle].stop

Enters(t, op) ==
  /\ call[t] = Away
  /\ Patient => Waits(op)
  /\ op = "start" => \E c \in Clients : Now(c) = "none"
  /\ call' = IF (op = "start") = (nativeHandle = 0) THEN [call EXCEPT ![t] = [op |-> op, c |-> nativeHandle]]
             ELSE call
  /\ UNCHANGED <<nativeHandle, obj, bad>>

Leaves(t) == call' = [call EXCEPT ![t] = Away]
Uses(t, op) == call[t].op = op /\ call[t].c # 0
Touch(t, wild) == bad' = (bad \/ Gone(call[t].c) \/ wild)

nextConnectionId(t) ==
  /\ Uses(t, "nextConnectionId") /\ Leaves(t) /\ Touch(t, FALSE)
  /\ UNCHANGED <<nativeHandle, obj>>

\* connect queues the connection and takes a channel if one is there.
connect(t) ==
  LET c == call[t].c
  IN  /\ Uses(t, "connect") /\ Leaves(t) /\ Touch(t, FALSE)
      /\ obj' = IF Gone(c) THEN obj ELSE Set(c, "queued", ~obj[c].channels)
      /\ UNCHANGED nativeHandle

\* disconnect and send use m_service only for a connection that is alive.
disconnect(t) ==
  /\ Uses(t, "disconnect") /\ Leaves(t) /\ Touch(t, FALSE)
  /\ UNCHANGED <<nativeHandle, obj>>
send(t) ==
  /\ Uses(t, "send") /\ Leaves(t) /\ Touch(t, FALSE)
  /\ UNCHANGED <<nativeHandle, obj>>

\* The form that forgets the request.
StopForgets(c) == obj
\* if (m_service) m_service->stop(), which does nothing to an idle service.
StopRequest(c) == IF Now(c) = "run" THEN Set(c, "stop", TRUE) ELSE obj

\* Before start() has set it m_service holds anything.
stop(t) ==
  LET c == call[t].c
  IN  /\ Uses(t, "stop") /\ Leaves(t)
      /\ \/ Touch(t, obj[c].m_service = "wild")
         \/ obj[c].m_service = "wild" /\ Touch(t, FALSE)   \* it happened to hold null
      /\ obj' = StopRequest(c)
      /\ UNCHANGED nativeHandle

\* The form without the global reference.
MadeNoRef == [NoClient EXCEPT !.st = "new"]
Made == [NoClient EXCEPT !.st = "new", !.gref = TRUE]

\* new yasio_client, SetLongField, NewGlobalRef, std::thread(...).detach()
start(t) ==
  \E c \in Clients :
    /\ call[t].op = "start" /\ call[t].c = 0 /\ Leaves(t)
    /\ Now(c) = "none" /\ \A d \in Clients : d < c => Now(d) # "none"
    /\ obj' = [obj EXCEPT ![c] = Made]
    /\ nativeHandle' = c
    /\ UNCHANGED bad

(***************************************************************************)
(* The detached thread.                                                    *)
(***************************************************************************)
\* yasio_client::start: the service, its options and the channels; nobody is
\* told that a connection waits already.
SetsUp(c) ==
  /\ Now(c) = "new"
  /\ obj' = [obj EXCEPT ![c].st = "set", ![c].m_service = "live", ![c].channels = TRUE]
  /\ UNCHANGED <<nativeHandle, call, bad>>

\* io_service::start: from here to the end of the run this thread is the worker.
Runs(c) == /\ Now(c) = "set"
           /\ obj' = Set(c, "st", "run")
           /\ UNCHANGED <<nativeHandle, call, bad>>

\* An event: the callback calls the Java object through the global reference.
\* An event ends a connection and takes the next one off the queue.
Calls(c) == /\ Now(c) = "run"
            /\ bad' = (bad \/ ~obj[c].gref)
            /\ \/ obj' = obj
               \/ obj' = Set(c, "queued", FALSE)
            /\ UNCHANGED <<nativeHandle, call>>

Over(c) == /\ Now(c) = "run" /\ obj[c].stop
           /\ obj' = Set(c, "st", "over")
           /\ UNCHANGED <<nativeHandle, call, bad>>

\* The form that leaves the handle.
KeepsHandle(c) == /\ Now(c) = "over"
                  /\ obj' = Set(c, "st", "cleared")
                  /\ UNCHANGED <<nativeHandle, call, bad>>
\* start_client's end: SetLongField(nativeHandle, 0), whatever it holds.
Clears(c) == /\ Now(c) = "over"
             /\ obj' = Set(c, "st", "cleared")
             /\ nativeHandle' = 0
             /\ UNCHANGED <<call, bad>>

\* DeleteGlobalRef, then delete client.
Unrefs(c) == /\ Now(c) = "cleared"
             /\ obj' = [obj EXCEPT ![c].st = "unref", ![c].gref = FALSE]
             /\ UNCHANGED <<nativeHandle, call, bad>>
Deletes(c) == /\ Now(c) = "unref"
              /\ obj' = [obj EXCEPT ![c] = [NoClient EXCEPT !.st = "dead"]]
              /\ UNCHANGED <<nativeHandle, call, bad>>

Thread(c) == SetsUp(c) \/ Runs(c) \/ Over(c) \/ Clears(c) \/ Unrefs(c) \/ Deletes(c)
Acts(t) == \/ nextConnectionId(t) \/ connect(t) \/ disconnect(t) \/ send(t) \/ stop(t) \/ start(t)
Next == \/ \E t \in Callers, op \in Ops : Enters(t, op)
        \/ \E t \in Callers : Acts(t)
        \/ \E c \in Clients : Thread(c) \/ Calls(c)
Spec == Init /\ [][Next]_vars

\* The scheduler runs the detached threads and lets calls that began go on.
FairSpec == /\ Spec
            /\ \A c \in Clients : WF_vars(Thread(c))
            /\ \A t \in Callers : WF_vars(Acts(t))

(***************************************************************************)
(* Properties.                                                             *)
(***************************************************************************)
\* No call and no callback uses a deleted client, a service that is not there
\* or a deleted reference.
UsesAlive == ~bad

\* The handle is zero or a client that is not deleted, and a client that runs
\* is in the handle: it can be stopped.
HandleTrue ==
  /\ nativeHandle # 0 => ~Gone(nativeHandle)
  /\ \A c \in Clients : Now(c) \in {"new", "set", "run", "over"} => nativeHandle = c

\* No call uses what is gone, and the handle is true.
HandleSafe == UsesAlive /\ HandleTrue

\* stop() ends the client: its thread clears the handle and deletes it.
Stopped(c) == \E t \in Callers : call[t].op = "stop" /\ call[t].c = c
StopEnds == \A c \in Clients : Stopped(c) ~> Gone(c)
=============================================================================
