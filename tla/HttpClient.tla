----------------------------- MODULE HttpClient -----------------------------
(***************************************************************************)
(* The HTTP client of the yasio extensions: requests sent on the caller's  *)
(* thread, a fixed set of channels served by the io_service's worker, the  *)
(* pending and finished queues between them, redirects, the read timeout,  *)
(* and the reference counts of the responses.  What the io_service's       *)
(* events report is taken from the channel's promise (IoChannel); the HTTP *)
(* parser (llhttp) is external.                                            *)
(***************************************************************************)
EXTENDS Integers, SequencesExt

CONSTANTS Requests,      \* each is sent once
          Sync,          \* the requests sent by sendSync
          BadUrl,        \* the requests whose URL does not parse
          Channels,      \* 0 .. MAX_CHANNELS - 1
          OnWorker,      \* _dispatchOnWorkThread
          MaxRedirects,  \* MAX_REDIRECT_COUNT
          Kept,          \* what the clear predicate would keep
          MayClear,      \* clearResponseQueue may be called
          None

HttpAssumption == /\ Sync \cup BadUrl \cup Kept \subseteq Requests
                  /\ None \notin Requests \cup Channels
                  /\ MaxRedirects \in Nat /\ {OnWorker, MayClear} \subseteq BOOLEAN

VARIABLES todo,      \* requests not sent yet
          pending,   \* _pendingResponseQueue
          finished,  \* _finishedResponseQueue
          avail,     \* _availChannelQueue
          ud,        \* the response in a channel's ud_.ptr
          chan,      \* the channel: "closed", "opening" or "open"
          closing,   \* close was asked for
          timer,     \* the user timer waits for the read timeout
          resp,      \* the fields of each response
          refs,      \* _refCount
          freed,     \* history: times a response was deleted
          heard,     \* history: times a response reached its caller
          promised,  \* requests whose promise has its value
          cleared,   \* history: responses dropped by clearResponseQueue
          main,      \* the caller's thread: where it is, with which response
          worker     \* the worker: where it is, with which response and channel

vars == <<todo, pending, finished, avail, ud, chan, closing, timer, resp, refs, freed, heard, promised, cleared, main, worker>>
queues == <<pending, finished, avail>>
links == <<ud, chan, closing, timer>>
counts == <<refs, freed>>

Fresh == [code |-> -1, sent |-> -1, finished |-> FALSE, internal |-> "none", redirects |-> 0]
Idle == [at |-> "idle", r |-> None, c |-> None]

Init == /\ todo = Requests /\ pending = <<>> /\ finished = <<>>
        /\ avail = SetToSeq(Channels)
        /\ ud = [c \in Channels |-> None] /\ chan = [c \in Channels |-> "closed"]
        /\ closing = [c \in Channels |-> FALSE] /\ timer = [c \in Channels |-> FALSE]
        /\ resp = [r \in Requests |-> Fresh]
        /\ refs = [r \in Requests |-> 0] /\ freed = [r \in Requests |-> 0]
        /\ heard = [r \in Requests |-> 0] /\ promised = {} /\ cleared = {}
        /\ main = Idle /\ worker = Idle

\* Mutant: the reference is kept.
Holds(r) == UNCHANGED <<refs, freed>>

\* release: the decrement, and then the test.
Dec(r) == refs' = [refs EXCEPT ![r] = @ - 1] /\ UNCHANGED freed
Test(r) == /\ IF refs[r] = 0
              THEN freed' = [freed EXCEPT ![r] = @ + 1] /\ resp' = [resp EXCEPT ![r] = Fresh]
              ELSE UNCHANGED <<freed, resp>>
           /\ UNCHANGED refs

\* A response takes a channel.
Takes(c, r) == /\ ud' = [ud EXCEPT ![c] = r] /\ chan' = [chan EXCEPT ![c] = "opening"]

\* finishResponse hands a response over.
Over(r) == CASE r \in Sync -> promised' = promised \cup {r} /\ UNCHANGED <<finished, heard>>
             [] r \notin Sync /\ OnWorker -> heard' = [heard EXCEPT ![r] = @ + 1] /\ UNCHANGED <<finished, promised>>
             [] OTHER -> finished' = Append(finished, r) /\ UNCHANGED <<heard, promised>>
Calls(r) == r \notin Sync /\ OnWorker

-----------------------------------------------------------------------------
(* The caller's thread.                                                    *)

\* send: new response (1), retained by processResponse (2).
Send(r) == /\ main.at = "idle" /\ r \in todo /\ todo' = todo \ {r}
           /\ CASE r \in BadUrl ->
                     /\ Over(r)
                     /\ refs' = [refs EXCEPT ![r] = IF Calls(r) THEN 1 ELSE 2]
                     /\ main' = [Idle EXCEPT !.at = "release", !.r = r]
                     /\ UNCHANGED <<pending, avail, links>>
                [] r \notin BadUrl /\ avail # <<>> ->
                     /\ Takes(Head(avail), r) /\ avail' = Tail(avail)
                     /\ refs' = [refs EXCEPT ![r] = 2]
                     /\ main' = [Idle EXCEPT !.at = "release", !.r = r]
                     /\ UNCHANGED <<pending, finished, closing, timer, heard, promised>>
                [] OTHER ->
                     /\ refs' = [refs EXCEPT ![r] = 2]
                     /\ main' = [Idle EXCEPT !.at = "push", !.r = r]
                     /\ UNCHANGED <<queues, links, heard, promised>>
           /\ UNCHANGED <<resp, freed, cleared, worker>>

Push == /\ main.at = "push" /\ pending' = Append(pending, main.r)
        /\ main' = [main EXCEPT !.at = "release"]
        /\ UNCHANGED <<todo, finished, avail, links, resp, counts, heard, promised, cleared, worker>>

MainReleases == /\ main.at \in {"release", "drop"} /\ Dec(main.r)
                /\ main' = [main EXCEPT !.at = IF @ = "release" THEN "test" ELSE "last"]
                /\ UNCHANGED <<todo, queues, links, resp, heard, promised, cleared, worker>>

MainTests == /\ main.at \in {"test", "last"} /\ Test(main.r)
             /\ main' = IF main.at = "test" /\ main.r \in Sync THEN [main EXCEPT !.at = "wait"] ELSE Idle
             /\ UNCHANGED <<todo, queues, links, heard, promised, cleared, worker>>

\* sendSync returns the response, which its caller releases.
Wait == /\ main.at = "wait" /\ main.r \in promised
        /\ heard' = [heard EXCEPT ![main.r] = @ + 1]
        /\ main' = [main EXCEPT !.at = "drop"]
        /\ UNCHANGED <<todo, queues, links, resp, counts, promised, cleared, worker>>

\* dispatch: one finished response.
Dispatch == /\ main.at = "idle" /\ ~OnWorker /\ finished # <<>>
            /\ finished' = Tail(finished)
            /\ heard' = [heard EXCEPT ![Head(finished)] = @ + 1]
            /\ main' = [Idle EXCEPT !.at = "drop", !.r = Head(finished)]
            /\ UNCHANGED <<todo, pending, avail, links, resp, counts, promised, cleared, worker>>

\* clearResponseQueue, with an empty predicate whatever was set.
ClearQueue(gone) ==
  /\ refs' = [r \in Requests |-> IF r \in gone THEN refs[r] - 1 ELSE refs[r]]
  /\ freed' = [r \in Requests |-> IF r \in gone /\ refs[r] = 1 THEN freed[r] + 1 ELSE freed[r]]

ClearResponseQueue ==
  LET gone == ToSet(pending) \cup ToSet(finished)
  IN /\ MayClear /\ main.at = "idle" /\ gone # {}
     /\ pending' = <<>> /\ finished' = <<>> /\ cleared' = cleared \cup gone
     /\ ClearQueue(gone)
     /\ UNCHANGED <<todo, avail, links, resp, heard, promised, main, worker>>

-----------------------------------------------------------------------------
(* The worker: handleNetworkEvent.                                         *)

WorkerFrame == UNCHANGED <<todo, queues, counts, heard, promised, cleared, main>>

\* Mutant: no read timeout.
NoTimeout(c) == UNCHANGED timer

ReadTimer(c) == timer' = [timer EXCEPT ![c] = TRUE]

\* YEK_ON_OPEN: the request is written and the read timeout starts.
Opened(c) == /\ worker = Idle /\ chan[c] = "opening" /\ chan' = [chan EXCEPT ![c] = "open"]
             /\ ReadTimer(c) /\ UNCHANGED <<ud, closing, resp, worker>> /\ WorkerFrame

\* YEK_ON_PACKET ends the message, or cannot be parsed (code -1).
Packet(c, code) == /\ worker = Idle /\ chan[c] = "open" /\ ~resp[ud[c]].finished
                   /\ resp[ud[c]].sent = -1
                   /\ resp' = [resp EXCEPT ![ud[c]] = [@ EXCEPT !.code = code, !.sent = code, !.finished = TRUE,
                                                  !.internal = IF @ = "none" THEN "eof" ELSE @]]
                   /\ closing' = [closing EXCEPT ![c] = TRUE]
                   /\ UNCHANGED <<ud, chan, timer, worker>> /\ WorkerFrame

\* YEK_ON_PACKET with all of a message whose body lasts until the close.
Body(c, code) == /\ worker = Idle /\ chan[c] = "open" /\ ~resp[ud[c]].finished
                 /\ resp[ud[c]].sent = -1
                 /\ resp' = [resp EXCEPT ![ud[c]].sent = code]
                 /\ UNCHANGED <<links, worker>> /\ WorkerFrame

ReadTimeout(c) == /\ worker = Idle /\ timer[c] /\ timer' = [timer EXCEPT ![c] = FALSE]
                  /\ resp' = [resp EXCEPT ![ud[c]].internal = IF @ = "none" THEN "timeout" ELSE @]
                  /\ closing' = [closing EXCEPT ![c] = TRUE]
                  /\ UNCHANGED <<ud, chan, worker>> /\ WorkerFrame

\* tryRedirect and setLocation.
MayRedirect(r) == resp[r].code \in {301, 302, 307} /\ resp[r].redirects < MaxRedirects

Located(r) == [Fresh EXCEPT !.redirects = resp[r].redirects + 1]

\* Mutant: the read timer is left running.
TimerRuns(c) == UNCHANGED timer

TimerCancelled(c) == timer' = [timer EXCEPT ![c] = FALSE]

\* handleNetworkEOF, after YEK_ON_CLOSE or a failed YEK_ON_OPEN.
HandleEof(c) ==
  /\ worker = Idle /\ closing' = [closing EXCEPT ![c] = FALSE] /\ TimerCancelled(c)
  /\ \/ /\ MayRedirect(ud[c]) /\ Takes(c, ud[c])
        /\ resp' = [resp EXCEPT ![ud[c]] = Located(ud[c])]
        /\ UNCHANGED worker
     \/ /\ resp' = [resp EXCEPT ![ud[c]].internal = IF @ = "none" THEN "closed" ELSE @]
        /\ worker' = [at |-> "finish", r |-> ud[c], c |-> c]
        /\ ud' = [ud EXCEPT ![c] = None] /\ chan' = [chan EXCEPT ![c] = "closed"]
  /\ WorkerFrame

Eof(c) == (chan[c] = "opening" \/ closing[c]) /\ HandleEof(c)
PeerCloses(c) == chan[c] = "open" /\ ~closing[c] /\ HandleEof(c)

FinishResponse == /\ worker.at = "finish" /\ Over(worker.r)
                  /\ worker' = [worker EXCEPT !.at = IF Calls(worker.r) THEN "release" ELSE "next"]
                  /\ UNCHANGED <<todo, pending, avail, links, resp, counts, cleared, main>>

WorkerReleases == /\ worker.at = "release" /\ Dec(worker.r) /\ worker' = [worker EXCEPT !.at = "test"]
                  /\ UNCHANGED <<todo, queues, links, resp, heard, promised, cleared, main>>
WorkerTests == /\ worker.at = "test" /\ Test(worker.r) /\ worker' = [worker EXCEPT !.at = "next"]
               /\ UNCHANGED <<todo, queues, links, heard, promised, cleared, main>>

\* Mutants: the channel is recycled although a response takes it over; the
\* pending response stays in the queue.
RecycleAlways(c) == avail' = <<c>> \o avail
Unpopped == pending

Popped == Tail(pending)

Recycle(c) == avail' = IF pending = <<>> THEN <<c>> \o avail ELSE avail

\* The first pending response takes the channel over, or it is recycled.
NextPending == /\ worker.at = "next" /\ worker' = Idle /\ Recycle(worker.c)
               /\ IF pending # <<>> THEN Takes(worker.c, Head(pending)) /\ pending' = Popped
                  ELSE UNCHANGED <<ud, chan, pending>>
               /\ UNCHANGED <<todo, finished, closing, timer, resp, counts, heard, promised, cleared, main>>

Main == (\E r \in Requests : Send(r)) \/ Push \/ MainReleases \/ MainTests \/ Wait \/ Dispatch
Peer == \E c \in Channels : \/ PeerCloses(c) \/ Body(c, 200)
                            \/ \E code \in {-1, 200, 302} : Packet(c, code)
Worker == \/ \E c \in Channels : Opened(c) \/ ReadTimeout(c) \/ Eof(c)
          \/ FinishResponse \/ WorkerReleases \/ WorkerTests \/ NextPending
Next == Main \/ ClearResponseQueue \/ Worker \/ Peer

Spec == Init /\ [][Next]_vars
FairSpec == Spec /\ WF_vars(Main) /\ WF_vars(Worker)

-----------------------------------------------------------------------------
Count(q, x) == Cardinality({i \in DOMAIN q : q[i] = x})
Has(b) == IF b THEN 1 ELSE 0

\* Every channel is at all times in exactly one place: available, occupied by
\* a response, or in the hands of the worker.
ChannelsConserved ==
  \A c \in Channels : Count(avail, c) + Has(ud[c] # None) + Has(worker.c = c) = 1

\* A response is in one place at a time, and none that is still in use has
\* been deleted; none is deleted twice.
UsedAlive ==
  \A r \in Requests :
    LET uses == Count(pending, r) + Count(finished, r) + Cardinality({c \in Channels : ud[c] = r})
    IN uses <= 1 /\ freed[r] <= 1 /\ (uses = 1 => freed[r] = 0)

\* When everything is done every response has been deleted: heard by its
\* caller, exactly once, or cleared from a queue.
NoneLeaked ==
  (todo = {} /\ main = Idle /\ worker = Idle /\ pending = <<>> /\ finished = <<>>
     /\ \A c \in Channels : ud[c] = None)
  => \A r \in Requests : freed[r] = 1 /\ heard[r] = (IF r \in cleared THEN 0 ELSE 1)

\* The read timeout runs only for the connection of a response.
TimersBelong == \A c \in Channels : timer[c] => chan[c] = "open"

\* Every request sent is answered.
Asked(r) == r \notin todo
Heard(r) == heard[r] = 1
AllAnswered == \A r \in Requests : Asked(r) ~> Heard(r)

\* The caller is told the status code of a message that arrived completely.
CodeReported == \A r \in Requests : heard[r] = 1 /\ freed[r] = 0 /\ resp[r].sent # -1 => resp[r].code = resp[r].sent

\* Responses the predicate would keep are not cleared.
PredicateHonoured == cleared \cap Kept = {}
=============================================================================
