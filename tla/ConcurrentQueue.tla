--------------------------- MODULE ConcurrentQueue ---------------------------
(***************************************************************************)
(* privacy::concurrent_queue.  Dual: any thread adds events; one thread,   *)
(* the dispatcher, takes them all over into deal_ and handles them, and a  *)
(* handler may add events or dispatch itself.  Not dual: the reader peeks, *)
(* which locks, and pops.  empty() reads the queue without the mutex: next *)
(* to an emplace it may answer anything.                                   *)
(***************************************************************************)
EXTENDS Integers, SequencesExt, FiniteSets

CONSTANTS Producers, Dual,
          none,
          MaxEvents, MaxDepth,  \* bounds: events, and dispatches within handlers
          Counts                \* what dispatch is asked for

VARIABLES queue_, deal_,
          mtx_,       \* who holds the mutex
          made,       \* events made so far; event i is the i-th to be added
          handled,    \* history: events whose handler was called
          cleared,    \* history: events dropped by clear
          calls,      \* the dispatcher's calls of consume: [pc, count, asked, did]
          peek_       \* the reader of a queue that is not dual: where it is
vars == <<queue_, deal_, mtx_, made, handled, cleared, calls, peek_>>

Init == /\ queue_ = <<>> /\ deal_ = <<>> /\ mtx_ = none
        /\ made = 0 /\ handled = <<>> /\ cleared = {}
        /\ calls = <<>> /\ peek_ = "out"

(***************************************************************************)
(* emplace: the mutex is held while the event is added                     *)
(***************************************************************************)
Emplaces(p) == /\ mtx_ = none /\ made < MaxEvents /\ mtx_' = p
               /\ UNCHANGED <<queue_, deal_, made, handled, cleared, calls, peek_>>
Emplaced(p) == /\ mtx_ = p /\ mtx_' = none
               /\ queue_' = Append(queue_, made + 1) /\ made' = made + 1
               /\ UNCHANGED <<deal_, handled, cleared, calls, peek_>>
\* What empty() may answer: the truth, or anything while an emplace is under way.
Empty == {queue_ = <<>>} \cup (IF mtx_ \in Producers THEN BOOLEAN ELSE {})

(***************************************************************************)
(* consume, by the dispatcher; the last element of calls is the innermost  *)
(***************************************************************************)
Top == calls[Len(calls)]
At(s) == Len(calls) > 0 /\ Top.pc = s
Sets(r) == calls' = [calls EXCEPT ![Len(calls)] = r]

\* At top level, or out of a handler.
consume(n) == /\ Dual /\ (calls = <<>> \/ (At("func") /\ Len(calls) < MaxDepth))
              /\ calls' = Append(calls, [pc |-> "look", count |-> n, asked |-> n, did |-> 0])
              /\ UNCHANGED <<queue_, deal_, mtx_, made, handled, cleared, peek_>>
\* The form that takes new events over whatever is left in deal_.
LooksAlways == /\ At("look")
               /\ \E e \in Empty : Sets([Top EXCEPT !.pc = IF e THEN "loop" ELSE "swap"])
               /\ UNCHANGED <<queue_, deal_, mtx_, made, handled, cleared, peek_>>
\* The form that gives up as soon as deal_ is empty.
LooksOnce == /\ At("look")
             /\ Sets([Top EXCEPT !.pc = IF deal_ # <<>> THEN "loop" ELSE "end"])
             /\ UNCHANGED <<queue_, deal_, mtx_, made, handled, cleared, peek_>>
Looks == /\ At("look")
         /\ IF deal_ # <<>> THEN Sets([Top EXCEPT !.pc = "loop"])
            ELSE \E e \in Empty : Sets([Top EXCEPT !.pc = IF e THEN "end" ELSE "swap"])
         /\ UNCHANGED <<queue_, deal_, mtx_, made, handled, cleared, peek_>>
Swaps == /\ At("swap") /\ mtx_ = none
         /\ queue_' = deal_ /\ deal_' = queue_ /\ Sets([Top EXCEPT !.pc = "loop"])
         /\ UNCHANGED <<mtx_, made, handled, cleared, peek_>>
More(c) == c.count > 0
\* Pops the event and calls the handler with it.
Handles == /\ At("loop") /\ More(Top) /\ deal_ # <<>>
           /\ handled' = Append(handled, Head(deal_)) /\ deal_' = Tail(deal_)
           /\ Sets([Top EXCEPT !.pc = "func", !.count = @ - 1, !.did = @ + 1])
           /\ UNCHANGED <<queue_, mtx_, made, cleared, peek_>>
\* The handler adds an event itself.
HandlerEmplaces == /\ At("func") /\ mtx_ = none /\ made < MaxEvents
                   /\ queue_' = Append(queue_, made + 1) /\ made' = made + 1
                   /\ UNCHANGED <<deal_, mtx_, handled, cleared, calls, peek_>>
HandlerReturns == /\ At("func") /\ Sets([Top EXCEPT !.pc = "loop"])
                  /\ UNCHANGED <<queue_, deal_, mtx_, made, handled, cleared, peek_>>
Returns == /\ At("end") \/ (At("loop") /\ (~More(Top) \/ deal_ = <<>>))
           /\ calls' = Front(calls)
           /\ UNCHANGED <<queue_, deal_, mtx_, made, handled, cleared, peek_>>
\* clear, by the thread that dispatches.
clear == /\ calls = <<>> /\ mtx_ = none /\ peek_ # "has"
         /\ cleared' = cleared \cup ToSet(queue_) \cup ToSet(deal_)
         /\ queue_' = <<>> /\ deal_' = <<>>
         /\ UNCHANGED <<mtx_, made, handled, calls, peek_>>

(***************************************************************************)
(* peek and pop                                                            *)
(***************************************************************************)
Peeks == /\ ~Dual /\ peek_ = "out"
         /\ \E e \in Empty : peek_' = IF e THEN "out" ELSE "lock"
         /\ UNCHANGED <<queue_, deal_, mtx_, made, handled, cleared, calls>>
\* The form that does not look again under the mutex.
PeeksOnce == /\ peek_ = "lock" /\ mtx_ = none
             /\ peek_' = "has" /\ mtx_' = "reader"
             /\ UNCHANGED <<queue_, deal_, made, handled, cleared, calls>>
PeekLocks == /\ peek_ = "lock" /\ mtx_ = none
             /\ IF queue_ # <<>> THEN peek_' = "has" /\ mtx_' = "reader"
                ELSE peek_' = "out" /\ UNCHANGED mtx_
             /\ UNCHANGED <<queue_, deal_, made, handled, cleared, calls>>
\* The reader is through with the item and pops it.
pop == /\ peek_ = "has" /\ queue_ # <<>>
       /\ handled' = Append(handled, Head(queue_)) /\ queue_' = Tail(queue_)
       /\ peek_' = "done" /\ UNCHANGED <<deal_, mtx_, made, cleared, calls>>
\* ~concurrent_item, after pop or without.
Unpeeks == /\ peek_ \in {"has", "done"} /\ peek_' = "out" /\ mtx_' = none
           /\ UNCHANGED <<queue_, deal_, made, handled, cleared, calls>>

Dispatcher == Looks \/ Swaps \/ Handles \/ HandlerReturns \/ Returns
Next == \/ \E p \in Producers : Emplaces(p) \/ Emplaced(p)
        \/ \E n \in Counts : consume(n)
        \/ Dispatcher \/ HandlerEmplaces \/ clear
        \/ Peeks \/ PeekLocks \/ pop \/ Unpeeks
Spec == Init /\ [][Next]_vars
Dispatches == calls = <<>> /\ \E n \in Counts : consume(n)
\* dispatch is called again and again (the worker does so on every turn of its
\* loop), handlers return, and producers finish what they began.
FairSpec == /\ Spec /\ WF_vars(Dispatcher)
            /\ WF_vars(Dispatches)
            /\ \A p \in Producers : WF_vars(Emplaced(p))

(***************************************************************************)
(* Properties.                                                             *)
(***************************************************************************)
\* Events are handled in the order they were added, each once, and none is lost
\* but by clear, although two queues hold them and handlers dispatch in turn.
InOrder ==
  LET all == handled \o deal_ \o queue_ IN
  /\ \A i \in 1 .. Len(all) - 1 : all[i] < all[i + 1]
  /\ ToSet(all) = (1 .. made) \ cleared

\* The item peek returned is the front of the queue while it is held: nobody
\* cleared the queue between the look without the mutex and the one with it.
PeekedThere == peek_ = "has" => queue_ # <<>> /\ mtx_ = "reader"

\* Every event is handled, or dropped by clear, though empty() may answer wrongly.
Made(e) == made >= e
DoneWith(e) == e \in ToSet(handled) \cup cleared
Handled == \A e \in 1 .. MaxEvents : Made(e) ~> DoneWith(e)
=============================================================================
