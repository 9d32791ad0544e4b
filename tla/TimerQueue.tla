------------------------------ MODULE TimerQueue -----------------------------
(***************************************************************************)
(* The timers of an io_service: a queue sorted by expiry, the earliest     *)
(* last, that the worker empties from the end and sleeps by, and that any  *)
(* thread may add to or take from.  expired() is asked of current_time_,   *)
(* the time at the top of the worker's loop.                               *)
(***************************************************************************)
EXTENDS Integers, Sequences, SequencesExt

CONSTANTS Timers,
          Durs,     \* durations
          MaxTime,  \* bound: the clock
          MaxWait,  \* yasio__max_wait_usec
          Rearms,   \* other threads set a timer again that is in the queue
          Cancels   \* other threads and callbacks cancel timers

TimerAssumption ==
  /\ Durs \subseteq Nat \ {0} /\ MaxTime \in Nat /\ MaxWait \in Nat
  /\ Rearms \in BOOLEAN /\ Cancels \in BOOLEAN

VARIABLES now, current_time_,
          expire_time_, duration_,
          timer_queue_,
          wk,        \* where the worker is: top, wait, poll, timers, again (a callback goes on)
          deadline,  \* when its poll times out
          wake,      \* the interrupter is set
          user,      \* the timer another thread has set and not yet queued, if any
          armed,     \* timers queued and not cancelled since
          fault      \* a callback came early, or after a cancel
time == <<now, current_time_>>
timer == <<expire_time_, duration_>>
vars == <<time, timer, timer_queue_, wk, deadline, wake, user, armed, fault>>

Init == /\ now = 0 /\ current_time_ = 0
        /\ expire_time_ = [t \in Timers |-> 0] /\ duration_ = [t \in Timers |-> 0]
        /\ timer_queue_ = <<>> /\ wk = "top" /\ deadline = 0 /\ wake = FALSE
        /\ user = {} /\ armed = {} /\ fault = {}

Queued(q) == ToSet(q)
wait_duration(t) == expire_time_[t] - current_time_
\* The form that lets a timer run a little early.
ExpiredSoon(t) == wait_duration(t) <= 1
expired(t) == wait_duration(t) <= 0

sort_timers(q, e) == SortSeq(q, LAMBDA a, b : e[a] > e[b])

expires_from_now(t, d) ==
  /\ duration_' = [duration_ EXCEPT ![t] = d]
  /\ expire_time_' = [expire_time_ EXCEPT ![t] = now + d]

\* The form that does not look for the timer.
EmplaceAlways(q, t, e) == sort_timers(Append(q, t), e)
\* The queue after async_wait, and after cancel.
schedule_timer(q, t, e) == sort_timers(IF t \in Queued(q) THEN q ELSE Append(q, t), e)
remove_timer(q, t, e) == sort_timers(SelectSeq(q, LAMBDA u : u # t), e)

\* The form that wakes nobody.
WakesNever(q, t) == FALSE
\* If the timer is earliest, wakup
Earliest(q, t) == Last(q) = t

(***************************************************************************)
(* Other threads.                                                          *)
(***************************************************************************)
Processing == wk \in {"timers", "again"}
Unlocked == ~Processing

\* expires_from_now, then async_wait, which takes the lock.
UserSets(t, d) ==
  /\ user = {} /\ (Rearms \/ t \notin Queued(timer_queue_))
  /\ expires_from_now(t, d)
  /\ user' = {t}
  /\ UNCHANGED <<time, timer_queue_, wk, deadline, wake, armed, fault>>
async_wait(t) ==
  /\ t \in user /\ Unlocked
  /\ timer_queue_' = schedule_timer(timer_queue_, t, expire_time_)
  /\ wake' = (wake \/ Earliest(timer_queue_', t))
  /\ user' = {} /\ armed' = armed \cup {t}
  /\ UNCHANGED <<time, timer, wk, deadline, fault>>

\* cancel looks at the time before it takes the lock: if the timer has expired
\* it is left to run.
cancel(t) ==
  /\ Cancels /\ user = {} /\ Unlocked /\ t \in armed
  /\ armed' = armed \ {t}
  /\ timer_queue_' = IF expired(t) THEN timer_queue_ ELSE remove_timer(timer_queue_, t, expire_time_)
  /\ wake' = (wake \/ (~expired(t) /\ timer_queue_' # <<>>))
  /\ UNCHANGED <<time, timer, wk, deadline, user, fault>>

(***************************************************************************)
(* The worker.                                                             *)
(***************************************************************************)
Top == /\ wk = "top"
       /\ current_time_' = now
       /\ wk' = "wait"
       /\ UNCHANGED <<now, timer, timer_queue_, deadline, wake, user, armed, fault>>

Least(x, y) == IF x < y THEN x ELSE y
get_timeout == IF timer_queue_ = <<>> THEN MaxWait ELSE Least(MaxWait, wait_duration(Last(timer_queue_)))

Waits == /\ wk = "wait"
         /\ wk' = IF get_timeout > 0 THEN "poll" ELSE "timers"
         /\ deadline' = IF get_timeout > 0 THEN now + get_timeout ELSE 0
         /\ UNCHANGED <<time, timer, timer_queue_, wake, user, armed, fault>>

\* poll_io returns: interrupted, or timed out.
Polled == /\ wk = "poll" /\ (wake \/ now >= deadline)
          /\ wk' = "timers" /\ wake' = FALSE /\ deadline' = 0
          /\ UNCHANGED <<time, timer, timer_queue_, user, armed, fault>>

\* One callback.  It may set or cancel another timer, and asks to be called
\* again by its value; at the end of time it does neither.
Fires(again) ==
  LET t == Last(timer_queue_)
      q == Front(timer_queue_)
      f == fault \cup (IF now < expire_time_[t] THEN {"early"} ELSE {})
                 \cup (IF t \notin armed THEN {"cancelled"} ELSE {})
      e == IF again THEN [expire_time_ EXCEPT ![t] = now + duration_[t]] ELSE expire_time_
      Back(r) == IF again THEN Append(r, t) ELSE r
      a == IF again THEN armed \cup {t} ELSE armed \ {t}
  IN  /\ Processing /\ timer_queue_ # <<>> /\ expired(t)
      /\ again => now < MaxTime
      /\ fault' = f
      /\ \/ /\ timer_queue_' = Back(q)
            /\ expire_time_' = e /\ armed' = a
            /\ UNCHANGED <<duration_, wake>>
         \/ \E u \in Timers \ (user \cup {t}), d \in Durs :
              LET eu == [e EXCEPT ![u] = now + d]
                  qu == schedule_timer(q, u, eu)
              IN  /\ now < MaxTime
                  /\ expire_time_' = eu
                  /\ duration_' = [duration_ EXCEPT ![u] = d]
                  /\ timer_queue_' = Back(qu)
                  /\ armed' = a \cup {u}
                  /\ wake' = (wake \/ Earliest(qu, u))
         \/ \E u \in armed \ (user \cup {t}) :
              /\ Cancels
              /\ timer_queue_' = Back(IF expired(u) THEN q ELSE remove_timer(q, u, expire_time_))
              /\ wake' = (wake \/ (~expired(u) /\ \E v \in Queued(q) : v # u))
              /\ armed' = a \ {u}
              /\ expire_time_' = e
              /\ UNCHANGED duration_
      /\ wk' = IF again THEN "again" ELSE wk
      /\ UNCHANGED <<time, deadline, user>>

\* Timers that were called again and went to the end stop the loop; the sort
\* that follows puts them in their place.
\* The form without that sort.
DoneUnsorted == /\ Processing
                /\ timer_queue_ # <<>> => ~expired(Last(timer_queue_))
                /\ wk' = "top"
                /\ UNCHANGED <<time, timer, timer_queue_, deadline, wake, user, armed, fault>>
Done == /\ Processing
        /\ timer_queue_ # <<>> => ~expired(Last(timer_queue_))
        /\ timer_queue_' = IF wk = "again" THEN sort_timers(timer_queue_, expire_time_) ELSE timer_queue_
        /\ wk' = "top"
        /\ UNCHANGED <<time, timer, deadline, wake, user, armed, fault>>

\* Time passes while the worker waits or is in the callbacks; the lines between
\* take none.
Tick == /\ now < MaxTime /\ (wk = "poll" \/ Processing)
        /\ now' = now + 1
        /\ UNCHANGED <<current_time_, timer, timer_queue_, wk, deadline, wake, user, armed, fault>>

Worker == Top \/ Waits \/ Polled \/ Done \/ \E again \in BOOLEAN : Fires(again)
Next == \/ \E t \in Timers, d \in Durs : now < MaxTime /\ UserSets(t, d)
        \/ \E t \in Timers : async_wait(t) \/ cancel(t)
        \/ Worker \/ Tick
Spec == Init /\ [][Next]_vars

\* The worker runs and time passes.
FairSpec == Spec /\ WF_vars(Worker) /\ WF_vars(Tick)

(***************************************************************************)
(* Properties.                                                             *)
(***************************************************************************)
\* No timer is in the queue twice: its callback would run twice.
Unique == IsInjective(timer_queue_)

\* The worker never sleeps past a timer that was queued unless it is being woken,
\* whoever added or removed timers since it looked.
NoOversleep ==
  (wk = "poll" /\ ~wake) => \A t \in Queued(timer_queue_) \ user : deadline <= expire_time_[t]

\* No callback runs before its time.
NeverEarly == "early" \notin fault

\* A timer that was cancelled does not run.
CancelStops == "cancelled" \notin fault

\* A timer whose time has come runs, even behind others that go again and again.
Due(t) == t \in Queued(timer_queue_) /\ expire_time_[t] <= now
DueFires == \A t \in Timers : Due(t) ~> ~Due(t)
=============================================================================
