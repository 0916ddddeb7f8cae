---------------------------- MODULE RateLimiter ----------------------------
(***************************************************************************)
(* NotificationRateLimiter (monitor/notifications/rate_limiter.py): a       *)
(* sliding window of timestamps per key.  The timestamps are the now_ms the *)
(* callers pass: readings of the wall clock, which the caller may have      *)
(* taken some awaits earlier and which may be stepped back under the        *)
(* program; real is the time that really passes.                            *)
(***************************************************************************)
EXTENDS RateLimiterParams, Sequences

CONSTANT Keys

VARIABLES
    clock,      \* the now_ms of a call made now
    real,       \* history: the time that has really passed
    events,     \* _events: the timestamps of each key, oldest first
    granted     \* history: the real times of all grants since the last reset

vars == <<clock, real, events, granted>>

Init ==
    /\ clock = 0
    /\ real = 0
    /\ events = [k \in Keys |-> << >>]
    /\ granted = [k \in Keys |-> << >>]

(* Mutants: the window is one too short, or one too long. *)
ExpiresEarly(k, n) ==
    /\ \A i \in 1 .. n : events[k][i] <= clock - WindowMs + 1
    /\ n < Len(events[k]) => events[k][n + 1] > clock - WindowMs + 1

ExpiresLate(k, n) ==
    /\ \A i \in 1 .. n : events[k][i] < clock - WindowMs
    /\ n < Len(events[k]) => events[k][n + 1] >= clock - WindowMs

(* _cleanup takes expired timestamps off the head of the deque and stops at  *)
(* the first that is not: n of them go.                                      *)
Expires(k, n) ==
    /\ \A i \in 1 .. n : events[k][i] <= clock - WindowMs
    /\ n < Len(events[k]) => events[k][n + 1] > clock - WindowMs

Live(k, n) == SubSeq(events[k], n + 1, Len(events[k]))

(* Mutant: one message over the limit. *)
GrantOneMore(k) ==
    \E n \in 0 .. Len(events[k]) :
        /\ Expires(k, n)
        /\ Len(Live(k, n)) <= MaxMessages
        /\ events' = [events EXCEPT ![k] = Append(Live(k, n), clock)]
        /\ granted' = [granted EXCEPT ![k] = Append(@, real)]
        /\ UNCHANGED <<clock, real>>

Grant(k) ==
    \E n \in 0 .. Len(events[k]) :
        /\ Expires(k, n)
        /\ Len(Live(k, n)) < MaxMessages
        /\ events' = [events EXCEPT ![k] = Append(Live(k, n), clock)]
        /\ granted' = [granted EXCEPT ![k] = Append(@, real)]
        /\ UNCHANGED <<clock, real>>

(* The messages of the window use up the limit. *)
Full(k) ==
    \E n \in 0 .. Len(events[k]) :
        Expires(k, n) /\ Len(Live(k, n)) >= MaxMessages

Refuse(k) ==
    \E n \in 0 .. Len(events[k]) :
        /\ Expires(k, n)
        /\ Len(Live(k, n)) >= MaxMessages
        /\ events' = [events EXCEPT ![k] = Live(k, n)]
        /\ UNCHANGED <<clock, real, granted>>

Allow(k) == Grant(k) \/ Refuse(k)

(* remaining() only cleans up; what it returns is not part of the state. *)
Remaining(k) ==
    \E n \in 0 .. Len(events[k]) :
        /\ Expires(k, n)
        /\ events' = [events EXCEPT ![k] = Live(k, n)]
        /\ UNCHANGED <<clock, real, granted>>

Reset(k) ==
    /\ events' = [events EXCEPT ![k] = << >>]
    /\ granted' = [granted EXCEPT ![k] = << >>]
    /\ UNCHANGED <<clock, real>>

ResetAll ==
    /\ events' = [k \in Keys |-> << >>]
    /\ granted' = [k \in Keys |-> << >>]
    /\ UNCHANGED <<clock, real>>

Tick ==
    /\ real < MaxTime
    /\ real' = real + 1
    /\ clock' = clock + 1
    /\ UNCHANGED <<events, granted>>

(* The next caller took its now_ms earlier, or the wall clock is set back;  *)
(* then a caller reads it afresh, or the clock is corrected.                *)
StepBack ==
    /\ real - clock < MaxSlack
    /\ clock' = clock - 1
    /\ UNCHANGED <<real, events, granted>>

CatchUp ==
    /\ clock < real
    /\ clock' = clock + 1
    /\ UNCHANGED <<real, events, granted>>

Next ==
    \/ \E k \in Keys : Allow(k) \/ Remaining(k) \/ Reset(k)
    \/ ResetAll
    \/ Tick
    \/ StepBack
    \/ CatchUp

Spec == Init /\ [][Next]_vars

-----------------------------------------------------------------------------
(* The deques hold readings of the clock, never more than the limit. *)
TypeOK ==
    /\ clock \in Int
    /\ real \in Nat
    /\ events \in [Keys -> Seq(Int)]
    /\ granted \in [Keys -> Seq(Nat)]
    /\ \A k \in Keys : Len(events[k]) <= MaxMessages

(* In no stretch of WindowMs of real time, less what the stamps may be      *)
(* behind it, are more than MaxMessages grants given to a key: late stamps  *)
(* cost the window no more than their lateness, however many there are      *)
(* (rate_limiter.py, allow).                                                *)
WindowLimit ==
    \A k \in Keys : \A i \in 1 .. Len(granted[k]) - MaxMessages :
        granted[k][i + MaxMessages] - granted[k][i] >= WindowMs - MaxSlack

(* The limiter refuses for cause: when it would refuse, the last            *)
(* MaxMessages grants all fall within the window, lengthened by what the    *)
(* clock is behind, so a future timestamp at the head of the deque blocks a *)
(* key for a while but not for ever (rate_limiter.py, _cleanup and allow).  *)
RefusalHasCause ==
    \A k \in Keys : Full(k) =>
        /\ Len(granted[k]) >= MaxMessages
        /\ real - granted[k][Len(granted[k]) - MaxMessages + 1]
              < WindowMs + (real - clock)
=============================================================================
