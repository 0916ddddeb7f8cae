---------------------------- MODULE MonitorLoop ----------------------------
(***************************************************************************)
(* The life of the process around the polling cycles: MonitorApp.run, the   *)
(* heartbeat, the cleanup of the database, the wait for the next tick, the  *)
(* shutdown and close (monitor/app.py, monitor/main.py, and wait_for_stop   *)
(* and next_tick_delay_ms of monitor/utils/async_utils.py).                 *)
(*                                                                         *)
(* What a cycle does is MonitorApp's; here it is one await that ends.  The  *)
(* code reads the wall clock, which may be stepped back and corrected; the  *)
(* wait runs on the clock of the event loop, which is real.                 *)
(***************************************************************************)
EXTENDS Integers

CONSTANTS
    MarketInterval,     \* polling.market_interval_ms
    HeartbeatInterval,  \* polling.heartbeat_interval_ms
    CleanupInterval,    \* cleanup_interval_ms
    SendHeartbeats,     \* telegram.send_heartbeat
    StartTime, MaxTime, \* real time runs between these
    MaxSlack,           \* bound on how far the wall clock is behind
    MaxRestarts         \* bound on restarts by systemd

ASSUME LoopParams ==
    /\ {MarketInterval, HeartbeatInterval, CleanupInterval} \subseteq Nat \ {0}
    /\ SendHeartbeats \in BOOLEAN

(* The wall clock reads a time after 1970, however far it is behind. *)
ASSUME LoopBounds ==
    /\ {StartTime, MaxTime, MaxSlack, MaxRestarts} \subseteq Nat
    /\ StartTime > MaxSlack

VARIABLES
    clock,              \* utc_now_ms()
    real,               \* the clock of the event loop
    pc,
    stop,               \* _stop_event
    started,            \* cycle_started_ms
    now,                \* the now_ms of the heartbeat or the cleanup under way
    last_heartbeat,     \* _last_heartbeat_ms, 0 before the first
    last_cleanup,       \* _last_cleanup_ms, 0 before the first
    wake,               \* when the timeout of the wait is over
    open,               \* what close has not closed yet
    restarts

(* History: the real time of the last start of a cycle and of the last      *)
(* heartbeat sent by this process, 0 before the first.                      *)
VARIABLES cycled, beaten

time == <<clock, real>>
local == <<started, now, wake>>
lasts == <<last_heartbeat, last_cleanup>>
history == <<cycled, beaten>>
vars == <<time, pc, stop, local, lasts, open, restarts, history>>

Resources == {"exchange", "notifier", "database"}

Init ==
    /\ clock = StartTime /\ real = StartTime
    /\ pc = "loop" /\ stop = FALSE
    /\ started = 0 /\ now = 0 /\ wake = 0
    /\ last_heartbeat = 0 /\ last_cleanup = 0
    /\ open = Resources
    /\ restarts = 0
    /\ cycled = 0 /\ beaten = 0

-----------------------------------------------------------------------------
(* run: one pass of the while loop. *)
StartCycle ==
    /\ pc = "loop" /\ ~stop
    /\ pc' = "cycle"
    /\ started' = clock /\ cycled' = real
    /\ UNCHANGED <<time, stop, now, wake, lasts, open, restarts, beaten>>

(* An exception of the cycle is caught: it ends like any other. *)
CycleEnds ==
    /\ pc = "cycle"
    /\ pc' = "heartbeat"
    /\ UNCHANGED <<time, stop, local, lasts, open, restarts, history>>

(* Mutant: the heartbeat is due one unit early. *)
HeartbeatDueEarly ==
    /\ SendHeartbeats
    /\ last_heartbeat > 0 => clock - last_heartbeat >= HeartbeatInterval - 1

HeartbeatDue ==
    /\ SendHeartbeats
    /\ last_heartbeat > 0 => clock - last_heartbeat >= HeartbeatInterval

SkipHeartbeat ==
    /\ pc = "heartbeat" /\ ~HeartbeatDue
    /\ pc' = "cleanup"
    /\ UNCHANGED <<time, stop, local, lasts, open, restarts, history>>

SendHeartbeat ==
    /\ pc = "heartbeat" /\ HeartbeatDue
    /\ pc' = "beating"
    /\ now' = clock /\ beaten' = real
    /\ UNCHANGED <<time, stop, started, wake, lasts, open, restarts, cycled>>

(* Mutant: a heartbeat that was not delivered is due again at once. *)
HeartbeatEndsRetried ==
    /\ pc = "beating"
    /\ pc' = "cleanup"
    /\ last_heartbeat' \in {now, now - HeartbeatInterval}
    /\ UNCHANGED <<time, stop, local, last_cleanup, open, restarts, history>>

(* The attempt counts, whatever became of it. *)
HeartbeatEnds ==
    /\ pc = "beating"
    /\ pc' = "cleanup"
    /\ last_heartbeat' = now
    /\ UNCHANGED <<time, stop, local, last_cleanup, open, restarts, history>>

CleanupDue == last_cleanup > 0 => clock - last_cleanup >= CleanupInterval

SkipCleanup ==
    /\ pc = "cleanup" /\ ~CleanupDue
    /\ pc' = "sleep"
    /\ UNCHANGED <<time, stop, local, lasts, open, restarts, history>>

StartCleanup ==
    /\ pc = "cleanup" /\ CleanupDue
    /\ pc' = "cleaning"
    /\ now' = clock
    /\ UNCHANGED <<time, stop, started, wake, lasts, open, restarts, history>>

(* Only a cleanup that succeeds is remembered. *)
CleanupEnds ==
    /\ pc = "cleaning"
    /\ pc' = "sleep"
    /\ last_cleanup' \in {last_cleanup, now}
    /\ UNCHANGED <<time, stop, local, last_heartbeat, open, restarts, history>>

(* Mutant: the wait is as long as the interval, however long the cycle took. *)
DelayWhole == MarketInterval

(* Mutant: what the cycle took is taken off twice. *)
DelayShort ==
    IF 2 * (clock - started) >= MarketInterval THEN 0
    ELSE MarketInterval - 2 * (clock - started)

(* next_tick_delay_ms. *)
Delay ==
    IF clock - started >= MarketInterval THEN 0
    ELSE MarketInterval - (clock - started)

(* wait_for_stop: no wait at all when the stop is requested or the tick due. *)
Sleep ==
    /\ pc = "sleep"
    /\ IF stop \/ Delay = 0
          THEN pc' = "loop" /\ UNCHANGED wake
          ELSE pc' = "wait" /\ wake' = real + Delay
    /\ UNCHANGED <<time, stop, started, now, lasts, open, restarts, history>>

(* Mutant: the wait is a plain sleep. *)
WakeByTimeout ==
    /\ pc = "wait"
    /\ real >= wake
    /\ pc' = "loop"
    /\ UNCHANGED <<time, stop, local, lasts, open, restarts, history>>

Wake ==
    /\ pc = "wait"
    /\ stop \/ real >= wake
    /\ pc' = "loop"
    /\ UNCHANGED <<time, stop, local, lasts, open, restarts, history>>

-----------------------------------------------------------------------------
(* main: leave the loop and close everything, one after the other; the      *)
(* first that raises ends the process.                                      *)
Leave ==
    /\ pc = "loop" /\ stop
    /\ pc' = "close_exchange"
    /\ UNCHANGED <<time, stop, local, lasts, open, restarts, history>>

Close(step, resource, next) ==
    /\ pc = step
    /\ \/ open' = open \ {resource} /\ pc' = next
       \/ UNCHANGED open /\ pc' = "down"
    /\ UNCHANGED <<time, stop, local, lasts, restarts, history>>

CloseAll ==
    \/ Close("close_exchange", "exchange", "close_notifier")
    \/ Close("close_notifier", "notifier", "close_database")
    \/ Close("close_database", "database", "down")

(* A signal is handled while the loop awaits something. *)
Awaits == {"cycle", "beating", "cleaning", "wait", "close_exchange",
           "close_notifier"}

RequestShutdown ==
    /\ pc \in Awaits
    /\ stop' = TRUE
    /\ UNCHANGED <<time, pc, local, lasts, open, restarts, history>>

(* The process is killed, or has ended, and systemd starts it again. *)
Restart ==
    /\ restarts < MaxRestarts
    /\ restarts' = restarts + 1
    /\ pc' = "loop" /\ stop' = FALSE
    /\ started' = 0 /\ now' = 0 /\ wake' = 0
    /\ last_heartbeat' = 0 /\ last_cleanup' = 0
    /\ open' = Resources
    /\ cycled' = 0 /\ beaten' = 0
    /\ UNCHANGED time

Tick ==
    /\ real < MaxTime
    /\ real' = real + 1 /\ clock' = clock + 1
    /\ UNCHANGED <<pc, stop, local, lasts, open, restarts, history>>

StepBack ==
    /\ real - clock < MaxSlack
    /\ clock' = clock - 1
    /\ UNCHANGED <<real, pc, stop, local, lasts, open, restarts, history>>

CatchUp ==
    /\ clock < real
    /\ clock' = clock + 1
    /\ UNCHANGED <<real, pc, stop, local, lasts, open, restarts, history>>

Run ==
    \/ StartCycle \/ CycleEnds
    \/ SkipHeartbeat \/ SendHeartbeat \/ HeartbeatEnds
    \/ SkipCleanup \/ StartCleanup \/ CleanupEnds
    \/ Sleep \/ Wake
    \/ Leave \/ CloseAll

Next == Run \/ RequestShutdown \/ Restart \/ Tick \/ StepBack \/ CatchUp

Spec == Init /\ [][Next]_vars

(* Every await of the loop ends: the requests have timeouts, the statements *)
(* of SQLite a busy timeout, the wait a timeout or a stop.                  *)
FairSpec == Spec /\ WF_vars(Run)

-----------------------------------------------------------------------------
(* The state of run and of main. *)
TypeOK ==
    /\ clock \in Nat /\ real \in Nat
    /\ pc \in {"loop", "cycle", "heartbeat", "beating", "cleanup", "cleaning",
               "sleep", "wait", "close_exchange", "close_notifier",
               "close_database", "down"}
    /\ stop \in BOOLEAN
    /\ started \in Nat /\ now \in Nat /\ wake \in Nat
    /\ last_heartbeat \in Nat /\ last_cleanup \in Nat
    /\ open \subseteq Resources
    /\ restarts \in Nat
    /\ cycled \in Nat /\ beaten \in Nat

(* The wait aims at the tick, an interval after the start of the cycle: a   *)
(* clock that is set back or forward meanwhile moves it by no more than the *)
(* correction, and so does not silence the monitor (next_tick_delay_ms).    *)
WaitAimsAtTick ==
    pc = "wait" =>
        wake - (cycled + MarketInterval) \in -MaxSlack .. MaxSlack

(* The wait aims at the tick, and two cycles of a process start an interval *)
(* of real time apart, less what the wall clock was set forward in between, *)
(* however long the first took and whatever its exceptions (app.py, run;    *)
(* next_tick_delay_ms).                                                     *)
CyclePace ==
    [][/\ WaitAimsAtTick'
       /\ StartCycle /\ cycled > 0 =>
             cycled' - cycled >= MarketInterval - MaxSlack]_vars

(* Two heartbeats of a process are sent an interval of real time apart, less *)
(* what the wall clock was set forward in between, also when the first was   *)
(* not delivered or its send took long (app.py, _maybe_send_heartbeat).      *)
HeartbeatSpacing ==
    [][SendHeartbeat /\ beaten > 0 =>
          beaten' - beaten >= HeartbeatInterval - MaxSlack]_vars

(* A shutdown that is requested ends the process, wherever the request finds *)
(* it: in the middle of a cycle, in the wait, or while it closes             *)
(* (app.py, request_shutdown and run; main.py).                             *)
ShutdownCompletes == stop ~> (pc = "down" \/ ~stop)
=============================================================================
