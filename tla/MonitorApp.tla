----------------------------- MODULE MonitorApp -----------------------------
(***************************************************************************)
(* MonitorApp: one polling cycle after another, each going through the     *)
(* enabled instruments in order, from the fetch of the snapshots to the    *)
(* alert and the update of the alert state (monitor/app.py: _process_cycle, *)
(* _process_symbol, _handle_bad_data, _send_signal_alert,                   *)
(* _maybe_send_quality_warning, _save_notification_alert).                  *)
(*                                                                         *)
(* The program is one asyncio task.  An action is the code between two      *)
(* awaits, so the clock may move, and the process may die, wherever the     *)
(* code waits for the exchange, for SQLite or for Telegram.  Each await     *)
(* may fail in the ways Faults allows.                                      *)
(***************************************************************************)
EXTENDS SignalEngine, Sequences

CONSTANTS
    Instruments,          \* the enabled instruments, in polling order
    Readings,             \* market, funding and yield figures a fetch may give
    QualityMaxAgeMs,      \* quality.max_snapshot_age_ms
    SendDataErrors,       \* telegram.send_data_errors
    WarningCooldownMs,    \* _quality_warning_cooldown_ms
    StartTime, MaxTime,   \* the clock of the model runs between these
    MaxRestarts,          \* bound on crashes
    Faults                \* what may go wrong, a subset of FaultKinds

FaultKinds == {"fetch", "defect", "database", "telegram", "limiter", "crash"}

ASSUME AppParams ==
    /\ Instruments \in Seq(STRING) /\ Instruments # << >>
    /\ {QualityMaxAgeMs, WarningCooldownMs} \subseteq Nat
    /\ SendDataErrors \in BOOLEAN
    /\ Faults \subseteq FaultKinds

(* Schema: signals.max_snapshot_age_ms <= quality.max_snapshot_age_ms. *)
ASSUME AgeLimits == MaxSnapshotAgeMs <= QualityMaxAgeMs

(* The wall clock is far beyond 1970: a cooldown that counts from 0 is over. *)
ASSUME ClockBounds ==
    /\ {StartTime, MaxTime, MaxRestarts} \subseteq Nat
    /\ WarningCooldownMs <= StartTime

Symbols == {Instruments[i] : i \in 1 .. Len(Instruments)}

VARIABLES
    clock,          \* utc_now_ms()
    pc,             \* the await the task stands at
    idx,            \* the instrument of this cycle being processed
    store,          \* _state_store
    last_warning,   \* _last_quality_warning_ms
    work,           \* the local variables of _process_symbol
    restarts        \* crashes so far

(* History variables: what the outside world saw; the code has none of them. *)
VARIABLES
    notified,       \* when the last alert was sent or suppressed; None once
                    \* the program has lost the memory of it
    streak,         \* good evaluations in a row, restarts and bad data break it
    alerts,         \* alerts sent or suppressed since the condition last
                    \* failed; 2 stands for more
    warned          \* the quality check of the last warning that was sent or
                    \* suppressed; None once the program has lost it

app == <<pc, idx, store, last_warning, work>>
history == <<notified, streak, alerts, warned>>
vars == <<clock, app, restarts, history>>

Sym == Instruments[idx]

NoDecision == [state |-> "normal", should_alert |-> FALSE, reasons |-> {},
               confirmations |-> 0, remaining |-> 0]

NoWork == [received |-> None, reading |-> None, funding |-> FALSE,
           checked_at |-> None, base |-> NewAlertState,
           decision |-> NoDecision, result |-> None]

MayFail(fault) == fault \in Faults

(* The results of a send that the faults allow: telegram.py, send_alert. *)
SendResults == {"sent"}
    \cup (IF MayFail("telegram") THEN {"failed"} ELSE {})
    \cup (IF MayFail("limiter") THEN {"suppressed"} ELSE {})

-----------------------------------------------------------------------------
(* Start of the process, and of the process that systemd starts after it. *)
Fresh ==
    [ pc |-> "idle", idx |-> 1,
      store |-> [s \in Symbols |-> NewAlertState],
      last_warning |-> [s \in Symbols |-> 0],
      work |-> NoWork ]

Init ==
    /\ clock = StartTime
    /\ pc = Fresh.pc /\ idx = Fresh.idx /\ store = Fresh.store
    /\ last_warning = Fresh.last_warning
    /\ work = Fresh.work
    /\ restarts = 0
    /\ notified = [s \in Symbols |-> None]
    /\ streak = [s \in Symbols |-> 0]
    /\ alerts = [s \in Symbols |-> 0]
    /\ warned = [s \in Symbols |-> None]

(* Leave _process_symbol, by return or by an exception that _process_cycle  *)
(* catches: on to the next instrument, or to the end of the cycle.          *)
NextInstrument ==
    /\ IF idx = Len(Instruments)
          THEN idx' = 1 /\ pc' = "idle"
          ELSE idx' = idx + 1 /\ pc' = "fetch_market"
    /\ work' = NoWork

Count(n, cap) == IF n < cap THEN n + 1 ELSE cap

(* History: what this cycle has shown about s ends or continues its episode. *)
Observe(s, good, run) ==
    /\ streak' = [streak EXCEPT ![s] = IF good THEN run ELSE 0]
    /\ alerts' = [alerts EXCEPT ![s] = IF good THEN @ ELSE 0]

(* Mutant: the exception of one instrument ends the cycle. *)
DatabaseRaisesOut ==
    MayFail("database") /\ idx' = 1 /\ pc' = "idle" /\ work' = NoWork

(* An await on SQLite raised. *)
DatabaseRaises == MayFail("database") /\ NextInstrument

-----------------------------------------------------------------------------
(* The next pass of the while loop of run: _process_cycle begins. *)
StartCycle ==
    /\ pc = "idle"
    /\ pc' = "fetch_market"
    /\ UNCHANGED <<clock, idx, store, last_warning, work, restarts,
                   history>>

(* The adapter stamps received_at_ms before it asks for the tickers. *)
FetchMarket ==
    /\ pc = "fetch_market"
    /\ \/ \E reading \in Readings :
             work' = [work EXCEPT !.received = clock, !.reading = reading]
       \/ MayFail("fetch") /\ UNCHANGED work
    /\ pc' = "fetch_funding"
    /\ UNCHANGED <<clock, idx, store, last_warning, restarts, history>>

FetchFunding ==
    /\ pc = "fetch_funding"
    /\ \/ work' = [work EXCEPT !.funding = TRUE]
       \/ MayFail("fetch") /\ UNCHANGED work
    /\ pc' = "quality"
    /\ UNCHANGED <<clock, idx, store, last_warning, restarts, history>>

(* quality_report_from_errors, or check_symbol_quality of what was fetched. *)
QualityOk(defect) ==
    /\ work.received # None
    /\ work.funding
    /\ clock - work.received <= QualityMaxAgeMs
    /\ ~defect

(* The report and the snapshots that exist are saved before the report is   *)
(* acted upon.                                                              *)
CheckQuality ==
    /\ pc = "quality"
    /\ \E defect \in IF MayFail("defect") THEN BOOLEAN ELSE {FALSE} :
          /\ \/ /\ work' = [work EXCEPT !.checked_at = clock]
                /\ pc' = IF QualityOk(defect) THEN "metrics" ELSE "bad_data"
                /\ UNCHANGED idx
             \/ DatabaseRaises
          /\ Observe(Sym, QualityOk(defect), streak[Sym])
    /\ UNCHANGED <<clock, store, last_warning, restarts, notified, warned>>

SaveMetrics ==
    /\ pc = "metrics"
    /\ \/ pc' = "evaluate" /\ UNCHANGED <<idx, work>>
       \/ DatabaseRaises
    /\ UNCHANGED <<clock, store, last_warning, restarts, history>>

-----------------------------------------------------------------------------
(* Mutant: the engine is given the time of the quality check. *)
EvaluateAtCheck ==
    /\ pc = "evaluate"
    /\ LET d == EvaluateSignal(TRUE, work.reading, work.received,
                               work.checked_at, store[Sym])
       IN  /\ work' = [work EXCEPT !.base = store[Sym], !.decision = d]
           /\ pc' = IF d.should_alert THEN "send" ELSE "update"
           /\ Observe(Sym, d.reasons = {}, Count(streak[Sym], ConfirmationCap))
    /\ UNCHANGED <<clock, idx, store, last_warning, restarts, notified,
                   warned>>

(* The engine reads the clock and the stored state here; the state it read  *)
(* is the one the update starts from, two awaits later.                     *)
Evaluate ==
    /\ pc = "evaluate"
    /\ LET d == EvaluateSignal(TRUE, work.reading, work.received, clock,
                               store[Sym])
       IN  /\ \/ /\ work' = [work EXCEPT !.base = store[Sym], !.decision = d]
                 /\ pc' = IF d.should_alert THEN "send" ELSE "update"
                 /\ UNCHANGED idx
              \/ DatabaseRaises
           /\ Observe(Sym, d.reasons = {}, Count(streak[Sym], ConfirmationCap))
    /\ UNCHANGED <<clock, store, last_warning, restarts, notified, warned>>

(* Mutants: a failed alert takes the status of its delivery for its state,  *)
(* or leaves the signal active.                                             *)
AfterSendStatus(d, result) ==
    IF result = "sent" THEN d
    ELSE [d EXCEPT !.should_alert = FALSE, !.state = result]

AfterSendKept(d, result) ==
    IF result = "sent" THEN d ELSE [d EXCEPT !.should_alert = FALSE]

(* What the update will be given: delivered, failed or suppressed. *)
AfterSend(d, result) ==
    CASE result = "sent" -> d
      [] result = "failed" ->
            [d EXCEPT !.should_alert = FALSE, !.state = "watching",
                      !.reasons = @ \cup {"notification_failed"}]
      [] result = "suppressed" ->
            [d EXCEPT !.should_alert = FALSE, !.state = "cooldown",
                      !.reasons = @ \cup {"notification_suppressed"}]

SendAlert ==
    /\ pc = "send"
    /\ \E result \in SendResults :
          /\ work' = [work EXCEPT !.result = result,
                                  !.decision = AfterSend(@, result)]
          /\ pc' = IF result = "suppressed" THEN "update" ELSE "record"
          /\ notified' = [notified EXCEPT ![Sym] =
                             IF result = "failed" THEN @ ELSE clock]
          /\ alerts' = [alerts EXCEPT ![Sym] =
                           IF result = "failed" THEN @ ELSE Count(@, 2)]
    /\ UNCHANGED <<clock, idx, store, last_warning, restarts, streak, warned>>

(* The alert row.  When it cannot be saved the exception leaves             *)
(* _process_symbol, and with it the update of the alert state.              *)
RecordAlert ==
    /\ pc = "record"
    /\ \/ pc' = "update" /\ UNCHANGED <<idx, work, notified>>
       \/ /\ DatabaseRaises
          /\ notified' = [notified EXCEPT ![Sym] =
                             IF work.result = "sent" THEN None ELSE @]
    /\ UNCHANGED <<clock, store, last_warning, restarts, streak, alerts,
                   warned>>

UpdateState ==
    /\ pc = "update"
    /\ store' = [store EXCEPT ![Sym] =
                    UpdateAlertState(work.base, work.decision, clock)]
    /\ NextInstrument
    /\ UNCHANGED <<clock, last_warning, restarts, history>>

-----------------------------------------------------------------------------
(* _handle_bad_data, with the time the quality check was made. *)
HandleBadData ==
    /\ pc = "bad_data"
    /\ LET d == InvalidDecision(store[Sym], work.checked_at)
       IN  \/ /\ store' = [store EXCEPT ![Sym] =
                              UpdateAlertState(@, d, work.checked_at)]
              /\ pc' = "warn"
              /\ UNCHANGED <<idx, work>>
           \/ DatabaseRaises /\ UNCHANGED store
    /\ UNCHANGED <<clock, last_warning, restarts, history>>

(* Mutant: a suppressed warning is not remembered, so it is due again. *)
WarningMemoryOfSent(result) ==
    IF result = "sent" THEN [last_warning EXCEPT ![Sym] = work.checked_at]
    ELSE last_warning

(* The memory of warnings after one with that result: not of a failed one. *)
WarningMemory(result) ==
    IF result = "failed" THEN last_warning
    ELSE [last_warning EXCEPT ![Sym] = work.checked_at]

WarningDue ==
    /\ SendDataErrors
    /\ work.checked_at - last_warning[Sym] >= WarningCooldownMs

SkipWarning ==
    /\ pc = "warn"
    /\ ~WarningDue
    /\ NextInstrument
    /\ UNCHANGED <<clock, store, last_warning, restarts, history>>

(* A suppressed warning is remembered at once, a sent one after its row. *)
SendWarning ==
    /\ pc = "warn"
    /\ WarningDue
    /\ \E result \in SendResults :
          /\ \/ /\ result = "suppressed"
                /\ last_warning' = WarningMemory(result)
                /\ NextInstrument
             \/ /\ result # "suppressed"
                /\ work' = [work EXCEPT !.result = result]
                /\ pc' = "record_warning"
                /\ UNCHANGED <<idx, last_warning>>
          /\ warned' = [warned EXCEPT ![Sym] =
                           IF result = "failed" THEN @ ELSE work.checked_at]
    /\ UNCHANGED <<clock, store, restarts, notified, streak, alerts>>

(* The row of the warning.  When it cannot be saved the exception leaves    *)
(* _process_symbol before the warning is remembered, sent or not.           *)
RecordWarning ==
    /\ pc = "record_warning"
    /\ \/ /\ last_warning' = WarningMemory(work.result)
          /\ NextInstrument
          /\ UNCHANGED warned
       \/ /\ DatabaseRaises
          /\ warned' = [warned EXCEPT ![Sym] =
                           IF work.result = "sent" THEN None ELSE @]
          /\ UNCHANGED last_warning
    /\ UNCHANGED <<clock, store, restarts, notified, streak, alerts>>

-----------------------------------------------------------------------------
(* Time passes while the task awaits. *)
Tick ==
    /\ clock < MaxTime
    /\ clock' = clock + 1
    /\ UNCHANGED <<app, restarts, history>>

(* The process dies at any await and systemd starts it again: everything   *)
(* MonitorApp holds is in memory.                                          *)
Restart ==
    /\ MayFail("crash")
    /\ restarts < MaxRestarts
    /\ restarts' = restarts + 1
    /\ pc' = Fresh.pc /\ idx' = Fresh.idx /\ store' = Fresh.store
    /\ last_warning' = Fresh.last_warning
    /\ work' = Fresh.work
    /\ notified' = [s \in Symbols |-> None]
    /\ streak' = [s \in Symbols |-> 0]
    /\ alerts' = [s \in Symbols |-> 0]
    /\ warned' = [s \in Symbols |-> None]
    /\ UNCHANGED clock

ProcessSymbol ==
    \/ FetchMarket \/ FetchFunding \/ CheckQuality \/ SaveMetrics
    \/ Evaluate \/ SendAlert \/ RecordAlert \/ UpdateState
    \/ HandleBadData \/ SkipWarning \/ SendWarning \/ RecordWarning

Next == StartCycle \/ ProcessSymbol \/ Tick \/ Restart

Spec == Init /\ [][Next]_vars

(* asyncio resumes the task whenever what it awaits is done, and Telegram   *)
(* does not refuse every message for ever.                                  *)
Delivers == SendAlert /\ work'.result = "sent"

FairSpec ==
    /\ Spec
    /\ WF_vars(StartCycle)
    /\ WF_vars(ProcessSymbol)
    /\ SF_vars(Delivers)

-----------------------------------------------------------------------------
(***************************************************************************)
(* Properties                                                              *)
(***************************************************************************)
Steps == {"idle", "fetch_market", "fetch_funding", "quality", "metrics",
          "evaluate", "send", "record", "update", "bad_data", "warn",
          "record_warning"}

Work == [received: Nat \cup {None}, reading: Readings \cup {None},
         funding: BOOLEAN, checked_at: Nat \cup {None}, base: AlertState,
         decision: Decision, result: {"sent", "failed", "suppressed", None}]

(* Every variable has its type: the state of MonitorApp and its store. *)
TypeOK ==
    /\ clock \in Nat
    /\ pc \in Steps
    /\ idx \in 1 .. Len(Instruments)
    /\ store \in [Symbols -> AlertState]
    /\ last_warning \in [Symbols -> Nat]
    /\ work \in Work
    /\ restarts \in Nat
    /\ notified \in [Symbols -> Nat \cup {None}]
    /\ streak \in [Symbols -> 0 .. ConfirmationCap]
    /\ alerts \in [Symbols -> 0 .. 2]
    /\ warned \in [Symbols -> Nat \cup {None}]

(* The program never goes to Telegram with an alert for a symbol within the *)
(* cooldown of the last one it sent, or had suppressed, and still            *)
(* remembers: the cooldown the engine read before the awaits still stands    *)
(* when the message goes out (app.py, _process_symbol).                      *)
AlertSpacing ==
    pc = "send" => \/ notified[Sym] = None
                   \/ clock - notified[Sym] >= CooldownMs

(* An alert goes out only after min_consecutive_confirmations evaluations    *)
(* in a row that met every check, with no bad data and no restart between   *)
(* them (engine.py, confirmations; app.py, _handle_bad_data).               *)
ConfirmedAlert == pc = "send" => streak[Sym] >= MinConfirmations

(* A symbol whose alert went out is not alerted again before its condition   *)
(* has failed once (engine.py, was_active).                                  *)
OneAlertPerEpisode ==
    RepeatAlertWhileActive \/ \A s \in Symbols : alerts[s] <= 1

(* The same from the other side: a signal that is active was alerted when   *)
(* it became so ("alert once when signal becomes active", engine.py:69).    *)
AlertedWhenActive ==
    \A s \in Symbols : store[s].state = "signal_active" => alerts[s] > 0

(* What the store holds fits together whatever went wrong on the way there: *)
(* a cooldown has an alert behind it, an active signal its confirmations    *)
(* and a start, a signal that is not active no start (state.py).            *)
StoreConsistent ==
    \A s \in Symbols :
        LET st == store[s]
        IN  /\ st.state = "cooldown" => st.last_alert # None
            /\ st.state \in ActiveStates <=> st.started # None
            /\ st.state \in ActiveStates => st.confirmations >= MinConfirmations
            /\ st.state \in {"normal", "data_invalid"} => st.confirmations = 0

(* An alert is decided on a snapshot that is fresh at the time of the       *)
(* decision, however long the saves before it took (engine.py, check 2).    *)
FreshDecision ==
    [][pc = "evaluate" /\ pc' = "send" =>
          work.received <= clock /\ clock - work.received <= MaxSnapshotAgeMs]_vars

(* Bad data resets the symbol ("State is reset to DATA_INVALID", app.py,    *)
(* _handle_bad_data).                                                       *)
InvalidDataResets ==
    [][pc = "bad_data" /\ pc' # pc /\ restarts' = restarts =>
          store'[Sym].state = "data_invalid"]_vars

(* Between the quality check of a warning that was sent or suppressed and   *)
(* the check of the next one the program goes to Telegram with for the same  *)
(* symbol the local cooldown passes, unless the program lost the first: at a *)
(* restart, and when a warning was sent and its row could not be saved       *)
(* (app.py, _maybe_send_quality_warning: the row before the memory).         *)
(* Failed warnings are not spaced.                                          *)
WarningSpacing ==
    [][SendWarning =>
          \/ warned[Sym] = None
          \/ work.checked_at - warned[Sym] >= WarningCooldownMs]_vars

(* One instrument's failures never keep another from being polled           *)
(* (app.py, _process_cycle: the exception stays with its symbol).           *)
EveryInstrumentPolled ==
    \A s \in Symbols : []<>(pc = "fetch_market" /\ Sym = s)

(* The save of a snapshot, of the metrics, of a decision or of an alert     *)
(* raises.                                                                  *)
SaveFails ==
    /\ pc \in {"quality", "metrics", "evaluate", "record", "bad_data"}
    /\ DatabaseRaises
    /\ UNCHANGED <<store, restarts>>

(* A failed alert is retried until it is dealt with, or the condition fails, *)
(* or bad data or a restart ends the episode ("allow retry on next cycle"), *)
(* unless the database keeps failing for ever.                              *)
FailedAlertRetried ==
    <>[][~SaveFails]_vars =>
        \A s \in Symbols :
            (pc = "record" /\ Sym = s /\ work.result = "failed")
                ~> (alerts[s] > 0 \/ streak[s] = 0)

(* What the pipeline promises the reader of the channel, as a machine of    *)
(* its own.  An episode is dealt with once its alert is sent or suppressed  *)
(* and the program has not lost the memory of it.                           *)
Policy == INSTANCE AlertPolicy WITH
              last <- notified,
              dealt <- [s \in Symbols |-> alerts[s] > 0 /\ notified[s] # None]

(* MonitorApp implements AlertPolicy, whatever fails. *)
ImplementsPolicy == Policy!Spec
=============================================================================
