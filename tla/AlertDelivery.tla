---------------------------- MODULE AlertDelivery ----------------------------
(***************************************************************************)
(* MonitorApp, on the small instances of MCMonitorApp, and the rate limiter *)
(* of its notifier together: whether an alert is suppressed is no longer a  *)
(* fault of the environment but follows from the alerts the monitor tried   *)
(* to send before, delivered or not (monitor/app.py, _send_signal_alert;    *)
(* monitor/notifications/telegram.py, send_alert).                          *)
(***************************************************************************)
EXTENDS MCMonitorApp

CONSTANTS MaxMessages, WindowMs     \* of RateLimiter

VARIABLES
    events, granted,    \* of RateLimiter
    outcome             \* history: "failed" once the alert of the episode
                        \* failed, "delivered" once it was delivered

limiter == <<events, granted>>
deliveryVars == <<vars, limiter, outcome>>

(* All alerts share one key, their type; send_alert is given the current    *)
(* time.                                                                    *)
Limiter == INSTANCE RateLimiter WITH
               Keys <- {"signal"}, MaxSlack <- 0, real <- clock

NoEvents == [k \in {"signal"} |-> << >>]

DeliveryInit ==
    /\ Init
    /\ events = NoEvents /\ granted = NoEvents
    /\ outcome = [s \in Symbols |-> "none"]

(* send_alert asks the limiter first; a message it lets through counts,     *)
(* whether Telegram takes it or not.                                        *)
Send ==
    /\ SendAlert
    /\ IF work'.result = "suppressed"
          THEN Limiter!Refuse("signal") /\ UNCHANGED outcome
          ELSE /\ Limiter!Grant("signal")
               /\ outcome' = [outcome EXCEPT ![Sym] =
                                 IF work'.result = "sent" THEN "delivered"
                                 ELSE "failed"]

(* The other steps of the pipeline; an episode ends where its streak does.  *)
Process ==
    /\ \/ StartCycle \/ FetchMarket \/ FetchFunding \/ CheckQuality
       \/ SaveMetrics \/ Evaluate \/ RecordAlert \/ UpdateState
       \/ HandleBadData \/ SkipWarning
    /\ outcome' = [s \in Symbols |->
                      IF streak'[s] = 0 THEN "none" ELSE outcome[s]]
    /\ UNCHANGED limiter

Wait == Tick /\ UNCHANGED <<limiter, outcome>>

DeliveryNext == Send \/ Process \/ Wait

DeliverySpec == DeliveryInit /\ [][DeliveryNext]_deliveryVars

-----------------------------------------------------------------------------
(* An alert that failed is tried again ("Keep watching and allow retry on   *)
(* next cycle", app.py:574) until it is delivered or its condition fails:   *)
(* the signal does not become active, and so never to be alerted again,     *)
(* with a failed alert behind it (app.py, _process_symbol; engine.py:69).   *)
FailedAlertDelivered ==
    \A s \in Symbols :
        store[s].state = "signal_active" => outcome[s] # "failed"
=============================================================================
