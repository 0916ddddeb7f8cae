---------------------------- MODULE SignalEngine ----------------------------
(***************************************************************************)
(* The signal engine of the monitor: monitor/signals (engine, cooldown,    *)
(* state).  It is pure code, so this module has operators and no variables. *)
(* MonitorApp calls them from its actions.                                  *)
(*                                                                         *)
(* Decimal fractions and milliseconds are integers here: the code only     *)
(* adds, subtracts and compares them.  MsPerSec and MsPerMin scale seconds  *)
(* and minutes down so that small instances still round.                    *)
(***************************************************************************)
EXTENDS Integers

CONSTANTS
    None,                 \* Python's None
    MinNetAnnual, MinNetHorizon, MinFundingRate,
    RequirePositiveFunding, RequirePredictedFunding,
    MinConfirmations,     \* min_consecutive_confirmations
    CooldownSec, Hysteresis,
    MaxSnapshotAgeMs, MaxSpread,
    SuppressBeforeMin, SuppressAfterMin,
    RepeatAlertWhileActive,
    MsPerSec, MsPerMin,
    ConfirmationCap       \* the confirmation counter saturates here

(* SignalEngineParams.__post_init__ refuses anything else. *)
ASSUME EngineParams ==
    /\ {MinNetAnnual, MinNetHorizon, MinFundingRate, Hysteresis, MaxSpread,
        CooldownSec, SuppressBeforeMin, SuppressAfterMin} \subseteq Nat
    /\ {MinConfirmations, MaxSnapshotAgeMs} \subseteq Nat \ {0}
    /\ {RequirePositiveFunding, RequirePredictedFunding,
        RepeatAlertWhileActive} \subseteq BOOLEAN

(* Bounds of the model: the scale of the clock and the cap of the counter. *)
ASSUME EngineScale ==
    /\ {MsPerSec, MsPerMin} \subseteq Nat \ {0}
    /\ ConfirmationCap \in Nat
    /\ ConfirmationCap >= MinConfirmations

ASSUME NoneIsNoTime == None \notin Int

SignalState == {"normal", "watching", "signal_active", "cooldown", "data_invalid"}

(* Mutant: a signal in its cooldown counts as not active. *)
ActiveStatesShort == {"signal_active"}

ActiveStates == {"signal_active", "cooldown"}

TimeOrNone == Int \cup {None}

(* AlertState; last_net_annual, last_reasons and updated_at_ms are written  *)
(* for the audit trail and never read back, so they are left out.           *)
AlertState == [state: SignalState, confirmations: 0 .. ConfirmationCap,
               last_alert: TimeOrNone, started: TimeOrNone]

(* create_alert_state.  Every reader of the store treats an absent entry as *)
(* this record, so the store starts with it.                                *)
NewAlertState == [state |-> "normal", confirmations |-> 0,
                  last_alert |-> None, started |-> None]

(***************************************************************************)
(* cooldown.py                                                             *)
(***************************************************************************)
CooldownMs == CooldownSec * MsPerSec

CeilSec(ms) == (ms + MsPerSec - 1) \div MsPerSec

(* Mutant: what is left of the cooldown is rounded down. *)
CooldownRemainingDown(lastAlert, now) ==
    IF lastAlert = None \/ CooldownSec = 0 THEN 0
    ELSE IF now < lastAlert THEN CooldownSec
    ELSE IF now - lastAlert >= CooldownMs THEN 0
    ELSE (CooldownMs - (now - lastAlert)) \div MsPerSec

(* An alert stamped in the future keeps the whole cooldown: the wall clock  *)
(* was stepped back.                                                        *)
CooldownRemaining(lastAlert, now) ==
    IF lastAlert = None \/ CooldownSec = 0 THEN 0
    ELSE IF now < lastAlert THEN CooldownSec
    ELSE IF now - lastAlert >= CooldownMs THEN 0
    ELSE CeilSec(CooldownMs - (now - lastAlert))

HysteresisThreshold(base, isActive) ==
    IF isActive THEN base - Hysteresis ELSE base

(***************************************************************************)
(* engine.py                                                               *)
(***************************************************************************)
FundingImminent(next, now) ==
    /\ next # None
    /\ SuppressBeforeMin > 0
    /\ now < next
    /\ next - now <= SuppressBeforeMin * MsPerMin

FundingJustPassed(next, now) ==
    /\ next # None
    /\ SuppressAfterMin > 0
    /\ now >= next
    /\ now - next <= SuppressAfterMin * MsPerMin

(* Why a condition is not met, or what became of its alert. *)
Checks == {"snapshot_in_future", "snapshot_stale", "invalid_spread",
           "spread_too_wide", "funding_interval_unknown",
           "predicted_funding_missing", "funding_not_positive",
           "funding_rate_below_threshold", "net_horizon_below_threshold",
           "net_annual_below_threshold", "funding_imminent",
           "funding_just_passed"}

ReasonCodes ==
    Checks \cup {"quality", "notification_failed", "notification_suppressed"}

(* The checks of evaluate_signal, by the reason each one gives.  m holds    *)
(* the market, funding and yield figures of the cycle.                      *)
Unmet(m, received, now, wasActive) ==
    [ snapshot_in_future |-> now < received,
      snapshot_stale |-> now - received > MaxSnapshotAgeMs,
      invalid_spread |-> m.spot_spread < 0 \/ m.perp_spread < 0,
      spread_too_wide |->
          /\ m.spot_spread >= 0 /\ m.perp_spread >= 0
          /\ m.spot_spread > MaxSpread \/ m.perp_spread > MaxSpread,
      funding_interval_unknown |-> m.interval <= 0,
      predicted_funding_missing |->
          RequirePredictedFunding /\ m.predicted = None,
      funding_not_positive |-> RequirePositiveFunding /\ m.rate <= 0,
      funding_rate_below_threshold |-> m.rate < MinFundingRate,
      net_horizon_below_threshold |->
          m.net_horizon < HysteresisThreshold(MinNetHorizon, wasActive),
      net_annual_below_threshold |->
          m.net_annual < HysteresisThreshold(MinNetAnnual, wasActive),
      funding_imminent |-> FundingImminent(m.next_funding, now),
      funding_just_passed |-> FundingJustPassed(m.next_funding, now) ]

Reasons(m, received, now, wasActive) ==
    {r \in Checks : Unmet(m, received, now, wasActive)[r]}

(* SignalDecision, as far as anything reads it. *)
Decision == [state: SignalState, should_alert: BOOLEAN,
             reasons: SUBSET ReasonCodes,
             confirmations: 0 .. ConfirmationCap, remaining: 0 .. CooldownSec]

(* A DATA_INVALID decision of evaluate_signal and of _handle_bad_data. *)
InvalidDecision(st, now) ==
    [state |-> "data_invalid", should_alert |-> FALSE, reasons |-> {"quality"},
     confirmations |-> 0,
     remaining |-> CooldownRemaining(st.last_alert, now)]

PreviousConfirmations(st) ==
    IF st.state = "data_invalid" THEN 0 ELSE st.confirmations

(* Mutant: a condition that fails keeps its confirmations. *)
NextConfirmationsKept(st, met) ==
    IF met /\ PreviousConfirmations(st) < ConfirmationCap
       THEN PreviousConfirmations(st) + 1
       ELSE PreviousConfirmations(st)

(* Python's integer has no top; the model's counter stops at the cap, which *)
(* no comparison with MinConfirmations can tell from counting on.           *)
NextConfirmations(st, met) ==
    IF ~met THEN 0
    ELSE IF PreviousConfirmations(st) < ConfirmationCap
         THEN PreviousConfirmations(st) + 1
         ELSE ConfirmationCap

(* evaluate_signal once the quality gate is passed. *)
GoodDecision(m, received, now, st) ==
    LET wasActive == st.state \in ActiveStates
        reasons   == Reasons(m, received, now, wasActive)
        met       == reasons = {}
        conf      == NextConfirmations(st, met)
        confirmed == met /\ conf >= MinConfirmations
        remaining == CooldownRemaining(st.last_alert, now)
    IN  [ state |-> CASE ~met -> "normal"
                      [] met /\ ~confirmed -> "watching"
                      [] confirmed /\ remaining > 0 -> "cooldown"
                      [] confirmed /\ remaining = 0 -> "signal_active",
          should_alert |-> /\ confirmed
                           /\ remaining = 0
                           /\ ~wasActive \/ RepeatAlertWhileActive,
          reasons |-> reasons,
          confirmations |-> conf,
          remaining |-> remaining ]

EvaluateSignal(qualityOk, m, received, now, st) ==
    IF qualityOk THEN GoodDecision(m, received, now, st)
                 ELSE InvalidDecision(st, now)

(***************************************************************************)
(* state.py                                                                *)
(***************************************************************************)
(* Mutant: a suppressed alert does not start the cooldown. *)
StartsCooldownSent(d) == d.should_alert

StartsCooldown(d) ==
    \/ d.should_alert
    \/ d.state = "cooldown" /\ "notification_suppressed" \in d.reasons

(* Mutant: the start of a signal outlives the signal. *)
UpdateAlertStateKept(st, d, now) ==
    [ state |-> d.state,
      confirmations |-> d.confirmations,
      last_alert |-> IF StartsCooldown(d) THEN now ELSE st.last_alert,
      started |-> IF d.state \in ActiveStates /\ st.state \notin ActiveStates
                  THEN now ELSE st.started ]

UpdateAlertState(st, d, now) ==
    [ state |-> d.state,
      confirmations |-> d.confirmations,
      last_alert |-> IF StartsCooldown(d) THEN now ELSE st.last_alert,
      started |-> IF d.state \notin ActiveStates THEN None
                  ELSE IF st.state \notin ActiveStates THEN now
                  ELSE st.started ]
=============================================================================
