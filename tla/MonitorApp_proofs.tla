------------------------- MODULE MonitorApp_proofs -------------------------
(***************************************************************************)
(* Proofs about the polling pipeline, for every list of instruments, every  *)
(* set of readings and faults and every setting of the engine.              *)
(***************************************************************************)
EXTENDS MonitorApp, SequenceTheorems, TLAPS

-----------------------------------------------------------------------------
(* What the operators of the signal engine return, for every setting of its *)
(* thresholds, cooldown and scale.                                         *)

(***************************************************************************)
(* The cooldown.                                                           *)
(***************************************************************************)
LEMMA CooldownMsType ==
    /\ CooldownMs \in Nat
    /\ CooldownSec = 0 => CooldownMs = 0
  BY EngineParams, EngineScale DEF CooldownMs

(* Division that rounds up stays between one and the whole number of units. *)
LEMMA CeilBounds ==
    ASSUME NEW n \in Nat, NEW m \in Nat \ {0}, NEW x \in Int,
           0 < x, x <= n * m
    PROVE  (x + m - 1) \div m \in 1 .. n
<1> DEFINE q == (x + m - 1) \div m
<1>1. /\ q \in Int
      /\ m * q <= x + m - 1
      /\ x + m - 1 < m * q + m
  BY SMTT(30)
<1> HIDE DEF q
<1>2. q >= 1
  <2>1. m * q > 0
    BY <1>1
  <2>2. QED
    BY <1>1, <2>1, SMTT(30)
<1>3. q <= n
  <2> SUFFICES ASSUME q >= n + 1 PROVE FALSE
    BY <1>1
  <2>1. m * q >= m * (n + 1)
    BY <1>1, SMTT(30)
  <2>2. QED
    BY <1>1, <2>1, SMTT(30)
<1>4. QED
  BY <1>1, <1>2, <1>3 DEF q

LEMMA RemainingBounds ==
    ASSUME NEW l \in TimeOrNone, NEW now \in Int
    PROVE  CooldownRemaining(l, now) \in 0 .. CooldownSec
<1>1. CooldownSec \in Nat /\ MsPerSec \in Nat \ {0} /\ CooldownMs \in Nat
  BY EngineParams, EngineScale, CooldownMsType
<1>2. CASE l = None \/ CooldownSec = 0
  BY <1>1, <1>2 DEF CooldownRemaining
<1>3. CASE ~(l = None \/ CooldownSec = 0)
  <2>1. l \in Int
    BY <1>3 DEF TimeOrNone
  <2>2. CASE now < l \/ now - l >= CooldownMs
    BY <1>1, <1>3, <2>1, <2>2 DEF CooldownRemaining
  <2>3. CASE ~(now < l) /\ ~(now - l >= CooldownMs)
    <3> DEFINE x == CooldownMs - (now - l)
    <3>1. x \in Int /\ 0 < x /\ x <= CooldownSec * MsPerSec
      BY <1>1, <2>1, <2>3 DEF CooldownMs
    <3>2. CeilSec(x) \in 1 .. CooldownSec
      BY <1>1, <3>1, CeilBounds DEF CeilSec
    <3>3. CooldownRemaining(l, now) = CeilSec(x)
      BY <1>3, <2>3 DEF CooldownRemaining
    <3>4. QED
      BY <1>1, <3>2, <3>3
  <2>4. QED
    BY <2>2, <2>3
<1>4. QED
  BY <1>2, <1>3

(* The cooldown that is reported over is over: rounding never cuts it short. *)
LEMMA RemainingZero ==
    ASSUME NEW l \in Int, NEW now \in Int, CooldownRemaining(l, now) = 0
    PROVE  CooldownSec = 0 \/ now - l >= CooldownMs
<1>1. CooldownSec \in Nat /\ MsPerSec \in Nat \ {0} /\ CooldownMs \in Nat
  BY EngineParams, EngineScale, CooldownMsType
<1> SUFFICES ASSUME CooldownSec # 0, ~(now - l >= CooldownMs)
             PROVE  FALSE
  OBVIOUS
<1>2. l # None
  BY NoneIsNoTime
<1>3. CASE now < l
  BY <1>1, <1>2, <1>3 DEF CooldownRemaining
<1>4. CASE ~(now < l)
  <2> DEFINE x == CooldownMs - (now - l)
  <2>1. x \in Int /\ 0 < x /\ x <= CooldownSec * MsPerSec
    BY <1>1, <1>4 DEF CooldownMs
  <2>2. CeilSec(x) \in 1 .. CooldownSec
    BY <1>1, <2>1, CeilBounds DEF CeilSec
  <2>3. CooldownRemaining(l, now) = CeilSec(x)
    BY <1>2, <1>4 DEF CooldownRemaining
  <2>4. QED
    BY <2>2, <2>3
<1>5. QED
  BY <1>3, <1>4

(***************************************************************************)
(* The decision.                                                           *)
(***************************************************************************)
LEMMA ReasonsType ==
    ASSUME NEW m, NEW received, NEW now, NEW wasActive
    PROVE  Reasons(m, received, now, wasActive) \in SUBSET ReasonCodes
  BY DEF Reasons, ReasonCodes

LEMMA ConfirmationsType ==
    ASSUME NEW st \in AlertState, NEW met \in BOOLEAN
    PROVE  /\ NextConfirmations(st, met) \in 0 .. ConfirmationCap
           /\ ~met => NextConfirmations(st, met) = 0
           /\ met /\ st.state # "data_invalid"
                  /\ st.confirmations >= MinConfirmations =>
                NextConfirmations(st, met) >= MinConfirmations
<1>1. PreviousConfirmations(st) \in 0 .. ConfirmationCap
  BY EngineScale DEF PreviousConfirmations, AlertState
<1>2. st.state # "data_invalid" => PreviousConfirmations(st) = st.confirmations
  BY DEF PreviousConfirmations
<1>3. QED
  BY <1>1, <1>2, EngineParams, EngineScale DEF NextConfirmations

(* What evaluate_signal decides: an alert means that every check was met,   *)
(* often enough, and that the cooldown is over.                             *)
LEMMA GoodDecisionIs ==
    ASSUME NEW st \in AlertState, NEW m, NEW received, NEW now \in Int
    PROVE  LET d == GoodDecision(m, received, now, st)
           IN  /\ d \in Decision
               /\ d.reasons = Reasons(m, received, now, st.state \in ActiveStates)
               /\ d.remaining = CooldownRemaining(st.last_alert, now)
               /\ d.state \in {"normal", "watching", "signal_active", "cooldown"}
               /\ d.state = "normal" => d.confirmations = 0
               /\ d.state \in ActiveStates =>
                     d.reasons = {} /\ d.confirmations >= MinConfirmations
               /\ d.state = "cooldown" => d.remaining > 0
               /\ d.should_alert =>
                     d.state = "signal_active" /\ d.remaining = 0
               /\ d.should_alert /\ ~RepeatAlertWhileActive =>
                     st.state \notin ActiveStates
               /\ d.reasons = {} /\ st.state \in ActiveStates
                     /\ st.confirmations >= MinConfirmations =>
                     d.state \in ActiveStates
<1> DEFINE wasActive == st.state \in ActiveStates
           reasons   == Reasons(m, received, now, wasActive)
           met       == reasons = {}
           conf      == NextConfirmations(st, met)
           confirmed == met /\ conf >= MinConfirmations
           remaining == CooldownRemaining(st.last_alert, now)
           state     == CASE ~met -> "normal"
                          [] met /\ ~confirmed -> "watching"
                          [] confirmed /\ remaining > 0 -> "cooldown"
                          [] confirmed /\ remaining = 0 -> "signal_active"
           alert     == /\ confirmed
                        /\ remaining = 0
                        /\ ~wasActive \/ RepeatAlertWhileActive
<1>1. GoodDecision(m, received, now, st) =
          [state |-> state, should_alert |-> alert, reasons |-> reasons,
           confirmations |-> conf, remaining |-> remaining]
  BY DEF GoodDecision
<1>2. reasons \in SUBSET ReasonCodes
  BY ReasonsType
<1>3. /\ conf \in 0 .. ConfirmationCap
      /\ ~met => conf = 0
      /\ met /\ wasActive /\ st.confirmations >= MinConfirmations =>
            conf >= MinConfirmations
  BY ConfirmationsType DEF ActiveStates
<1>4. remaining \in 0 .. CooldownSec
  BY RemainingBounds DEF AlertState
<1>5. CooldownSec \in Nat /\ MinConfirmations \in Nat \ {0}
  BY EngineParams
<1> HIDE DEF reasons, conf, remaining, wasActive
<1>6. /\ state \in {"normal", "watching", "signal_active", "cooldown"}
      /\ state = "normal" => ~met
      /\ state \in {"signal_active", "cooldown"} => confirmed
      /\ state = "cooldown" => remaining > 0
      /\ alert => state = "signal_active"
      /\ confirmed => state \in {"signal_active", "cooldown"}
  BY <1>4, <1>5
<1>7. alert \in BOOLEAN
  OBVIOUS
<1> HIDE DEF state
<1>8. GoodDecision(m, received, now, st) \in Decision
  BY <1>1, <1>2, <1>3, <1>4, <1>6, <1>7 DEF Decision, SignalState
<1>9. QED
  BY <1>1, <1>3, <1>6, <1>8 DEF reasons, remaining, wasActive, ActiveStates

LEMMA InvalidDecisionIs ==
    ASSUME NEW st \in AlertState, NEW now \in Int
    PROVE  LET d == InvalidDecision(st, now)
           IN  /\ d \in Decision
               /\ d.state = "data_invalid" /\ ~d.should_alert
               /\ d.confirmations = 0
<1>1. CooldownRemaining(st.last_alert, now) \in 0 .. CooldownSec
  BY RemainingBounds DEF AlertState
<1>2. 0 \in 0 .. ConfirmationCap
  BY EngineScale
<1>3. {"quality"} \in SUBSET ReasonCodes /\ "data_invalid" \in SignalState
  BY DEF SignalState, ReasonCodes
<1>4. InvalidDecision(st, now) \in Decision
  BY <1>1, <1>2, <1>3 DEF InvalidDecision, Decision
<1>5. QED
  BY <1>4 DEF InvalidDecision

(***************************************************************************)
(* The update of the stored state.                                         *)
(***************************************************************************)
LEMMA UpdateIs ==
    ASSUME NEW st \in AlertState, NEW d \in Decision, NEW now \in Int
    PROVE  LET u == UpdateAlertState(st, d, now)
           IN  /\ u \in AlertState
               /\ u.state = d.state
               /\ u.confirmations = d.confirmations
               /\ u.last_alert = IF StartsCooldown(d) THEN now ELSE st.last_alert
               /\ d.state \notin ActiveStates => u.started = None
               /\ d.state \in ActiveStates =>
                     u.started = IF st.state \in ActiveStates THEN st.started ELSE now
<1>1. /\ st.last_alert \in TimeOrNone /\ st.started \in TimeOrNone
      /\ now \in TimeOrNone /\ None \in TimeOrNone
      /\ d.state \in SignalState /\ d.confirmations \in 0 .. ConfirmationCap
  BY DEF AlertState, Decision, TimeOrNone
<1>2. QED
  BY <1>1 DEF UpdateAlertState, AlertState

-----------------------------------------------------------------------------
(***************************************************************************)
(* The inductive invariant.                                                *)
(***************************************************************************)

(* An alert that is remembered is no later than now, and the store knows it *)
(* or is about to: the update that will stamp it is still to come.          *)
Remembered ==
    \A s \in Symbols : notified[s] # None =>
        /\ notified[s] <= clock
        /\ \/ /\ store[s].last_alert # None
              /\ notified[s] <= store[s].last_alert
           \/ /\ s = Sym
              /\ pc \in {"record", "update"}
              /\ StartsCooldown(work.decision)

(* Nothing has touched the stored state since the engine read it. *)
BaseIsStored == pc \in {"send", "record", "update"} => work.base = store[Sym]

(* An alert on its way to Telegram is due, and stays due however long the   *)
(* task waits.                                                             *)
AlertIsDue ==
    pc = "send" =>
        /\ work.decision.should_alert
        /\ work.decision.state = "signal_active"
        /\ work.decision.confirmations >= MinConfirmations
        /\ \/ CooldownSec = 0
           \/ store[Sym].last_alert = None
           \/ clock - store[Sym].last_alert >= CooldownMs

(* Only a delivered alert reaches the alert row as an alert: a failed one is *)
(* a symbol that is being watched.                                          *)
RecordedIsSent ==
    /\ pc = "record" =>
          /\ work.result \in {"sent", "failed"}
          /\ work.result = "failed" =>
                work.decision.state = "watching" /\ ~StartsCooldown(work.decision)

(* What the update will store is consistent. *)
DecisionConsistent ==
    pc \in {"send", "record", "update"} =>
        LET d == work.decision
        IN  /\ d.state = "cooldown" =>
                  store[Sym].last_alert # None \/ StartsCooldown(d)
            /\ d.state \in ActiveStates => d.confirmations >= MinConfirmations
            /\ d.state \in {"normal", "data_invalid"} => d.confirmations = 0

(* The times the later steps read were taken by the earlier ones. *)
TimesTaken ==
    /\ pc \in {"metrics", "evaluate"} => work.received \in Nat
    /\ pc \in {"bad_data", "warn", "record_warning"} => work.checked_at \in Nat

(* A warning that is remembered is the one the cooldown counts from, or will *)
(* be once its row is saved.                                                *)
WarningKnown ==
    /\ pc = "record_warning" => work.result \in {"sent", "failed"}
    /\ \A s \in Symbols :
          IF pc = "record_warning" /\ s = Sym /\ work.result = "sent"
             THEN warned[s] = work.checked_at
             ELSE warned[s] \in {None, last_warning[s]}

(* An episode that has been dealt with, and is remembered, is an active      *)
(* signal in the store, or will be after the update.                        *)
DealtIsActive ==
    RepeatAlertWhileActive \/
        /\ \A s \in Symbols : alerts[s] > 0 /\ notified[s] # None =>
              IF s = Sym /\ pc \in {"record", "update"}
                 THEN work.decision.state \in ActiveStates
                 ELSE store[s].state \in ActiveStates
        /\ pc = "send" => store[Sym].state \notin ActiveStates

BadDataEnds == pc = "bad_data" => alerts[Sym] = 0

IInv ==
    /\ TypeOK
    /\ Remembered
    /\ BaseIsStored
    /\ AlertIsDue
    /\ RecordedIsSent
    /\ DecisionConsistent
    /\ StoreConsistent
    /\ TimesTaken
    /\ WarningKnown
    /\ DealtIsActive
    /\ BadDataEnds

-----------------------------------------------------------------------------
(***************************************************************************)
(* Types.                                                                  *)
(***************************************************************************)
LEMMA InstrumentsType ==
    /\ Len(Instruments) \in Nat \ {0}
    /\ \A i \in 1 .. Len(Instruments) : Instruments[i] \in Symbols
<1>1. Len(Instruments) \in Nat /\ Len(Instruments) # 0
  BY AppParams, EmptySeq, LenProperties
<1>2. QED
  BY <1>1 DEF Symbols

LEMMA SymType == TypeOK => Sym \in Symbols
  BY InstrumentsType DEF TypeOK, Sym

LEMMA FreshTypes ==
    /\ NewAlertState \in AlertState
    /\ NoDecision \in Decision
    /\ NoWork \in Work
<1>1. 0 \in 0 .. ConfirmationCap /\ 0 \in 0 .. CooldownSec
  BY EngineParams, EngineScale
<1>2. NewAlertState \in AlertState
  BY <1>1 DEF NewAlertState, AlertState, SignalState, TimeOrNone
<1>3. NoDecision \in Decision
  BY <1>1 DEF NoDecision, Decision, SignalState
<1>4. QED
  BY <1>2, <1>3 DEF NoWork, Work

(* Leaving _process_symbol. *)
LEMMA NextInstrumentIs ==
    ASSUME TypeOK, NextInstrument
    PROVE  /\ idx' \in 1 .. Len(Instruments)
           /\ pc' \in {"idle", "fetch_market"}
           /\ work' \in Work
<1>1. Len(Instruments) \in Nat \ {0} /\ idx \in 1 .. Len(Instruments)
  BY InstrumentsType DEF TypeOK
<1>2. work' \in Work
  BY FreshTypes DEF NextInstrument
<1>3. CASE idx = Len(Instruments)
  BY <1>1, <1>2, <1>3 DEF NextInstrument
<1>4. CASE idx # Len(Instruments)
  BY <1>1, <1>2, <1>4 DEF NextInstrument
<1>5. QED
  BY <1>3, <1>4

LEMMA ObserveTypes ==
    ASSUME TypeOK, NEW good, NEW run \in 0 .. ConfirmationCap,
           Observe(Sym, good, run)
    PROVE  /\ streak' \in [Symbols -> 0 .. ConfirmationCap]
           /\ alerts' \in [Symbols -> 0 .. 2]
<1>1. /\ streak \in [Symbols -> 0 .. ConfirmationCap]
      /\ alerts \in [Symbols -> 0 .. 2]
      /\ 0 \in 0 .. ConfirmationCap
  BY EngineScale DEF TypeOK
<1>2. QED
  BY <1>1, SymType DEF Observe

-----------------------------------------------------------------------------
LEMMA TypeInit == Init => TypeOK
<1> SUFFICES ASSUME Init PROVE TypeOK
  OBVIOUS
<1>1. /\ clock \in Nat /\ pc \in Steps /\ restarts \in Nat
      /\ idx \in 1 .. Len(Instruments)
  BY ClockBounds, InstrumentsType DEF Init, Fresh, Steps
<1>2. /\ store \in [Symbols -> AlertState]
      /\ last_warning \in [Symbols -> Nat]
      /\ work \in Work
  BY FreshTypes DEF Init, Fresh
<1>3. /\ notified \in [Symbols -> Nat \cup {None}]
      /\ streak \in [Symbols -> 0 .. ConfirmationCap]
      /\ alerts \in [Symbols -> 0 .. 2]
      /\ warned \in [Symbols -> Nat \cup {None}]
  BY EngineScale DEF Init
<1>4. QED
  BY <1>1, <1>2, <1>3 DEF TypeOK

(* The steps that fetch, check and save. *)
LEMMA TypeFetch ==
    ASSUME TypeOK, StartCycle \/ FetchMarket \/ FetchFunding \/ SaveMetrics
    PROVE  TypeOK'
<1>1. CASE StartCycle
  BY <1>1 DEF StartCycle, TypeOK, Steps, history
<1>2. CASE FetchMarket
  <2>1. work' \in Work
    BY <1>2 DEF FetchMarket, TypeOK, Work
  <2>2. QED
    BY <1>2, <2>1 DEF FetchMarket, TypeOK, Steps, history
<1>3. CASE FetchFunding
  <2>1. work' \in Work
    BY <1>3 DEF FetchFunding, TypeOK, Work
  <2>2. QED
    BY <1>3, <2>1 DEF FetchFunding, TypeOK, Steps, history
<1>4. CASE SaveMetrics
  <2>1. CASE pc' = "evaluate" /\ UNCHANGED <<idx, work>>
    BY <1>4, <2>1 DEF SaveMetrics, TypeOK, Steps, history
  <2>2. CASE DatabaseRaises
    BY <1>4, <2>2, NextInstrumentIs
       DEF SaveMetrics, DatabaseRaises, TypeOK, Steps, history
  <2>3. QED
    BY <1>4, <2>1, <2>2 DEF SaveMetrics
<1>5. QED
  BY <1>1, <1>2, <1>3, <1>4

LEMMA TypeCheckQuality ==
    ASSUME TypeOK, CheckQuality
    PROVE  TypeOK'
<1>1. PICK defect \in BOOLEAN :
         /\ \/ /\ work' = [work EXCEPT !.checked_at = clock]
               /\ pc' \in {"metrics", "bad_data"}
               /\ UNCHANGED idx
            \/ DatabaseRaises
         /\ Observe(Sym, QualityOk(defect), streak[Sym])
  BY DEF CheckQuality
<1>2. streak[Sym] \in 0 .. ConfirmationCap
  BY SymType DEF TypeOK
<1>3. /\ streak' \in [Symbols -> 0 .. ConfirmationCap]
      /\ alerts' \in [Symbols -> 0 .. 2]
  BY <1>1, <1>2, ObserveTypes
<1>4. /\ idx' \in 1 .. Len(Instruments)
      /\ pc' \in Steps
      /\ work' \in Work
  <2>1. CASE DatabaseRaises
    BY <2>1, NextInstrumentIs DEF DatabaseRaises, Steps
  <2>2. CASE /\ work' = [work EXCEPT !.checked_at = clock]
             /\ pc' \in {"metrics", "bad_data"}
             /\ UNCHANGED idx
    BY <2>2 DEF TypeOK, Work, Steps
  <2>3. QED
    BY <1>1, <2>1, <2>2
<1>5. QED
  BY <1>3, <1>4 DEF CheckQuality, TypeOK

(* What the engine's decision depends on has the type it expects. *)
LEMMA EvaluateIs ==
    ASSUME TypeOK, Evaluate
    PROVE  LET d == GoodDecision(work.reading, work.received, clock, store[Sym])
           IN  /\ \/ /\ work' = [work EXCEPT !.base = store[Sym], !.decision = d]
                     /\ pc' = IF d.should_alert THEN "send" ELSE "update"
                     /\ UNCHANGED idx
                  \/ DatabaseRaises
               /\ Observe(Sym, d.reasons = {}, Count(streak[Sym], ConfirmationCap))
               /\ UNCHANGED <<clock, store, last_warning, restarts, notified, warned>>
  BY DEF Evaluate, EvaluateSignal

LEMMA TypeEvaluate ==
    ASSUME TypeOK, Evaluate
    PROVE  TypeOK'
<1> DEFINE d == GoodDecision(work.reading, work.received, clock, store[Sym])
<1>1. store[Sym] \in AlertState /\ clock \in Int
  BY SymType DEF TypeOK
<1>2. d \in Decision
  BY <1>1, GoodDecisionIs
<1> HIDE DEF d
<1>3. /\ \/ /\ work' = [work EXCEPT !.base = store[Sym], !.decision = d]
            /\ pc' \in {"send", "update"}
            /\ UNCHANGED idx
         \/ DatabaseRaises
      /\ Observe(Sym, d.reasons = {}, Count(streak[Sym], ConfirmationCap))
      /\ UNCHANGED <<clock, store, last_warning, restarts, notified, warned>>
  BY EvaluateIs DEF d
<1>4. Count(streak[Sym], ConfirmationCap) \in 0 .. ConfirmationCap
  <2>1. streak[Sym] \in 0 .. ConfirmationCap
    BY SymType DEF TypeOK
  <2>2. QED
    BY <2>1, EngineScale DEF Count
<1>5. /\ streak' \in [Symbols -> 0 .. ConfirmationCap]
      /\ alerts' \in [Symbols -> 0 .. 2]
  BY <1>3, <1>4, ObserveTypes
<1>6. /\ idx' \in 1 .. Len(Instruments)
      /\ pc' \in Steps
      /\ work' \in Work
  <2>1. CASE DatabaseRaises
    BY <2>1, NextInstrumentIs DEF DatabaseRaises, Steps
  <2>2. CASE /\ work' = [work EXCEPT !.base = store[Sym], !.decision = d]
             /\ pc' \in {"send", "update"}
             /\ UNCHANGED idx
    BY <1>1, <1>2, <2>2 DEF TypeOK, Work, Steps
  <2>3. QED
    BY <1>3, <2>1, <2>2
<1>7. QED
  BY <1>3, <1>5, <1>6 DEF TypeOK

(* What a send makes of the decision. *)
LEMMA AfterSendIs ==
    ASSUME NEW d \in Decision, NEW result \in {"sent", "failed", "suppressed"}
    PROVE  LET e == AfterSend(d, result)
           IN  /\ e \in Decision
               /\ e.confirmations = d.confirmations
               /\ result = "sent" => e = d
               /\ result = "failed" =>
                     e.state = "watching" /\ ~StartsCooldown(e)
               /\ result = "suppressed" =>
                     e.state = "cooldown" /\ StartsCooldown(e)
<1>1. CASE result = "sent"
  BY <1>1 DEF AfterSend
<1>2. CASE result = "failed"
  BY <1>2 DEF AfterSend, Decision, SignalState, ReasonCodes, StartsCooldown
<1>3. CASE result = "suppressed"
  BY <1>3 DEF AfterSend, Decision, SignalState, ReasonCodes, StartsCooldown
<1>4. QED
  BY <1>1, <1>2, <1>3

LEMMA SendResultsType == SendResults \subseteq {"sent", "failed", "suppressed"}
  BY DEF SendResults

LEMMA TypeSendAlert ==
    ASSUME TypeOK, SendAlert
    PROVE  TypeOK'
<1>1. PICK result \in {"sent", "failed", "suppressed"} :
         /\ work' = [work EXCEPT !.result = result,
                                 !.decision = AfterSend(work.decision, result)]
         /\ pc' \in {"update", "record"}
         /\ notified' = [notified EXCEPT ![Sym] =
                            IF result = "failed" THEN notified[Sym] ELSE clock]
         /\ alerts' = [alerts EXCEPT ![Sym] =
                          IF result = "failed" THEN alerts[Sym]
                                               ELSE Count(alerts[Sym], 2)]
  BY SendResultsType DEF SendAlert
<1>2. work.decision \in Decision /\ Sym \in Symbols /\ alerts[Sym] \in 0 .. 2
  BY SymType DEF TypeOK, Work
<1>3. AfterSend(work.decision, result) \in Decision
  BY <1>2, AfterSendIs
<1>4. work' \in Work
  BY <1>1, <1>3 DEF TypeOK, Work
<1>5. alerts' \in [Symbols -> 0 .. 2]
  BY <1>1, <1>2 DEF Count, TypeOK
<1>6. notified' \in [Symbols -> Nat \cup {None}]
  BY <1>1, <1>2 DEF TypeOK
<1>7. QED
  BY <1>1, <1>4, <1>5, <1>6 DEF SendAlert, TypeOK, Steps

LEMMA TypeRecordAlert ==
    ASSUME TypeOK, RecordAlert
    PROVE  TypeOK'
<1>1. CASE pc' = "update" /\ UNCHANGED <<idx, work, notified>>
  BY <1>1 DEF RecordAlert, TypeOK, Steps
<1>2. CASE /\ DatabaseRaises
           /\ notified' = [notified EXCEPT ![Sym] =
                              IF work.result = "sent" THEN None ELSE notified[Sym]]
  <2>1. notified' \in [Symbols -> Nat \cup {None}]
    BY <1>2, SymType DEF TypeOK
  <2>2. QED
    BY <1>2, <2>1, NextInstrumentIs
       DEF RecordAlert, DatabaseRaises, TypeOK, Steps
<1>3. QED
  BY <1>1, <1>2 DEF RecordAlert

LEMMA TypeUpdateState ==
    ASSUME TypeOK, UpdateState
    PROVE  TypeOK'
<1>1. work.base \in AlertState /\ work.decision \in Decision /\ clock \in Int
  BY DEF TypeOK, Work
<1>2. UpdateAlertState(work.base, work.decision, clock) \in AlertState
  BY <1>1, UpdateIs
<1>3. store' \in [Symbols -> AlertState]
  BY <1>2, SymType DEF UpdateState, TypeOK
<1>4. QED
  BY <1>3, NextInstrumentIs DEF UpdateState, TypeOK, Steps, history

LEMMA BadDataIs ==
    ASSUME TypeOK, HandleBadData, ~DatabaseRaises
    PROVE  LET d == InvalidDecision(store[Sym], work.checked_at)
           IN  /\ store' = [store EXCEPT ![Sym] =
                             UpdateAlertState(store[Sym], d, work.checked_at)]
               /\ pc' = "warn"
               /\ UNCHANGED <<clock, idx, work, last_warning, restarts, history>>
  BY DEF HandleBadData

LEMMA TypeHandleBadData ==
    ASSUME TypeOK, TimesTaken, HandleBadData
    PROVE  TypeOK'
<1>1. CASE DatabaseRaises /\ UNCHANGED store
  BY <1>1, NextInstrumentIs
     DEF HandleBadData, DatabaseRaises, TypeOK, Steps, history
<1>2. CASE ~(DatabaseRaises /\ UNCHANGED store)
  <2> DEFINE d == InvalidDecision(store[Sym], work.checked_at)
             u == UpdateAlertState(store[Sym], d, work.checked_at)
  <2>1. store[Sym] \in AlertState /\ work.checked_at \in Int
    BY SymType DEF TypeOK, TimesTaken, HandleBadData
  <2>2. d \in Decision
    BY <2>1, InvalidDecisionIs
  <2>3. u \in AlertState
    BY <2>1, <2>2, UpdateIs
  <2>4. /\ store' = [store EXCEPT ![Sym] = u]
        /\ pc' = "warn"
        /\ UNCHANGED <<clock, idx, work, last_warning, restarts, history>>
    BY <1>2 DEF HandleBadData
  <2> HIDE DEF u
  <2>5. store' \in [Symbols -> AlertState]
    BY <2>3, <2>4, SymType DEF TypeOK
  <2>6. QED
    BY <2>4, <2>5 DEF TypeOK, Steps, history
<1>3. QED
  BY <1>1, <1>2

LEMMA TypeWarning ==
    ASSUME TypeOK, TimesTaken, SkipWarning \/ SendWarning \/ RecordWarning
    PROVE  TypeOK'
<1>1. CASE SkipWarning
  BY <1>1, NextInstrumentIs DEF SkipWarning, TypeOK, Steps, history
<1>2. CASE SendWarning
  <2>1. PICK result \in {"sent", "failed", "suppressed"} :
           /\ \/ /\ last_warning' = WarningMemory(result)
                 /\ NextInstrument
              \/ /\ work' = [work EXCEPT !.result = result]
                 /\ pc' = "record_warning"
                 /\ UNCHANGED <<idx, last_warning>>
           /\ warned' = [warned EXCEPT ![Sym] =
                            IF result = "failed" THEN warned[Sym]
                                                 ELSE work.checked_at]
    BY <1>2, SendResultsType DEF SendWarning
  <2>2. work.checked_at \in Nat /\ Sym \in Symbols
    BY <1>2, SymType DEF SendWarning, TimesTaken
  <2>3. warned' \in [Symbols -> Nat \cup {None}]
    BY <2>1, <2>2 DEF TypeOK
  <2>4. CASE last_warning' = WarningMemory(result) /\ NextInstrument
    <3>1. last_warning' \in [Symbols -> Nat]
      BY <2>2, <2>4 DEF TypeOK, WarningMemory
    <3>2. QED
      BY <1>2, <2>3, <2>4, <3>1, NextInstrumentIs DEF SendWarning, TypeOK, Steps
  <2>5. CASE /\ work' = [work EXCEPT !.result = result]
             /\ pc' = "record_warning"
             /\ UNCHANGED <<idx, last_warning>>
    <3>1. work' \in Work
      BY <2>5 DEF TypeOK, Work
    <3>2. QED
      BY <1>2, <2>3, <2>5, <3>1 DEF SendWarning, TypeOK, Steps
  <2>6. QED
    BY <2>1, <2>4, <2>5
<1>3. CASE RecordWarning
  <2>1. work.checked_at \in Nat /\ Sym \in Symbols
    BY <1>3, SymType DEF RecordWarning, TimesTaken
  <2>2. last_warning' \in [Symbols -> Nat]
    BY <1>3, <2>1 DEF RecordWarning, TypeOK, WarningMemory
  <2>3. warned' \in [Symbols -> Nat \cup {None}]
    BY <1>3, <2>1 DEF RecordWarning, TypeOK
  <2>4. NextInstrument
    BY <1>3 DEF RecordWarning, DatabaseRaises
  <2>5. QED
    BY <1>3, <2>2, <2>3, <2>4, NextInstrumentIs DEF RecordWarning, TypeOK, Steps
<1>4. QED
  BY <1>1, <1>2, <1>3

LEMMA TypeTick ==
    ASSUME TypeOK, Tick
    PROVE  TypeOK'
  BY DEF Tick, TypeOK, app, history

LEMMA TypeRestart ==
    ASSUME TypeOK, Restart
    PROVE  TypeOK'
<1>1. /\ pc' \in Steps /\ restarts' \in Nat /\ clock' \in Nat
      /\ idx' \in 1 .. Len(Instruments)
  BY InstrumentsType DEF Restart, Fresh, Steps, TypeOK
<1>2. /\ store' \in [Symbols -> AlertState]
      /\ last_warning' \in [Symbols -> Nat]
      /\ work' \in Work
  BY FreshTypes DEF Restart, Fresh
<1>3. /\ notified' \in [Symbols -> Nat \cup {None}]
      /\ streak' \in [Symbols -> 0 .. ConfirmationCap]
      /\ alerts' \in [Symbols -> 0 .. 2]
      /\ warned' \in [Symbols -> Nat \cup {None}]
  BY EngineScale DEF Restart
<1>4. QED
  BY <1>1, <1>2, <1>3 DEF TypeOK

LEMMA TypeNext ==
    ASSUME TypeOK, TimesTaken, [Next]_vars
    PROVE  TypeOK'
<1>1. CASE UNCHANGED vars
  BY <1>1 DEF vars, app, history, TypeOK
<1>2. CASE Next
  BY <1>2, TypeFetch, TypeCheckQuality, TypeEvaluate, TypeSendAlert,
     TypeRecordAlert, TypeUpdateState, TypeHandleBadData, TypeWarning,
     TypeTick, TypeRestart
     DEF Next, ProcessSymbol
<1>3. QED
  BY <1>1, <1>2

-----------------------------------------------------------------------------
(***************************************************************************)
(* The invariant.                                                          *)
(***************************************************************************)
LEMMA InitIInv == Init => IInv
<1> SUFFICES ASSUME Init PROVE IInv
  OBVIOUS
<1>1. TypeOK
  BY TypeInit
<1>2. /\ pc = "idle"
      /\ \A s \in Symbols : /\ notified[s] = None
                            /\ warned[s] = None
                            /\ store[s] = NewAlertState
  BY DEF Init, Fresh
<1>3. StoreConsistent
  BY <1>2, NoneIsNoTime DEF StoreConsistent, NewAlertState, ActiveStates
<1>4. Remembered /\ DealtIsActive
  BY <1>2 DEF Remembered, DealtIsActive
<1>5. QED
  BY <1>1, <1>2, <1>3, <1>4
     DEF IInv, BaseIsStored, AlertIsDue, RecordedIsSent, DecisionConsistent,
         TimesTaken, WarningKnown, BadDataEnds

(* A step that sends no warning and saves the row of none. *)
LEMMA WarningsAlone ==
    ASSUME IInv, UNCHANGED <<last_warning, warned>>,
           pc # "record_warning", pc' # "record_warning"
    PROVE  WarningKnown'
  BY DEF IInv, WarningKnown

(* A step that leaves what is remembered and stored alone, and does not lead *)
(* to a send, an alert row or an update.                                    *)
LEMMA QuietStep ==
    ASSUME IInv, TypeOK', UNCHANGED <<clock, store, notified>>,
           pc \notin {"record", "update"},
           pc' \notin {"send", "record", "update"},
           \A s \in Symbols : alerts'[s] > 0 => alerts[s] > 0,
           TimesTaken', WarningKnown', BadDataEnds'
    PROVE  IInv'
<1>1. Remembered'
  BY DEF IInv, Remembered
<1>2. StoreConsistent'
  BY DEF IInv, StoreConsistent
<1>3. DealtIsActive'
  BY DEF IInv, DealtIsActive
<1>4. QED
  BY <1>1, <1>2, <1>3
     DEF IInv, BaseIsStored, AlertIsDue, RecordedIsSent, DecisionConsistent

LEMMA InvariantFetch ==
    ASSUME IInv, StartCycle \/ FetchMarket \/ FetchFunding \/ SaveMetrics
    PROVE  IInv'
<1>1. TypeOK'
  BY TypeFetch DEF IInv
<1>2. /\ UNCHANGED <<clock, store, last_warning, notified, alerts, warned>>
      /\ pc \notin {"record", "update", "record_warning"}
      /\ pc' \notin {"send", "record", "update"}
      /\ pc' \notin {"bad_data", "warn", "record_warning"}
  BY DEF StartCycle, FetchMarket, FetchFunding, SaveMetrics, DatabaseRaises,
         NextInstrument, history
<1>3. pc' \in {"metrics", "evaluate"} => work'.received \in Nat
  BY DEF IInv, TimesTaken, StartCycle, FetchMarket, FetchFunding, SaveMetrics,
         DatabaseRaises, NextInstrument
<1>4. QED
  BY <1>1, <1>2, <1>3, QuietStep, WarningsAlone DEF TimesTaken, BadDataEnds

LEMMA InvariantCheckQuality ==
    ASSUME IInv, CheckQuality
    PROVE  IInv'
<1>1. TypeOK' /\ TypeOK
  BY TypeCheckQuality DEF IInv
<1>2. PICK defect \in BOOLEAN :
         /\ \/ /\ work' = [work EXCEPT !.checked_at = clock]
               /\ pc' = IF QualityOk(defect) THEN "metrics" ELSE "bad_data"
               /\ UNCHANGED idx
            \/ DatabaseRaises
         /\ Observe(Sym, QualityOk(defect), streak[Sym])
  BY DEF CheckQuality
<1>3. \A s \in Symbols : alerts'[s] > 0 => alerts[s] > 0
  BY <1>1, <1>2, SymType DEF Observe, TypeOK
<1>4. /\ UNCHANGED <<clock, store, last_warning, notified, warned>>
      /\ pc = "quality"
      /\ pc' \in {"idle", "fetch_market", "metrics", "bad_data"}
  BY <1>2 DEF CheckQuality, DatabaseRaises, NextInstrument
<1>5. TimesTaken'
  <2>1. CASE DatabaseRaises
    BY <2>1 DEF DatabaseRaises, NextInstrument, TimesTaken
  <2>2. CASE ~DatabaseRaises
    BY <1>1, <1>2, <2>2 DEF TimesTaken, QualityOk, TypeOK, Work
  <2>3. QED
    BY <2>1, <2>2
<1>6. BadDataEnds'
  <2>1. ASSUME pc' = "bad_data" PROVE alerts'[Sym'] = 0
    <3>1. ~QualityOk(defect) /\ Sym' = Sym
      BY <1>2, <2>1 DEF DatabaseRaises, NextInstrument, Sym
    <3>2. QED
      BY <1>1, <1>2, <3>1, SymType DEF Observe, TypeOK
  <2>2. QED
    BY <2>1 DEF BadDataEnds
<1>7. QED
  BY <1>1, <1>3, <1>4, <1>5, <1>6, QuietStep, WarningsAlone

(* A warning that is suppressed is remembered at once, one that was sent is  *)
(* about to be, one that failed changes nothing.                            *)
LEMMA SentWarningKnown ==
    ASSUME IInv, SendWarning
    PROVE  WarningKnown'
<1>1. TypeOK /\ Sym \in Symbols
  BY SymType DEF IInv
<1>2. PICK result \in {"sent", "failed", "suppressed"} :
         /\ \/ /\ result = "suppressed"
               /\ last_warning' = WarningMemory(result)
               /\ NextInstrument
            \/ /\ result # "suppressed"
               /\ work' = [work EXCEPT !.result = result]
               /\ pc' = "record_warning"
               /\ UNCHANGED <<idx, last_warning>>
         /\ warned' = [warned EXCEPT ![Sym] =
                          IF result = "failed" THEN warned[Sym]
                                               ELSE work.checked_at]
  BY SendResultsType DEF SendWarning
<1>3. \A s \in Symbols : warned[s] \in {None, last_warning[s]}
  BY DEF IInv, WarningKnown, SendWarning
<1>4. CASE result = "suppressed"
  <2>1. \A s \in Symbols : warned'[s] \in {None, last_warning'[s]}
    BY <1>1, <1>2, <1>3, <1>4 DEF TypeOK, WarningMemory
  <2>2. pc' # "record_warning"
    BY <1>2, <1>4 DEF NextInstrument
  <2>3. QED
    BY <2>1, <2>2 DEF WarningKnown
<1>5. CASE result # "suppressed"
  <2>1. /\ work'.result = result /\ work'.checked_at = work.checked_at
        /\ Sym' = Sym /\ UNCHANGED last_warning
    BY <1>1, <1>2, <1>5 DEF TypeOK, Work, Sym
  <2>2. \A s \in Symbols :
           IF s = Sym /\ result = "sent"
              THEN warned'[s] = work.checked_at
              ELSE warned'[s] \in {None, last_warning[s]}
    BY <1>1, <1>2, <1>3, <1>5 DEF TypeOK
  <2>3. QED
    BY <1>2, <1>5, <2>1, <2>2 DEF WarningKnown
<1>6. QED
  BY <1>4, <1>5

(* The row of a sent warning is saved, and the warning remembered; or it is  *)
(* not, and the warning is lost.                                            *)
LEMMA RecordedWarningKnown ==
    ASSUME IInv, RecordWarning
    PROVE  WarningKnown'
<1>1. TypeOK /\ Sym \in Symbols /\ work.result \in {"sent", "failed"}
  BY SymType DEF IInv, WarningKnown, RecordWarning
<1>2. \A s \in Symbols :
         IF s = Sym /\ work.result = "sent"
            THEN warned[s] = work.checked_at
            ELSE warned[s] \in {None, last_warning[s]}
  BY DEF IInv, WarningKnown, RecordWarning
<1>3. pc' # "record_warning"
  BY DEF RecordWarning, DatabaseRaises, NextInstrument
<1>4. CASE last_warning' = WarningMemory(work.result) /\ UNCHANGED warned
  <2>1. \A s \in Symbols : warned'[s] \in {None, last_warning'[s]}
    BY <1>1, <1>2, <1>4 DEF TypeOK, WarningMemory
  <2>2. QED
    BY <1>3, <2>1 DEF WarningKnown
<1>5. CASE /\ warned' = [warned EXCEPT ![Sym] =
                            IF work.result = "sent" THEN None ELSE warned[Sym]]
           /\ UNCHANGED last_warning
  <2>1. \A s \in Symbols : warned'[s] \in {None, last_warning'[s]}
    BY <1>1, <1>2, <1>5 DEF TypeOK
  <2>2. QED
    BY <1>3, <2>1 DEF WarningKnown
<1>6. QED
  BY <1>4, <1>5 DEF RecordWarning

LEMMA InvariantWarning ==
    ASSUME IInv, SkipWarning \/ SendWarning \/ RecordWarning
    PROVE  IInv'
<1>1. TypeOK' /\ TypeOK
  BY TypeWarning DEF IInv
<1>2. /\ UNCHANGED <<clock, store, notified, alerts>>
      /\ pc \in {"warn", "record_warning"}
      /\ pc' \in {"idle", "fetch_market", "record_warning"}
  BY DEF SkipWarning, SendWarning, RecordWarning, DatabaseRaises,
         NextInstrument, history
<1>3. TimesTaken' /\ BadDataEnds'
  <2>1. CASE pc' # "record_warning"
    BY <1>2, <2>1 DEF TimesTaken, BadDataEnds
  <2>2. CASE pc' = "record_warning"
    <3>1. \E result \in SendResults : work' = [work EXCEPT !.result = result]
      BY <2>2 DEF SkipWarning, SendWarning, RecordWarning, DatabaseRaises,
                  NextInstrument
    <3>2. work'.checked_at = work.checked_at
      BY <1>1, <3>1 DEF TypeOK, Work
    <3>3. QED
      BY <1>2, <2>2, <3>2 DEF IInv, TimesTaken, BadDataEnds
  <2>3. QED
    BY <2>1, <2>2
<1>4. CASE SkipWarning
  <2>1. WarningKnown'
    BY <1>4, WarningsAlone DEF SkipWarning, NextInstrument, history
  <2>2. QED
    BY <1>1, <1>2, <1>3, <2>1, QuietStep
<1>5. CASE SendWarning
  BY <1>1, <1>2, <1>3, <1>5, SentWarningKnown, QuietStep
<1>6. CASE RecordWarning
  BY <1>1, <1>2, <1>3, <1>6, RecordedWarningKnown, QuietStep
<1>7. QED
  BY <1>4, <1>5, <1>6

LEMMA InvariantEvaluate ==
    ASSUME IInv, Evaluate
    PROVE  IInv'
<1> DEFINE st == store[Sym]
           d == GoodDecision(work.reading, work.received, clock, st)
<1>1. TypeOK' /\ TypeOK /\ Sym \in Symbols
  BY TypeEvaluate, SymType DEF IInv
<1>2. st \in AlertState /\ clock \in Int
  BY <1>1 DEF TypeOK
<1>3. /\ d \in Decision
      /\ d.remaining = CooldownRemaining(st.last_alert, clock)
      /\ d.state \in {"normal", "watching", "signal_active", "cooldown"}
      /\ d.state = "normal" => d.confirmations = 0
      /\ d.state \in ActiveStates =>
            d.reasons = {} /\ d.confirmations >= MinConfirmations
      /\ d.state = "cooldown" => d.remaining > 0
      /\ d.should_alert => d.state = "signal_active" /\ d.remaining = 0
      /\ d.should_alert /\ ~RepeatAlertWhileActive => st.state \notin ActiveStates
      /\ d.reasons = {} /\ st.state \in ActiveStates
            /\ st.confirmations >= MinConfirmations =>
            d.state \in ActiveStates
  BY <1>2, GoodDecisionIs
<1>4. /\ \/ /\ work' = [work EXCEPT !.base = st, !.decision = d]
            /\ pc' = IF d.should_alert THEN "send" ELSE "update"
            /\ UNCHANGED idx
         \/ DatabaseRaises
      /\ alerts' = [alerts EXCEPT ![Sym] =
                       IF d.reasons = {} THEN alerts[Sym] ELSE 0]
      /\ UNCHANGED <<clock, store, last_warning, restarts, notified, warned>>
  BY <1>1, EvaluateIs DEF Observe
<1> HIDE DEF d
<1>5. \A s \in Symbols : alerts'[s] > 0 => alerts[s] > 0
  BY <1>1, <1>4 DEF TypeOK
<1>6. pc = "evaluate"
  BY DEF Evaluate
<1>7. CASE DatabaseRaises
  <2>1. pc' \in {"idle", "fetch_market"}
    BY <1>7 DEF DatabaseRaises, NextInstrument
  <2>2. QED
    BY <1>1, <1>4, <1>5, <1>6, <2>1, QuietStep, WarningsAlone
       DEF TimesTaken, BadDataEnds
<1>8. CASE ~DatabaseRaises
  <2>1. /\ work'.base = st /\ work'.decision = d /\ Sym' = Sym
        /\ pc' = IF d.should_alert THEN "send" ELSE "update"
    BY <1>1, <1>4, <1>8 DEF TypeOK, Work, Sym
  <2>2. d.remaining > 0 => st.last_alert # None
    BY <1>3 DEF CooldownRemaining
  <2>3. ASSUME d.remaining = 0, CooldownSec # 0, st.last_alert # None
        PROVE  clock - st.last_alert >= CooldownMs
    <3>1. st.last_alert \in Int
      BY <1>2, <2>3 DEF AlertState, TimeOrNone
    <3>2. QED
      BY <1>2, <1>3, <2>3, <3>1, RemainingZero
  <2>4. Remembered'
    BY <1>4, <1>6 DEF IInv, Remembered
  <2>5. BaseIsStored'
    BY <1>4, <2>1 DEF BaseIsStored
  <2>6. AlertIsDue'
    BY <1>3, <1>4, <2>1, <2>3 DEF AlertIsDue, ActiveStates
  <2>7. WarningKnown'
    BY <1>4, <1>6, <2>1, WarningsAlone
  <2>8. RecordedIsSent' /\ TimesTaken' /\ BadDataEnds'
    BY <2>1 DEF RecordedIsSent, TimesTaken, BadDataEnds
  <2>9. DecisionConsistent'
    BY <1>3, <1>4, <2>1, <2>2 DEF DecisionConsistent
  <2>10. StoreConsistent'
    BY <1>4 DEF IInv, StoreConsistent
  <2>11. DealtIsActive'
    <3> SUFFICES ASSUME ~RepeatAlertWhileActive
                 PROVE  DealtIsActive'
      BY DEF DealtIsActive
    <3>1. pc' = "send" => store'[Sym'].state \notin ActiveStates
      BY <1>3, <1>4, <2>1
    <3>2. ASSUME NEW s \in Symbols, alerts'[s] > 0, notified'[s] # None
          PROVE  store[s].state \in ActiveStates
      BY <1>4, <1>5, <1>6, <3>2 DEF IInv, DealtIsActive
    <3>3. ASSUME alerts'[Sym] > 0, notified'[Sym] # None
          PROVE  d.state \in ActiveStates
      <4>1. d.reasons = {}
        BY <1>1, <1>4, <3>3 DEF TypeOK
      <4>2. st.state \in ActiveStates /\ st.confirmations >= MinConfirmations
        BY <1>1, <3>2, <3>3 DEF IInv, StoreConsistent
      <4>3. QED
        BY <1>3, <4>1, <4>2
    <3>4. QED
      BY <1>1, <1>4, <2>1, <3>1, <3>2, <3>3 DEF DealtIsActive
  <2>12. QED
    BY <1>1, <2>4, <2>5, <2>6, <2>7, <2>8, <2>9, <2>10, <2>11 DEF IInv
<1>9. QED
  BY <1>7, <1>8

LEMMA InvariantSendAlert ==
    ASSUME IInv, SendAlert
    PROVE  IInv'
<1> DEFINE d == work.decision
<1>1. TypeOK' /\ TypeOK /\ Sym \in Symbols /\ d \in Decision
  BY TypeSendAlert, SymType DEF IInv, TypeOK, Work
<1>2. PICK result \in {"sent", "failed", "suppressed"} :
         /\ work' = [work EXCEPT !.result = result,
                                 !.decision = AfterSend(d, result)]
         /\ pc' = IF result = "suppressed" THEN "update" ELSE "record"
         /\ notified' = [notified EXCEPT ![Sym] =
                            IF result = "failed" THEN notified[Sym] ELSE clock]
         /\ alerts' = [alerts EXCEPT ![Sym] =
                          IF result = "failed" THEN alerts[Sym]
                                               ELSE Count(alerts[Sym], 2)]
  BY SendResultsType DEF SendAlert
<1> DEFINE e == AfterSend(d, result)
<1>3. /\ pc = "send" /\ Sym' = Sym
      /\ UNCHANGED <<clock, idx, store, last_warning, warned>>
  BY DEF SendAlert, Sym
<1>4. /\ work'.base = work.base
      /\ work'.decision = e
      /\ work'.result = result
  BY <1>1, <1>2 DEF TypeOK, Work
<1>5. /\ e.confirmations = d.confirmations
      /\ result = "sent" => e = d
      /\ result = "failed" => e.state = "watching" /\ ~StartsCooldown(e)
      /\ result = "suppressed" => e.state = "cooldown" /\ StartsCooldown(e)
  BY <1>1, AfterSendIs
<1> HIDE DEF e
<1>6. /\ d.should_alert /\ d.confirmations >= MinConfirmations
      /\ StartsCooldown(d)
      /\ work.base = store[Sym]
  BY <1>3 DEF IInv, AlertIsDue, BaseIsStored, StartsCooldown
<1>7. Remembered'
  <2>1. ASSUME NEW s \in Symbols, s # Sym, notified'[s] # None
        PROVE  /\ notified'[s] <= clock
               /\ store[s].last_alert # None
               /\ notified'[s] <= store[s].last_alert
    BY <1>1, <1>2, <1>3, <2>1 DEF IInv, Remembered, TypeOK
  <2>2. CASE result = "failed"
    <3>1. notified' = notified
      BY <1>1, <1>2, <2>2 DEF TypeOK
    <3>2. QED
      BY <1>3, <3>1 DEF IInv, Remembered
  <2>3. CASE result # "failed"
    <3>1. notified'[Sym] = clock /\ clock \in Nat
      BY <1>1, <1>2, <2>3 DEF TypeOK
    <3>2. StartsCooldown(work'.decision) /\ pc' \in {"record", "update"}
      BY <1>2, <1>4, <1>5, <1>6, <2>3
    <3>3. QED
      BY <1>3, <2>1, <3>1, <3>2 DEF Remembered
  <2>4. QED
    BY <2>2, <2>3
<1>8. BaseIsStored' /\ AlertIsDue' /\ TimesTaken' /\ WarningKnown' /\ BadDataEnds'
  <2>1. WarningKnown'
    BY <1>2, <1>3, WarningsAlone
  <2>2. QED
    BY <1>2, <1>3, <1>4, <1>6, <2>1
       DEF BaseIsStored, AlertIsDue, TimesTaken, BadDataEnds
<1>9. RecordedIsSent'
  BY <1>2, <1>4, <1>5 DEF RecordedIsSent
<1>10. DecisionConsistent'
  <2>1. /\ e.state = "cooldown" => store[Sym].last_alert # None \/ StartsCooldown(e)
        /\ e.state \in ActiveStates => e.confirmations >= MinConfirmations
        /\ e.state \in {"normal", "data_invalid"} => e.confirmations = 0
    BY <1>3, <1>5, <1>6 DEF IInv, DecisionConsistent
  <2>2. QED
    BY <1>3, <1>4, <2>1 DEF DecisionConsistent
<1>11. StoreConsistent'
  BY <1>3 DEF IInv, StoreConsistent
<1>12. DealtIsActive'
  <2> SUFFICES ASSUME ~RepeatAlertWhileActive
               PROVE  DealtIsActive'
    BY DEF DealtIsActive
  <2>1. ASSUME NEW s \in Symbols, s # Sym, alerts'[s] > 0, notified'[s] # None
        PROVE  store[s].state \in ActiveStates
    <3>1. alerts[s] > 0 /\ notified[s] # None
      BY <1>1, <1>2, <2>1 DEF TypeOK
    <3>2. QED
      BY <1>3, <2>1, <3>1 DEF IInv, DealtIsActive
  <2>2. ASSUME alerts'[Sym] > 0, notified'[Sym] # None
        PROVE  e.state \in ActiveStates
    <3>1. result # "failed"
      <4> SUFFICES ASSUME result = "failed" PROVE FALSE
        OBVIOUS
      <4>1. alerts[Sym] > 0 /\ notified[Sym] # None
        BY <1>1, <1>2, <2>2 DEF TypeOK
      <4>2. QED
        BY <1>1, <1>3, <4>1 DEF IInv, DealtIsActive
    <3>2. CASE result = "suppressed"
      BY <1>5, <3>2 DEF ActiveStates
    <3>3. CASE result = "sent"
      BY <1>3, <1>5, <3>3 DEF IInv, AlertIsDue, ActiveStates
    <3>4. QED
      BY <3>1, <3>2, <3>3
  <2>3. QED
    BY <1>1, <1>2, <1>3, <1>4, <2>1, <2>2 DEF DealtIsActive
<1>13. QED
  BY <1>1, <1>7, <1>8, <1>9, <1>10, <1>11, <1>12 DEF IInv

LEMMA InvariantRecordAlert ==
    ASSUME IInv, RecordAlert
    PROVE  IInv'
<1>1. TypeOK' /\ TypeOK /\ Sym \in Symbols
  BY TypeRecordAlert, SymType DEF IInv
<1>2. pc = "record" /\ UNCHANGED <<clock, store, last_warning, alerts, warned>>
  BY DEF RecordAlert
<1>3. CASE pc' = "update" /\ UNCHANGED <<idx, work, notified>>
  <2>1. Sym' = Sym
    BY <1>3 DEF Sym
  <2>2. Remembered' /\ DealtIsActive'
    BY <1>2, <1>3, <2>1 DEF IInv, Remembered, DealtIsActive
  <2>3. BaseIsStored' /\ DecisionConsistent' /\ StoreConsistent'
    BY <1>2, <1>3, <2>1
       DEF IInv, BaseIsStored, DecisionConsistent, StoreConsistent
  <2>4. WarningKnown'
    BY <1>2, <1>3, WarningsAlone
  <2>5. QED
    BY <1>1, <1>3, <2>2, <2>3, <2>4
       DEF IInv, AlertIsDue, RecordedIsSent, TimesTaken, BadDataEnds
<1>4. CASE /\ DatabaseRaises
           /\ notified' = [notified EXCEPT ![Sym] =
                              IF work.result = "sent" THEN None ELSE notified[Sym]]
  <2>1. pc' \in {"idle", "fetch_market"}
    BY <1>4 DEF DatabaseRaises, NextInstrument
  <2>2. ASSUME NEW s \in Symbols, notified'[s] # None
        PROVE  /\ notified[s] # None /\ notified'[s] = notified[s]
               /\ s = Sym => work.decision.state = "watching"
                             /\ ~StartsCooldown(work.decision)
    BY <1>1, <1>2, <1>4, <2>2 DEF IInv, RecordedIsSent, TypeOK
  <2>3. Remembered'
    BY <1>2, <2>1, <2>2 DEF IInv, Remembered
  <2>4. DealtIsActive'
    <3>1. ASSUME ~RepeatAlertWhileActive, NEW s \in Symbols,
                 alerts'[s] > 0, notified'[s] # None
          PROVE  store'[s].state \in ActiveStates
      <4>1. s # Sym
        BY <1>2, <2>2, <3>1 DEF IInv, DealtIsActive, ActiveStates
      <4>2. QED
        BY <1>2, <2>2, <3>1, <4>1 DEF IInv, DealtIsActive
    <3>2. QED
      BY <2>1, <3>1 DEF DealtIsActive
  <2>5. StoreConsistent'
    BY <1>2 DEF IInv, StoreConsistent
  <2>6. WarningKnown'
    BY <1>2, <2>1, WarningsAlone
  <2>7. QED
    BY <1>1, <2>1, <2>3, <2>4, <2>5, <2>6
       DEF IInv, BaseIsStored, AlertIsDue, RecordedIsSent, DecisionConsistent,
           TimesTaken, BadDataEnds
<1>5. QED
  BY <1>3, <1>4 DEF RecordAlert

LEMMA InvariantUpdateState ==
    ASSUME IInv, UpdateState
    PROVE  IInv'
<1> DEFINE st == store[Sym]
           d == work.decision
           u == UpdateAlertState(st, d, clock)
<1>1. TypeOK' /\ TypeOK /\ Sym \in Symbols
  BY TypeUpdateState, SymType DEF IInv
<1>2. st \in AlertState /\ d \in Decision /\ clock \in Nat
  BY <1>1 DEF TypeOK, Work
<1>3. /\ u.state = d.state
      /\ u.confirmations = d.confirmations
      /\ u.last_alert = IF StartsCooldown(d) THEN clock ELSE st.last_alert
      /\ d.state \notin ActiveStates => u.started = None
      /\ d.state \in ActiveStates =>
            u.started = IF st.state \in ActiveStates THEN st.started ELSE clock
  BY <1>2, UpdateIs
<1>4. /\ pc = "update"
      /\ store' = [store EXCEPT ![Sym] = u]
      /\ pc' \in {"idle", "fetch_market"}
      /\ UNCHANGED <<clock, last_warning, notified, alerts, warned>>
  BY DEF UpdateState, NextInstrument, history, IInv, BaseIsStored
<1> HIDE DEF u
<1>5. /\ store'[Sym] = u
      /\ \A s \in Symbols : s # Sym => store'[s] = store[s]
  BY <1>1, <1>4 DEF TypeOK
<1>6. Remembered'
  <2>1. ASSUME NEW s \in Symbols, notified[s] # None
        PROVE  /\ notified[s] <= clock
               /\ store'[s].last_alert # None
               /\ notified[s] <= store'[s].last_alert
    <3>1. clock # None
      BY <1>2, NoneIsNoTime
    <3>2. CASE s # Sym
      BY <1>4, <1>5, <2>1, <3>2 DEF IInv, Remembered
    <3>3. CASE s = Sym /\ StartsCooldown(d)
      BY <1>3, <1>5, <2>1, <3>1, <3>3 DEF IInv, Remembered
    <3>4. CASE s = Sym /\ ~StartsCooldown(d)
      BY <1>3, <1>5, <2>1, <3>4 DEF IInv, Remembered
    <3>5. QED
      BY <3>2, <3>3, <3>4
  <2>2. QED
    BY <1>4, <2>1 DEF Remembered
<1>7. StoreConsistent'
  <2>1. /\ u.state = "cooldown" => u.last_alert # None
        /\ u.state \in ActiveStates <=> u.started # None
        /\ u.state \in ActiveStates => u.confirmations >= MinConfirmations
        /\ u.state \in {"normal", "data_invalid"} => u.confirmations = 0
    BY <1>1, <1>2, <1>3, <1>4, NoneIsNoTime DEF IInv, DecisionConsistent, StoreConsistent
  <2>2. QED
    BY <1>5, <2>1 DEF IInv, StoreConsistent
<1>8. DealtIsActive'
  BY <1>3, <1>4, <1>5 DEF IInv, DealtIsActive
<1>9. WarningKnown'
  BY <1>4, WarningsAlone
<1>10. QED
  BY <1>1, <1>4, <1>6, <1>7, <1>8, <1>9
     DEF IInv, BaseIsStored, AlertIsDue, RecordedIsSent, DecisionConsistent,
         TimesTaken, BadDataEnds

LEMMA InvariantHandleBadData ==
    ASSUME IInv, HandleBadData
    PROVE  IInv'
<1>1. TypeOK' /\ TypeOK /\ Sym \in Symbols
  BY TypeHandleBadData, SymType DEF IInv
<1>2. CASE DatabaseRaises /\ UNCHANGED store
  <2>1. /\ UNCHANGED <<clock, store, last_warning, notified, alerts, warned>>
        /\ pc = "bad_data" /\ pc' \in {"idle", "fetch_market"}
    BY <1>2 DEF HandleBadData, DatabaseRaises, NextInstrument, history
  <2>2. QED
    BY <1>1, <2>1, QuietStep, WarningsAlone DEF TimesTaken, BadDataEnds
<1>3. CASE ~(DatabaseRaises /\ UNCHANGED store)
  <2> DEFINE st == store[Sym]
             d == InvalidDecision(st, work.checked_at)
             u == UpdateAlertState(st, d, work.checked_at)
  <2>1. /\ pc = "bad_data" /\ pc' = "warn"
        /\ store' = [store EXCEPT ![Sym] = u]
        /\ UNCHANGED <<clock, idx, work, last_warning, notified, alerts, warned>>
    BY <1>3 DEF HandleBadData, history
  <2>2. st \in AlertState /\ work.checked_at \in Nat
    BY <1>1, <2>1 DEF TypeOK, IInv, TimesTaken
  <2>3. d \in Decision /\ d.state = "data_invalid" /\ ~StartsCooldown(d)
        /\ d.confirmations = 0
    BY <2>2, InvalidDecisionIs DEF StartsCooldown
  <2> HIDE DEF d
  <2>4. /\ u.state = "data_invalid" /\ u.confirmations = 0
        /\ u.last_alert = st.last_alert /\ u.started = None
    BY <2>2, <2>3, UpdateIs DEF ActiveStates
  <2> HIDE DEF u
  <2>5. /\ store'[Sym] = u
        /\ \A s \in Symbols : s # Sym => store'[s] = store[s]
    BY <1>1, <2>1 DEF TypeOK
  <2>6. Remembered'
    BY <2>1, <2>4, <2>5 DEF IInv, Remembered
  <2>7. StoreConsistent'
    BY <2>4, <2>5 DEF IInv, StoreConsistent, ActiveStates
  <2>8. DealtIsActive'
    <3>1. alerts[Sym] = 0
      BY <2>1 DEF IInv, BadDataEnds
    <3>2. QED
      BY <2>1, <2>5, <3>1 DEF IInv, DealtIsActive
  <2>9. WarningKnown'
    BY <2>1, WarningsAlone
  <2>10. QED
    BY <1>1, <2>1, <2>2, <2>6, <2>7, <2>8, <2>9
       DEF IInv, BaseIsStored, AlertIsDue, RecordedIsSent, DecisionConsistent,
           TimesTaken, BadDataEnds
<1>4. QED
  BY <1>2, <1>3

LEMMA InvariantTick ==
    ASSUME IInv, Tick
    PROVE  IInv'
<1>1. TypeOK' /\ TypeOK
  BY TypeTick DEF IInv
<1>2. /\ clock' = clock + 1 /\ Sym' = Sym
      /\ UNCHANGED <<pc, idx, store, last_warning, work, notified, alerts, warned>>
  BY DEF Tick, app, history, Sym
<1>3. Remembered'
  <2>1. \A s \in Symbols : notified[s] # None /\ notified[s] <= clock =>
            notified[s] <= clock'
    BY <1>1, <1>2 DEF TypeOK
  <2>2. QED
    BY <1>2, <2>1 DEF IInv, Remembered
<1>4. AlertIsDue'
  <2>1. ASSUME pc = "send", store[Sym].last_alert # None,
               clock - store[Sym].last_alert >= CooldownMs
        PROVE  clock' - store[Sym].last_alert >= CooldownMs
    <3>1. store[Sym].last_alert \in Int /\ clock \in Nat
      BY <1>1, <2>1, SymType DEF TypeOK, AlertState, TimeOrNone
    <3>2. QED
      BY <1>2, <2>1, <3>1, CooldownMsType
  <2>2. QED
    BY <1>2, <2>1 DEF IInv, AlertIsDue
<1>5. BaseIsStored' /\ RecordedIsSent' /\ DecisionConsistent' /\ StoreConsistent'
  BY <1>2 DEF IInv, BaseIsStored, RecordedIsSent, DecisionConsistent, StoreConsistent
<1>6. TimesTaken' /\ WarningKnown' /\ DealtIsActive' /\ BadDataEnds'
  BY <1>2 DEF IInv, TimesTaken, WarningKnown, DealtIsActive, BadDataEnds
<1>7. QED
  BY <1>1, <1>3, <1>4, <1>5, <1>6 DEF IInv

LEMMA InvariantRestart ==
    ASSUME IInv, Restart
    PROVE  IInv'
<1>1. TypeOK'
  BY TypeRestart DEF IInv
<1>2. /\ pc' = "idle"
      /\ \A s \in Symbols : /\ notified'[s] = None
                            /\ warned'[s] = None
                            /\ store'[s] = NewAlertState
  BY DEF Restart, Fresh
<1>3. StoreConsistent'
  BY <1>2, NoneIsNoTime DEF StoreConsistent, NewAlertState, ActiveStates
<1>4. Remembered' /\ DealtIsActive'
  BY <1>2 DEF Remembered, DealtIsActive
<1>5. QED
  BY <1>1, <1>2, <1>3, <1>4
     DEF IInv, BaseIsStored, AlertIsDue, RecordedIsSent, DecisionConsistent,
         TimesTaken, WarningKnown, BadDataEnds

LEMMA NextIInv == IInv /\ [Next]_vars => IInv'
<1> SUFFICES ASSUME IInv, [Next]_vars PROVE IInv'
  OBVIOUS
<1>1. CASE UNCHANGED vars
  <2>1. Sym' = Sym
    BY <1>1 DEF vars, app, Sym
  <2>2. QED
    BY <1>1, <2>1
       DEF vars, app, history, IInv, TypeOK, Remembered, BaseIsStored, AlertIsDue,
           RecordedIsSent, DecisionConsistent, StoreConsistent, TimesTaken,
           WarningKnown, DealtIsActive, BadDataEnds
<1>2. CASE Next
  BY <1>2, InvariantFetch, InvariantCheckQuality, InvariantWarning,
     InvariantEvaluate, InvariantSendAlert, InvariantRecordAlert,
     InvariantUpdateState, InvariantHandleBadData, InvariantTick, InvariantRestart
     DEF Next, ProcessSymbol
<1>3. QED
  BY <1>1, <1>2

(* The invariant holds in every reachable state. *)
LEMMA AlwaysIInv == Spec => []IInv
  BY InitIInv, NextIInv, PTL DEF Spec

-----------------------------------------------------------------------------
(***************************************************************************)
(* The theorems.                                                           *)
(***************************************************************************)

(* Every variable of the pipeline keeps its type (app.py, state.py).        *)
THEOREM TypeCorrect == Spec => []TypeOK
<1>1. IInv => TypeOK
  BY DEF IInv
<1>2. QED
  BY <1>1, AlwaysIInv, PTL

LEMMA InvariantSpacing == IInv => AlertSpacing
<1> SUFFICES ASSUME IInv, pc = "send", notified[Sym] # None
             PROVE  clock - notified[Sym] >= CooldownMs
  BY DEF AlertSpacing
<1>1. TypeOK /\ Sym \in Symbols
  BY SymType DEF IInv
<1>2. notified[Sym] \in Nat /\ clock \in Nat /\ store[Sym] \in AlertState
  BY <1>1 DEF TypeOK
<1>3. /\ notified[Sym] <= clock
      /\ store[Sym].last_alert # None
      /\ notified[Sym] <= store[Sym].last_alert
  BY <1>1 DEF IInv, Remembered
<1>4. store[Sym].last_alert \in Int
  BY <1>2, <1>3 DEF AlertState, TimeOrNone
<1>5. CooldownSec = 0 \/ clock - store[Sym].last_alert >= CooldownMs
  BY <1>3 DEF IInv, AlertIsDue
<1>6. QED
  BY <1>2, <1>3, <1>4, <1>5, CooldownMsType

(* The cooldown the engine read still stands when the message goes out,     *)
(* however long the saves in between took and whatever failed before        *)
(* (app.py, _process_symbol; cooldown.py, calc_cooldown_remaining_sec).      *)
THEOREM SpacingHolds == Spec => []AlertSpacing
  BY AlwaysIInv, InvariantSpacing, PTL

(* What the store holds always fits together (state.py, update_alert_state). *)
THEOREM StoreIsConsistent == Spec => []StoreConsistent
<1>1. IInv => StoreConsistent
  BY DEF IInv
<1>2. QED
  BY <1>1, AlwaysIInv, PTL

LEMMA EvaluatedFresh ==
    ASSUME IInv, Next, pc = "evaluate", pc' = "send"
    PROVE  work.received <= clock /\ clock - work.received <= MaxSnapshotAgeMs
<1> DEFINE st == store[Sym]
           d == GoodDecision(work.reading, work.received, clock, st)
           unmet == Unmet(work.reading, work.received, clock,
                          st.state \in ActiveStates)
<1>1. TypeOK /\ Sym \in Symbols /\ work.received \in Nat
  BY SymType DEF IInv, TimesTaken
<1>2. st \in AlertState /\ clock \in Nat /\ MaxSnapshotAgeMs \in Nat
  BY <1>1, EngineParams DEF TypeOK
<1>3. Evaluate
  BY DEF Next, ProcessSymbol, StartCycle, FetchMarket, FetchFunding,
         CheckQuality, SaveMetrics, SendAlert, RecordAlert, UpdateState,
         HandleBadData, SkipWarning, SendWarning, RecordWarning, Tick,
         Restart, Fresh, app
<1>4. d.should_alert
  BY <1>1, <1>3, EvaluateIs DEF DatabaseRaises, NextInstrument
<1>5. d.reasons = {} /\ d.reasons = {r \in Checks : unmet[r]}
  BY <1>2, <1>4, GoodDecisionIs DEF Reasons, ActiveStates
<1>6. ~unmet["snapshot_in_future"] /\ ~unmet["snapshot_stale"]
  <2> HIDE DEF unmet, d
  <2>1. "snapshot_in_future" \in Checks /\ "snapshot_stale" \in Checks
    BY DEF Checks
  <2>2. QED
    BY <1>5, <2>1
<1>7. ~(clock < work.received) /\ ~(clock - work.received > MaxSnapshotAgeMs)
  BY <1>6 DEF Unmet
<1>8. QED
  BY <1>1, <1>2, <1>7

(* No alert is decided on a stale snapshot (engine.py, check 2).            *)
THEOREM DecisionIsFresh == Spec => FreshDecision
<1>1. IInv /\ [Next]_vars =>
         [pc = "evaluate" /\ pc' = "send" =>
            work.received <= clock /\ clock - work.received <= MaxSnapshotAgeMs]_vars
  BY EvaluatedFresh
<1>2. QED
  BY <1>1, AlwaysIInv, PTL DEF Spec, FreshDecision

LEMMA WarningStep ==
    ASSUME IInv, SendWarning, warned[Sym] # None
    PROVE  work.checked_at - warned[Sym] >= WarningCooldownMs
<1>1. Sym \in Symbols
  BY SymType DEF IInv
<1>2. warned[Sym] = last_warning[Sym]
  BY <1>1 DEF IInv, WarningKnown, SendWarning
<1>3. QED
  BY <1>2 DEF SendWarning, WarningDue

(* Between the check of a warning that was sent or suppressed and the check  *)
(* of the next one that goes to Telegram the cooldown passes, whatever fails *)
(* in between, but for a warning the program lost: at a restart, or when its *)
(* row could not be saved (app.py, _maybe_send_quality_warning).             *)
THEOREM WarningsAreSpaced == Spec => WarningSpacing
<1>1. IInv =>
         (SendWarning =>
            \/ warned[Sym] = None
            \/ work.checked_at - warned[Sym] >= WarningCooldownMs)
  BY WarningStep
<1>2. QED
  BY <1>1, AlwaysIInv, PTL DEF Spec, WarningSpacing

-----------------------------------------------------------------------------
(***************************************************************************)
(* MonitorApp implements AlertPolicy.                                      *)
(***************************************************************************)
Dealt == [s \in Symbols |-> alerts[s] > 0 /\ notified[s] # None]

LEMMA PolicyInit == Init => Policy!Init
<1> SUFFICES ASSUME Init PROVE Policy!Init
  OBVIOUS
<1>1. clock \in Nat
  BY ClockBounds DEF Init
<1>2. notified = [s \in Symbols |-> None]
  BY DEF Init
<1>3. Dealt = [s \in Symbols |-> FALSE]
  BY <1>2 DEF Dealt
<1>4. QED
  BY <1>1, <1>2, <1>3 DEF Policy!Init, Dealt

(* What a quality check or an evaluation shows about a symbol ends its       *)
(* episode or leaves it as it was.                                          *)
LEMMA PolicyObserve ==
    ASSUME TypeOK, UNCHANGED <<clock, notified>>,
           NEW good, NEW run, Observe(Sym, good, run)
    PROVE  Policy!Next \/ UNCHANGED Policy!policyVars
<1>1. Sym \in Symbols /\ alerts \in [Symbols -> 0 .. 2]
  BY SymType DEF TypeOK
<1> PICK q \in Symbols : q = Sym
  BY <1>1
<1>2. alerts' = [alerts EXCEPT ![q] = IF good THEN alerts[q] ELSE 0]
  BY DEF Observe
<1>3. CASE good
  <2>1. alerts' = alerts
    BY <1>1, <1>2, <1>3
  <2>2. QED
    BY <2>1 DEF Policy!policyVars
<1>4. CASE ~good
  <2>1. Dealt' = [Dealt EXCEPT ![q] = FALSE]
    <3>1. /\ \A s \in Symbols : alerts'[s] = IF s = q THEN 0 ELSE alerts[s]
          /\ \A s \in Symbols : notified'[s] = notified[s]
      BY <1>1, <1>2, <1>4
    <3>2. ASSUME NEW s \in Symbols
          PROVE  (alerts'[s] > 0 /\ notified'[s] # None) =
                    (IF s = q THEN FALSE ELSE alerts[s] > 0 /\ notified[s] # None)
      <4>1. CASE s = q
        <5>1. ~(alerts'[s] > 0)
          BY <3>1, <4>1
        <5>2. QED
          BY <4>1, <5>1
      <4>2. CASE s # q
        <5>1. alerts'[s] = alerts[s] /\ notified'[s] = notified[s]
          BY <3>1, <4>2
        <5>2. QED
          BY <4>2, <5>1
      <4>3. QED
        BY <4>1, <4>2
    <3>3. QED
      BY <3>2 DEF Dealt
  <2>2. Policy!EpisodeEnds(q)
    BY <2>1 DEF Policy!EpisodeEnds, Dealt
  <2>3. QED
    BY <1>1, <2>2 DEF Policy!Next
<1>5. QED
  BY <1>3, <1>4

(* A delivered or suppressed alert is an alert of the policy; a failed one   *)
(* is nothing at all.                                                       *)
LEMMA PolicySend ==
    ASSUME IInv, SendAlert
    PROVE  Policy!Next \/ UNCHANGED Policy!policyVars
<1> PICK q \in Symbols : q = Sym
  BY SymType DEF IInv
<1>1. TypeOK /\ alerts[q] \in 0 .. 2
      /\ alerts \in [Symbols -> 0 .. 2]
      /\ notified \in [Symbols -> Nat \cup {None}] /\ clock \in Nat
  BY SymType DEF IInv, TypeOK
<1>2. PICK result \in {"sent", "failed", "suppressed"} :
         /\ notified' = [notified EXCEPT ![q] =
                            IF result = "failed" THEN notified[q] ELSE clock]
         /\ alerts' = [alerts EXCEPT ![q] =
                          IF result = "failed" THEN alerts[q]
                                               ELSE Count(alerts[q], 2)]
  BY SendResultsType DEF SendAlert
<1>3. pc = "send" /\ UNCHANGED clock
  BY DEF SendAlert
<1>4. CASE result = "failed"
  <2>1. alerts' = alerts /\ notified' = notified
    BY <1>1, <1>2, <1>4
  <2>2. QED
    BY <1>3, <2>1 DEF Policy!policyVars
<1>5. CASE result # "failed"
  <2>1. notified' = [notified EXCEPT ![q] = clock]
    BY <1>2, <1>5
  <2>2. Dealt' = [Dealt EXCEPT ![q] = TRUE]
    <3>1. Count(alerts[q], 2) > 0 /\ clock # None
      BY <1>1, NoneIsNoTime DEF Count
    <3>2. alerts' = [alerts EXCEPT ![q] = Count(alerts[q], 2)]
      BY <1>2, <1>5
    <3>3. \A s \in Symbols :
             (alerts'[s] > 0 /\ notified'[s] # None) =
                (IF s = q THEN TRUE ELSE alerts[s] > 0 /\ notified[s] # None)
      BY <1>1, <2>1, <3>1, <3>2
    <3>4. QED
      BY <1>1, <3>3 DEF Dealt
  <2>3. notified[q] = None \/ clock - notified[q] >= CooldownMs
    BY <1>3, InvariantSpacing DEF AlertSpacing
  <2>4. ~Dealt[q] \/ RepeatAlertWhileActive
    BY <1>1, <1>3 DEF IInv, DealtIsActive, Dealt
  <2>5. Policy!Alert(q)
    BY <1>3, <2>1, <2>2, <2>3, <2>4 DEF Policy!Alert, Dealt
  <2>6. QED
    BY <1>1, <2>5 DEF Policy!Next
<1>6. QED
  BY <1>4, <1>5

(* An alert row that cannot be saved, and a restart, forget.                *)
LEMMA PolicyRecord ==
    ASSUME IInv, RecordAlert
    PROVE  Policy!Next \/ UNCHANGED Policy!policyVars
<1> PICK q \in Symbols : q = Sym
  BY SymType DEF IInv
<1>1. notified \in [Symbols -> Nat \cup {None}]
  BY SymType DEF IInv, TypeOK
<1>2. UNCHANGED <<clock, alerts>>
  BY DEF RecordAlert
<1>3. CASE UNCHANGED notified
  BY <1>2, <1>3 DEF Policy!policyVars
<1>4. CASE notified' = [notified EXCEPT ![q] = None]
  <2>1. notified' = [s \in Symbols |-> IF s \in {q} THEN None ELSE notified[s]]
    BY <1>1, <1>4
  <2>2. Dealt' = [s \in Symbols |-> Dealt[s] /\ s \notin {q}]
    BY <1>1, <1>2, <1>4 DEF Dealt
  <2>3. Policy!Forget({q})
    BY <1>2, <2>1, <2>2 DEF Policy!Forget, Dealt
  <2>4. QED
    BY <1>1, <2>3 DEF Policy!Next
<1>5. QED
  <2>1. CASE UNCHANGED notified
    BY <1>3, <2>1
  <2>2. CASE notified' = [notified EXCEPT ![q] =
                            IF work.result = "sent" THEN None ELSE notified[q]]
    BY <1>1, <1>3, <1>4, <2>2
  <2>3. QED
    BY <2>1, <2>2 DEF RecordAlert

LEMMA PolicyRestart ==
    ASSUME IInv, Restart
    PROVE  Policy!Next
<1>1. notified' = [s \in Symbols |-> IF s \in Symbols THEN None ELSE notified[s]]
  BY DEF Restart
<1>2. Dealt' = [s \in Symbols |-> Dealt[s] /\ s \notin Symbols]
  BY DEF Restart, Dealt
<1>3. Policy!Forget(Symbols)
  BY <1>1, <1>2 DEF Policy!Forget, Dealt, Restart
<1>4. QED
  BY <1>3 DEF Policy!Next

LEMMA PolicyNext ==
    ASSUME IInv, [Next]_vars
    PROVE  Policy!Next \/ UNCHANGED Policy!policyVars
<1>1. TypeOK
  BY DEF IInv
<1>2. CASE UNCHANGED vars
  BY <1>2 DEF vars, history, Policy!policyVars
<1>3. CASE CheckQuality
  BY <1>1, <1>3, PolicyObserve DEF CheckQuality
<1>4. CASE Evaluate
  BY <1>1, <1>4, PolicyObserve, EvaluateIs
<1>5. CASE Tick
  <2>1. Policy!Pass
    BY <1>1, <1>5 DEF Tick, TypeOK, history, Policy!Pass
  <2>2. QED
    BY <2>1 DEF Policy!Next
<1>6. CASE \/ StartCycle \/ FetchMarket \/ FetchFunding \/ SaveMetrics
           \/ UpdateState \/ HandleBadData
           \/ SkipWarning \/ SendWarning \/ RecordWarning
  BY <1>6
     DEF StartCycle, FetchMarket, FetchFunding, SaveMetrics, UpdateState,
         HandleBadData, SkipWarning, SendWarning, RecordWarning,
         history, Policy!policyVars
<1>7. QED
  BY <1>2, <1>3, <1>4, <1>5, <1>6, PolicySend, PolicyRecord, PolicyRestart
     DEF Next, ProcessSymbol

(* The pipeline keeps the promise of AlertPolicy, whatever fails (app.py).  *)
THEOREM Refinement == Spec => ImplementsPolicy
<1>1. IInv /\ [Next]_vars => [Policy!Next]_(Policy!policyVars)
  BY PolicyNext
<1>2. QED
  BY <1>1, PolicyInit, AlwaysIInv, PTL DEF Spec, ImplementsPolicy, Policy!Spec

-----------------------------------------------------------------------------
(***************************************************************************)
(* What holds as long as the database does not fail.                       *)
(***************************************************************************)

(* The confirmations in the store, or on their way to it, are good          *)
(* evaluations in a row.                                                    *)
StreakBehind ==
    \A s \in Symbols :
        IF s = Sym /\ pc \in {"send", "record", "update"}
           THEN work.decision.confirmations <= streak[s]
           ELSE \/ s = Sym /\ pc = "bad_data"
                \/ PreviousConfirmations(store[s]) <= streak[s]

(* An episode's alert is never forgotten while the episode lasts. *)
AlertsKnown ==
    \A s \in Symbols : alerts[s] > 0 => notified[s] # None

DInv == IInv /\ StreakBehind /\ AlertsKnown /\ OneAlertPerEpisode

LEMMA PreviousIsNat ==
    ASSUME TypeOK, NEW s \in Symbols
    PROVE  PreviousConfirmations(store[s]) \in 0 .. ConfirmationCap
  BY EngineScale DEF TypeOK, AlertState, PreviousConfirmations

LEMMA InitDInv == Init => DInv
<1> SUFFICES ASSUME Init PROVE DInv
  OBVIOUS
<1>1. \A s \in Symbols : /\ store[s] = NewAlertState
                        /\ streak[s] = 0 /\ alerts[s] = 0
  BY DEF Init, Fresh
<1>2. pc = "idle"
  BY DEF Init, Fresh
<1>3. StreakBehind
  BY <1>1, <1>2 DEF StreakBehind, NewAlertState, PreviousConfirmations
<1>4. QED
  BY <1>1, <1>3, InitIInv DEF DInv, AlertsKnown, OneAlertPerEpisode

(* Steps that touch neither the store nor the history.                      *)
LEMMA IdleStep ==
    ASSUME DInv, TypeOK', UNCHANGED <<store, notified, streak, alerts>>,
           pc \notin {"send", "record", "update", "bad_data"},
           pc' \notin {"send", "record", "update"}
    PROVE  StreakBehind' /\ AlertsKnown' /\ OneAlertPerEpisode'
  BY DEF DInv, StreakBehind, AlertsKnown, OneAlertPerEpisode

LEMMA StreakObserve ==
    ASSUME DInv, CheckQuality \/ Evaluate, ~DatabaseRaises
    PROVE  StreakBehind' /\ AlertsKnown' /\ OneAlertPerEpisode'
<1>1. TypeOK /\ Sym \in Symbols
  BY SymType DEF DInv, IInv
<1>2. PICK good \in BOOLEAN, run \in 0 .. ConfirmationCap : Observe(Sym, good, run)
  <2>1. streak[Sym] \in 0 .. ConfirmationCap
    BY <1>1 DEF TypeOK
  <2>2. Count(streak[Sym], ConfirmationCap) \in 0 .. ConfirmationCap
    BY <2>1, EngineScale DEF Count
  <2>3. CASE CheckQuality
    BY <2>1, <2>3 DEF CheckQuality, QualityOk
  <2>4. CASE Evaluate
    BY <1>1, <2>2, <2>4, EvaluateIs
  <2>5. QED
    BY <2>3, <2>4
<1>3. /\ \A s \in Symbols : alerts'[s] = alerts[s] \/ alerts'[s] = 0
      /\ \A s \in Symbols : s # Sym => streak'[s] = streak[s]
      /\ UNCHANGED <<store, notified>>
  BY <1>1, <1>2 DEF CheckQuality, Evaluate, Observe, TypeOK
<1>4. AlertsKnown' /\ OneAlertPerEpisode'
  BY <1>3 DEF DInv, AlertsKnown, OneAlertPerEpisode
<1>5. /\ Sym' = Sym
      /\ \A s \in Symbols : PreviousConfirmations(store[s]) <= streak[s]
  BY DEF DInv, StreakBehind, CheckQuality, Evaluate, DatabaseRaises, Sym
<1>6. CASE CheckQuality
  <2>1. pc' # "bad_data" => streak'[Sym] = streak[Sym] /\ pc' = "metrics"
    BY <1>1, <1>6 DEF CheckQuality, Observe, TypeOK
  <2>2. pc' = "bad_data" \/ pc' = "metrics"
    BY <2>1
  <2>3. QED
    BY <1>3, <1>4, <1>5, <2>1, <2>2 DEF StreakBehind
<1>7. CASE Evaluate
  <2> DEFINE st == store[Sym]
             d == GoodDecision(work.reading, work.received, clock, st)
  <2>1. /\ work'.decision = d /\ pc' \in {"send", "update"}
        /\ streak'[Sym] = IF d.reasons = {}
                            THEN Count(streak[Sym], ConfirmationCap) ELSE 0
    BY <1>1, <1>7, EvaluateIs DEF Observe, TypeOK, Work
  <2>2. /\ d.confirmations = NextConfirmations(st, d.reasons = {})
    BY DEF GoodDecision
  <2> HIDE DEF d
  <2>3. PreviousConfirmations(st) \in 0 .. ConfirmationCap
        /\ streak[Sym] \in 0 .. ConfirmationCap
        /\ PreviousConfirmations(st) <= streak[Sym]
    BY <1>1, <1>5, PreviousIsNat DEF TypeOK
  <2>4. d.confirmations <= streak'[Sym]
    BY <2>1, <2>2, <2>3, EngineScale DEF NextConfirmations, Count
  <2>5. QED
    BY <1>3, <1>4, <1>5, <2>1, <2>4 DEF StreakBehind
<1>8. QED
  BY <1>6, <1>7

LEMMA StreakSend ==
    ASSUME DInv, SendAlert
    PROVE  StreakBehind' /\ AlertsKnown' /\ OneAlertPerEpisode'
<1>1. TypeOK /\ Sym \in Symbols /\ work.decision \in Decision /\ clock \in Nat
  BY SymType DEF DInv, IInv, TypeOK, Work
<1>2. PICK result \in {"sent", "failed", "suppressed"} :
         /\ work' = [work EXCEPT !.result = result,
                                 !.decision = AfterSend(work.decision, result)]
         /\ pc' = IF result = "suppressed" THEN "update" ELSE "record"
         /\ notified' = [notified EXCEPT ![Sym] =
                            IF result = "failed" THEN notified[Sym] ELSE clock]
         /\ alerts' = [alerts EXCEPT ![Sym] =
                          IF result = "failed" THEN alerts[Sym]
                                               ELSE Count(alerts[Sym], 2)]
  BY SendResultsType DEF SendAlert
<1>3. pc = "send" /\ Sym' = Sym /\ UNCHANGED <<store, streak>>
  BY DEF SendAlert, Sym
<1>4. work'.decision.confirmations = work.decision.confirmations
  BY <1>1, <1>2, AfterSendIs DEF TypeOK, Work
<1>5. StreakBehind'
  BY <1>2, <1>3, <1>4 DEF DInv, StreakBehind
<1>6. AlertsKnown'
  <2>1. ASSUME NEW s \in Symbols, alerts'[s] > 0
        PROVE  notified'[s] # None
    <3>1. CASE s = Sym /\ result # "failed"
      BY <1>1, <1>2, <3>1, NoneIsNoTime DEF TypeOK
    <3>2. CASE s # Sym \/ result = "failed"
      BY <1>1, <1>2, <2>1, <3>2 DEF TypeOK, DInv, AlertsKnown
    <3>3. QED
      BY <3>1, <3>2
  <2>2. QED
    BY <2>1 DEF AlertsKnown
<1>7. OneAlertPerEpisode'
  <2> SUFFICES ASSUME ~RepeatAlertWhileActive, NEW s \in Symbols
               PROVE  alerts'[s] <= 1
    BY DEF OneAlertPerEpisode
  <2>1. CASE s # Sym
    BY <1>1, <1>2, <2>1 DEF TypeOK, DInv, OneAlertPerEpisode
  <2>2. CASE s = Sym
    <3>1. ~(alerts[Sym] > 0)
      BY <1>1, <1>3 DEF DInv, IInv, AlertsKnown, DealtIsActive
    <3>2. alerts[Sym] = 0
      <4>1. alerts[Sym] \in 0 .. 2
        BY <1>1 DEF TypeOK
      <4>2. QED
        BY <3>1, <4>1
    <3>3. QED
      BY <1>1, <1>2, <2>2, <3>2 DEF TypeOK, Count
  <2>3. QED
    BY <2>1, <2>2
<1>8. QED
  BY <1>5, <1>6, <1>7

LEMMA StreakUpdate ==
    ASSUME DInv, UpdateState \/ HandleBadData, ~DatabaseRaises
    PROVE  StreakBehind' /\ AlertsKnown' /\ OneAlertPerEpisode'
<1>1. TypeOK /\ Sym \in Symbols
  BY SymType DEF DInv, IInv
<1>2. /\ UNCHANGED <<notified, streak, alerts>>
      /\ pc \in {"update", "bad_data"}
      /\ pc' \notin {"send", "record", "update", "bad_data"}
  BY DEF UpdateState, HandleBadData, NextInstrument, history
<1>3. PICK u : /\ store' = [store EXCEPT ![Sym] = u]
               /\ PreviousConfirmations(u) <= streak[Sym]
  <2>1. CASE UpdateState
    <3> DEFINE v == UpdateAlertState(work.base, work.decision, clock)
    <3>1. work.decision.confirmations <= streak[Sym]
      BY <1>1, <2>1 DEF UpdateState, DInv, StreakBehind
    <3>2. v.confirmations = work.decision.confirmations
      BY DEF UpdateAlertState
    <3>3. 0 <= streak[Sym]
      BY <1>1 DEF TypeOK
    <3>4. PreviousConfirmations(v) <= streak[Sym]
      BY <3>1, <3>2, <3>3 DEF PreviousConfirmations
    <3>5. QED
      BY <2>1, <3>4 DEF UpdateState
  <2>2. CASE HandleBadData
    <3> DEFINE d == InvalidDecision(store[Sym], work.checked_at)
               v == UpdateAlertState(store[Sym], d, work.checked_at)
    <3>1. v.state = "data_invalid"
      BY DEF UpdateAlertState, InvalidDecision
    <3>2. PreviousConfirmations(v) <= streak[Sym]
      BY <1>1, <3>1 DEF PreviousConfirmations, TypeOK
    <3>3. QED
      BY <2>2, <3>2 DEF HandleBadData
  <2>3. QED
    BY <2>1, <2>2
<1>4. \A s \in Symbols : PreviousConfirmations(store'[s]) <= streak[s]
  BY <1>1, <1>2, <1>3 DEF TypeOK, DInv, StreakBehind
<1>5. QED
  BY <1>2, <1>4 DEF DInv, StreakBehind, AlertsKnown, OneAlertPerEpisode

LEMMA NextDInv ==
    ASSUME "database" \notin Faults, DInv, [Next]_vars
    PROVE  DInv'
<1>1. IInv' /\ TypeOK'
  BY NextIInv DEF DInv, IInv
<1>2. ~DatabaseRaises
  BY DEF DatabaseRaises, MayFail
<1>3. CASE UNCHANGED vars
  <2>1. Sym' = Sym
    BY <1>3 DEF vars, app, Sym
  <2>2. QED
    BY <1>1, <1>3, <2>1
       DEF vars, app, history, DInv, StreakBehind, AlertsKnown, OneAlertPerEpisode
<1>4. CASE CheckQuality \/ Evaluate
  BY <1>1, <1>2, <1>4, StreakObserve DEF DInv
<1>5. CASE SendAlert
  BY <1>1, <1>5, StreakSend DEF DInv
<1>6. CASE UpdateState \/ HandleBadData
  BY <1>1, <1>2, <1>6, StreakUpdate DEF DInv
<1>7. CASE RecordAlert
  <2>1. pc = "record" /\ pc' = "update" /\ Sym' = Sym
        /\ UNCHANGED <<store, work, notified, streak, alerts>>
    BY <1>2, <1>7 DEF RecordAlert, Sym
  <2>2. QED
    BY <1>1, <2>1 DEF DInv, StreakBehind, AlertsKnown, OneAlertPerEpisode
<1>8. CASE \/ StartCycle \/ FetchMarket \/ FetchFunding \/ SaveMetrics
           \/ SkipWarning \/ SendWarning \/ RecordWarning
  <2>1. /\ UNCHANGED <<store, notified, streak, alerts>>
        /\ pc \notin {"send", "record", "update", "bad_data"}
        /\ pc' \notin {"send", "record", "update"}
    BY <1>8 DEF StartCycle, FetchMarket, FetchFunding, SaveMetrics, SkipWarning,
       SendWarning, RecordWarning, DatabaseRaises, NextInstrument, history
  <2>2. QED
    BY <1>1, <2>1, IdleStep DEF DInv
<1>9. CASE Tick
  <2>1. Sym' = Sym /\ UNCHANGED <<pc, store, work, notified, streak, alerts>>
    BY <1>9 DEF Tick, app, history, Sym
  <2>2. QED
    BY <1>1, <2>1 DEF DInv, StreakBehind, AlertsKnown, OneAlertPerEpisode
<1>10. CASE Restart
  <2>1. /\ pc' = "idle"
        /\ \A s \in Symbols : /\ store'[s] = NewAlertState
                              /\ streak'[s] = 0 /\ alerts'[s] = 0
    BY <1>10 DEF Restart, Fresh
  <2>2. StreakBehind'
    BY <2>1 DEF StreakBehind, NewAlertState, PreviousConfirmations
  <2>3. QED
    BY <1>1, <2>1, <2>2 DEF DInv, AlertsKnown, OneAlertPerEpisode
<1>11. QED
  BY <1>3, <1>4, <1>5, <1>6, <1>7, <1>8, <1>9, <1>10 DEF Next, ProcessSymbol

(* As long as no save fails, an alert has its confirmations in a row behind  *)
(* it (engine.py, confirmations; app.py, _handle_bad_data).                 *)
THEOREM AlertsAreConfirmed ==
    ASSUME "database" \notin Faults
    PROVE  Spec => []ConfirmedAlert
<1>1. DInv => ConfirmedAlert
  <2> SUFFICES ASSUME DInv, pc = "send" PROVE streak[Sym] >= MinConfirmations
    BY DEF ConfirmedAlert
  <2>1. TypeOK /\ Sym \in Symbols
    BY SymType DEF DInv, IInv
  <2>2. /\ work.decision.confirmations >= MinConfirmations
        /\ work.decision.confirmations <= streak[Sym]
    BY <2>1 DEF DInv, IInv, AlertIsDue, StreakBehind
  <2>3. /\ work.decision.confirmations \in Int /\ streak[Sym] \in Int
        /\ MinConfirmations \in Int
    BY <2>1, EngineParams DEF TypeOK, Work, Decision
  <2>4. QED
    BY <2>2, <2>3
<1>2. DInv /\ [Next]_vars => DInv'
  BY NextDInv
<1>3. QED
  BY <1>1, <1>2, InitDInv, PTL DEF Spec

(* As long as no save fails, an episode is alerted at most once (engine.py,  *)
(* was_active).                                                             *)
THEOREM EpisodesAlertOnce ==
    ASSUME "database" \notin Faults
    PROVE  Spec => []OneAlertPerEpisode
<1>1. DInv => OneAlertPerEpisode
  BY DEF DInv
<1>2. DInv /\ [Next]_vars => DInv'
  BY NextDInv
<1>3. QED
  BY <1>1, <1>2, InitDInv, PTL DEF Spec
=============================================================================
