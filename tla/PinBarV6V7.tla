----------------------------- MODULE PinBarV6V7 -----------------------------
(***************************************************************************)
(* backtest_pin_bar_v6 and v7: as v5 without the borders, and no entry      *)
(* after a candle that is far wider than usual.  v7 counts every false      *)
(* breakout, has a wider notion of a doji, measures the approach before the *)
(* rails, and bounds the stop by the usual width of a candle instead of by  *)
(* 15 percent.                                                              *)
(***************************************************************************)
EXTENDS PinBarCommon

DetectorV6 == INSTANCE PinBarLevels WITH TouchedOnly <- TRUE
DetectorV7 == INSTANCE PinBarLevels WITH TouchedOnly <- FALSE

ShapeV6 == ShapeOf(2, 6, 30, FALSE)
ShapeV7 == ShapeOf(2, 6, 30, TRUE)

(* calculate_atr, find_pivots and cluster_pivots of each. *)
ClustersV6(w) == DetectorV6!Clusters(w)
ClustersV7(w) == DetectorV7!Clusters(w)

(* analyze_zone, calculate_score and the filters of detect_levels. *)
DetectLevelsV6(w) == DetectorV6!StrongLevels(ClustersV6(w), w)
DetectLevelsV7(w) == DetectorV7!StrongLevels(ClustersV7(w), w)

IsPinBarV6(k) == PinBarOf(ShapeV6, k)
IsPinBarV7(k) == PinBarOf(ShapeV7, k)

IsRailsValidV6(a, b) == ValidRailsOf(ShapeV6, a, b)
IsRailsValidV7(a, b) == ValidRailsOf(ShapeV7, a, b)

RedApproachV6(s, anchor, min_red) == FallsTo(s, anchor, min_red)
RedApproachV7(s, i, is_rails, min_red) == FallsBefore(s, i, is_rails, min_red)

(* The pin bar or the rails that end at bar i; the pin bar goes first. *)
TriggerAtV6(s, i) ==
    IF IsPinBarV6(s[i + 1]) /\ RedApproachV6(s, i, MIN_RED_BARS_PIN)
    THEN PinAt(s, i)
    ELSE IF /\ i >= 1 /\ IsRailsValidV6(s[i], s[i + 1])
            /\ RedApproachV6(s, i - 1, MIN_RED_BARS_RAILS)
         THEN RailsAt(s, i)
         ELSE None

TriggerAtV7(s, i) ==
    IF IsPinBarV7(s[i + 1]) /\ RedApproachV7(s, i, FALSE, MIN_RED_BARS_PIN)
    THEN PinAt(s, i)
    ELSE IF /\ i >= 1 /\ IsRailsValidV7(s[i], s[i + 1])
            /\ RedApproachV7(s, i, TRUE, MIN_RED_BARS_RAILS)
         THEN RailsAt(s, i)
         ELSE None

WindowIsFull(s, i) == Len(LevelWindow(s, i)) >= LEVEL_WINDOW_H \div 2

LevelsAtV6(s, i) ==
    IF WindowIsFull(s, i) THEN DetectLevelsV6(LevelWindow(s, i)) ELSE << >>
LevelsAtV7(s, i) ==
    IF WindowIsFull(s, i) THEN DetectLevelsV7(LevelWindow(s, i)) ELSE << >>

(* The best of the levels whose zone the trigger's low is in, or None. *)
LevelFor(levels, low) == FirstOf(levels, LAMBDA x : InWiderZone(x, low))

(* rolling_median of the ranges, twice: before the first bar there are      *)
(* copies of it.                                                            *)
Background2(s, i) ==
    Median2([k \in 1 .. ANOMALY_LOOKBACK |->
                 LET b == i - ANOMALY_LOOKBACK + k
                 IN  IF b < 0 THEN RangeOf(s[1]) ELSE RangeOf(s[b + 1])])

(* One of the last four bars (ANOMALY_WINDOW) is over 1.5 times that wide.  *)
Anomaly(s, i) ==
    \E b \in i - 3 .. i : b >= 0 /\ RangeOf(s[b + 1]) * 4 > 3 * Background2(s, i)

SignalAtV6(s, i) ==
    LET trigger == TriggerAtV6(s, i)
    IN  IF trigger = None THEN None
        ELSE LET level == LevelFor(LevelsAtV6(s, i), trigger.low)
             IN  IF \/ level = None
                    \/ s[i + 1].c * 100 > level.upper * 115
                    \/ Anomaly(s, i)
                 THEN None
                 ELSE Signal(trigger, "none", level)

SignalAtV7(s, i) ==
    LET trigger == TriggerAtV7(s, i)
    IN  IF trigger = None THEN None
        ELSE LET level == LevelFor(LevelsAtV7(s, i), trigger.low)
             IN  IF \/ level = None
                    \/ Anomaly(s, i)
                    \/ s[i + 1].c - trigger.low > Background2(s, i)
                 THEN None
                 ELSE Signal(trigger, "none", level)

SimulationV6 == INSTANCE Backtest WITH
    SignalAt <- SignalAtV6, WarmUp <- LEVEL_WINDOW_H,
    MinBars <- LEVEL_WINDOW_H + LongHold + Spare,
    MaxHolding <- LongHold, RiskReward <- 3, MinStop <- 5, TakerFee <- 14

SimulationV7 == INSTANCE Backtest WITH
    SignalAt <- SignalAtV7, WarmUp <- LEVEL_WINDOW_H,
    MinBars <- LEVEL_WINDOW_H + LongHold + Spare,
    MaxHolding <- LongHold, RiskReward <- 3, MinStop <- 5, TakerFee <- 14

LoadV6(candles) == SimulationV6!Load(candles)
LoadV7(candles) == SimulationV7!Load(candles)

BarV6 == SimulationV6!Bar
BarV7 == SimulationV7!Bar

ReportV6 == SimulationV6!Report
ReportV7 == SimulationV7!Report
=============================================================================
