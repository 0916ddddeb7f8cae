----------------------------- MODULE PinBarV2V3 -----------------------------
(***************************************************************************)
(* backtest_pin_bar_v2 and v3: a pin bar at a strong level.  v2 finds the   *)
(* levels once, in the whole history, bars that are still to come included. *)
(* v3 wants a longer shadow, and takes the levels of the days before: of a  *)
(* window that ends, at a multiple of LEVEL_STEP_H, before the bar.         *)
(***************************************************************************)
EXTENDS PinBarCommon

Detector == INSTANCE PinBarLevels WITH TouchedOnly <- TRUE

ShapeV2 == ShapeOf(2, 6, 30, FALSE)
ShapeV3 == ShapeOf(3, 7, 25, FALSE)

(* calculate_atr, find_pivots and cluster_pivots of each. *)
ClustersV2(w) == Detector!Clusters(w)
ClustersV3(w) == Detector!Clusters(w)

(* analyze_zone, calculate_score and the filters of detect_levels. *)
DetectLevelsV2(w) == Detector!StrongLevels(ClustersV2(w), w)
DetectLevelsV3(w) == Detector!StrongLevels(ClustersV3(w), w)

(* is_bullish_pin_bar. *)
IsPinBarV2(k) == PinBarOf(ShapeV2, k)
IsPinBarV3(k) == PinBarOf(ShapeV3, k)

(* Half the width of the zone and 0.2 percent beyond it. *)
NearZone(level, low) ==
    LET tolerance == (level.upper - level.lower) * 500 + level.lower * 2
    IN  low * 1000 \in level.lower * 1000 - tolerance
                        .. level.upper * 1000 + tolerance

(* The pin bar at bar i and the level it is at. *)
PinAtLevel(s, i, level) ==
    IF level = None THEN None ELSE Signal(PinAt(s, i), "none", level)

LevelForV2(s, low) == FirstOf(DetectLevelsV2(s), LAMBDA x : NearZone(x, low))

SignalAtV2(s, i) ==
    IF ~IsPinBarV2(s[i + 1]) THEN None
    ELSE PinAtLevel(s, i, LevelForV2(s, s[i + 1].l))

LevelsAtV3(s, i) ==
    LET w == LevelWindow(s, i)
    IN  IF Len(w) < LEVEL_WINDOW_H \div 2 THEN << >> ELSE DetectLevelsV3(w)

LevelForV3(s, i, low) ==
    FirstOf(LevelsAtV3(s, i), LAMBDA x : InWiderZone(x, low))

SignalAtV3(s, i) ==
    IF ~IsPinBarV3(s[i + 1]) THEN None
    ELSE PinAtLevel(s, i, LevelForV3(s, i, s[i + 1].l))

SimulationV2 == INSTANCE Backtest WITH
    SignalAt <- SignalAtV2, WarmUp <- LookAheadWarmUp, MinBars <- MinHistory,
    MaxHolding <- ShortHold, RiskReward <- 2, MinStop <- 3, TakerFee <- 18

SimulationV3 == INSTANCE Backtest WITH
    SignalAt <- SignalAtV3, WarmUp <- LEVEL_WINDOW_H,
    MinBars <- LEVEL_WINDOW_H + ShortHold + Spare,
    MaxHolding <- ShortHold, RiskReward <- 2, MinStop <- 3, TakerFee <- 14

LoadV2(candles) == SimulationV2!Load(candles)
LoadV3(candles) == SimulationV3!Load(candles)

BarV2 == SimulationV2!Bar
BarV3 == SimulationV3!Bar

ReportV2 == SimulationV2!Report
ReportV3 == SimulationV3!Report
=============================================================================
