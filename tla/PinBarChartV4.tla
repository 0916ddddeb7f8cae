--------------------------- MODULE PinBarChartV4 ----------------------------
(***************************************************************************)
(* visualize_trades_v4: finds the trades of v4 with code of its own, and    *)
(* draws the best and the worst of each trigger.                            *)
(***************************************************************************)
EXTENDS PinBarChart

Detector == INSTANCE PinBarLevels WITH TouchedOnly <- TRUE

Shape == ShapeOf(2, 6, 30, FALSE)

(* calculate_atr, find_pivots and cluster_pivots. *)
Clusters(w) == Detector!Clusters(w)

(* analyze_zone, calculate_score and the filters of detect_levels. *)
DetectLevels(w) == Detector!StrongLevels(Clusters(w), w)

IsPinBar(k) == PinBarOf(Shape, k)

(* Mutant: the copy has fallen behind and knows no rails. *)
NoRails(a, b) == FALSE

IsRails(a, b) == RailsOf(a, b)

RedApproach(s, anchor, min_red) == FallsTo(s, anchor, min_red)

(* The pin bar or the rails that end at bar i; the pin bar goes first. *)
TriggerAt(s, i) ==
    IF /\ IsPinBar(s[i + 1])
       /\ RedApproach(s, i, MIN_RED_BARS_PIN)
    THEN PinAt(s, i)
    ELSE IF /\ i >= 1 /\ IsRails(s[i], s[i + 1])
            /\ RedApproach(s, i - 1, MIN_RED_BARS_RAILS)
         THEN RailsAt(s, i)
         ELSE None

LevelsAt(s, i) ==
    LET w == LevelWindow(s, i)
    IN  IF Len(w) < LEVEL_WINDOW_H \div 2 THEN << >> ELSE DetectLevels(w)

(* The best level whose zone the trigger's low is in, or None. *)
LevelFor(s, i, low) ==
    FirstOf(LevelsAt(s, i), LAMBDA x : InWiderZone(x, low))

SignalAt(s, i) ==
    LET trigger == TriggerAt(s, i)
    IN  IF trigger = None THEN None
        ELSE LET level == LevelFor(s, i, trigger.low)
             IN  IF level = None THEN None
                 ELSE Signal(trigger, "none", level)

Simulation == INSTANCE Backtest WITH
    trades <- shown,
    WarmUp <- LEVEL_WINDOW_H, MinBars <- LEVEL_WINDOW_H + LongHold + Spare,
    MaxHolding <- LongHold, RiskReward <- 3, MinStop <- 5, TakerFee <- 14

Load(candles) == Simulation!Load(candles)

Bar == Simulation!Bar

Selected ==
    BestAndWorst(shown, OfTrigger(shown, "pin"))
        \cup BestAndWorst(shown, OfTrigger(shown, "rails"))

PlotTrade(t) == Picture(t)
=============================================================================
