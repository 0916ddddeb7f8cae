--------------------------- MODULE PinBarChartV3 ----------------------------
(***************************************************************************)
(* visualize_trade: finds the trades of v3 with code of its own, and draws  *)
(* one of them.                                                             *)
(***************************************************************************)
EXTENDS PinBarChart

Detector == INSTANCE PinBarLevels WITH TouchedOnly <- TRUE

Shape == ShapeOf(3, 7, 25, FALSE)

(* calculate_atr, find_pivots and cluster_pivots. *)
Clusters(w) == Detector!Clusters(w)

(* analyze_zone, calculate_score and the filters of detect_levels. *)
DetectLevels(w) == Detector!StrongLevels(Clusters(w), w)

(* is_bullish_pin_bar. *)
IsPinBar(k) == PinBarOf(Shape, k)

LevelsAt(s, i) ==
    LET w == LevelWindow(s, i)
    IN  IF Len(w) < LEVEL_WINDOW_H \div 2 THEN << >> ELSE DetectLevels(w)

LevelFor(s, i, low) ==
    FirstOf(LevelsAt(s, i), LAMBDA x : InWiderZone(x, low))

SignalAt(s, i) ==
    IF ~IsPinBar(s[i + 1]) THEN None
    ELSE LET level == LevelFor(s, i, s[i + 1].l)
         IN  IF level = None THEN None
             ELSE Signal(PinAt(s, i), "none", level)

Simulation == INSTANCE Backtest WITH
    trades <- shown,
    WarmUp <- LEVEL_WINDOW_H, MinBars <- LEVEL_WINDOW_H + ShortHold + Spare,
    MaxHolding <- ShortHold, RiskReward <- 2, MinStop <- 3, TakerFee <- 14

Load(candles) == Simulation!Load(candles)

Bar == Simulation!Bar

(* The trade that is drawn: the best of the closed ones, else the first.    *)
ChosenTrade ==
    LET closed == {k \in 1 .. Len(shown) : IsClosed(shown[k])}
    IN  IF closed = {} THEN 1
        ELSE CHOOSE k \in closed : \A j \in closed :
                 \/ PaysMore(shown[k], shown[j])
                 \/ k <= j /\ ~PaysMore(shown[j], shown[k])

(* What main() makes of a trade that is still open, by the last candle.     *)
CurrentReason(t) ==
    CASE Simulation!ExitReason(t, Len(series) - 1) = "stop" -> "stop (current)"
      [] Simulation!ExitReason(t, Len(series) - 1) = "take" -> "take (current)"
      [] OTHER -> "open"

PlotTrade(t) == Picture(t)
=============================================================================
