-------------------------- MODULE PinBarChartV6V7 ---------------------------
(***************************************************************************)
(* visualize_trades_v6 and v7: draw trades of backtest_pin_bar_v6 and v7,   *)
(* whose code they import; the level of a trade is looked for again.        *)
(***************************************************************************)
EXTENDS PinBarChart

V67 == INSTANCE PinBarV6V7

(* The first of the levels at the trade's low, or the best when none is.    *)
LevelOf(t, levels) ==
    LET level == FirstOf(levels, LAMBDA x : InWiderZone(x, t.stop \div 999))
    IN  IF level = None /\ levels # << >> THEN Head(levels) ELSE level

(* Mutant: the levels of the bar of the exit. *)
FindLevelAtExit(t) == LevelOf(t, V67!DetectLevelsV6(LevelWindow(series, t.exit)))

(* find_level_for_trade. *)
FindLevelForTradeV6(t) == LevelOf(t, V67!DetectLevelsV6(LevelWindow(series, t.entry)))

FindLevelForTradeV7(t) == LevelOf(t, V67!DetectLevelsV7(LevelWindow(series, t.entry)))

Selected ==
    BestAndWorst(trades, OfTrigger(trades, "pin"))
        \cup BestAndWorst(trades, OfTrigger(trades, "rails"))

PlotTrade(t) == Picture(t)
=============================================================================
