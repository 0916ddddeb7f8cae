------------------------------ MODULE PinBarV1 ------------------------------
(***************************************************************************)
(* backtest_pin_bar_v1: a pin bar at a support level, a local minimum of    *)
(* the bars before that was touched at least twice.                         *)
(***************************************************************************)
EXTENDS PinBarCommon

Shape == ShapeOf(2, 6, 30, FALSE)

LEVEL_TOUCHES == 2

(* is_bullish_pin_bar. *)
IsPinBar(k) == PinBarOf(Shape, k)

(* A low within 0.3 percent (LEVEL_ZONE_PCT) of the level. *)
Touching(level, low) == low * 1000 \in level * 997 .. level * 1003

(* Of levels that are near each other only the lowest is kept: each is      *)
(* compared with the last that was kept.                                    *)
WithoutNear(levels) ==
    LET kept[k \in 0 .. Len(levels)] ==
            IF k = 0 THEN << >>
            ELSE LET before == kept[k - 1]
                     last == before[Len(before)]
                 IN  IF k > 1 /\ (levels[k] - last) * 1000 <= 3 * last
                     THEN before ELSE Append(before, levels[k])
    IN  kept[Len(levels)]

(* find_support_levels. *)
FindSupportLevels(s, i) ==
    LET lows == [k \in 1 .. LEVEL_WINDOW_H |-> s[i - LEVEL_WINDOW_H + k].l]
        all == {lows[k] : k \in DOMAIN lows}
        inner == {k \in 2 .. LEVEL_WINDOW_H - 1 :
                      lows[k] < lows[k - 1] /\ lows[k] < lows[k + 1]}
        minima == IF inner = {} THEN {CHOOSE x \in all : \A y \in all : x <= y}
                               ELSE {lows[k] : k \in inner}
        Touches(level) == {k \in DOMAIN lows : Touching(level, lows[k])}
        touched == {level \in minima :
                        Cardinality(Touches(level)) >= LEVEL_TOUCHES}
    IN  WithoutNear([k \in 1 .. Cardinality(touched) |->
            CHOOSE x \in touched :
                Cardinality({y \in touched : y < x}) = k - 1])

(* The shadow ends at the level, or the candle closes near it. *)
LevelFor(s, i, k) ==
    FirstOf(FindSupportLevels(s, i), LAMBDA x :
        Touching(x, k.l) \/ k.c * 1000 \in x * 997 .. x * 1006)

SignalAt(s, i) ==
    LET level == LevelFor(s, i, s[i + 1])
    IN  IF ~IsPinBar(s[i + 1]) \/ level = None THEN None
        ELSE Signal(PinAt(s, i), "none",
                    [lower |-> level, upper |-> level, score |-> 0])

Simulation == INSTANCE Backtest WITH
    WarmUp <- LEVEL_WINDOW_H, MinBars <- LEVEL_WINDOW_H + ShortHold + Spare,
    MaxHolding <- ShortHold, RiskReward <- 2, MinStop <- 3, TakerFee <- 18

Load(candles) == Simulation!Load(candles)

Bar == Simulation!Bar

Report == Simulation!Report
=============================================================================
