---------------------------- MODULE PinBarCommon ----------------------------
(***************************************************************************)
(* What the pin-bar scripts have in common: the symbol that is simulated,   *)
(* the parameters that are shortened for a small instance, the candles that *)
(* trigger an entry - a pin bar, or a red and a green candle ("rails"),     *)
(* after an approach of red candles - and the window of candles that the    *)
(* levels of a bar come from.  Bar i of the code is series[i + 1].          *)
(***************************************************************************)
EXTENDS Integers, Sequences, FiniteSets, FiniteSetsExt, TLC

CONSTANTS
    None,
    LEFT_BARS, RIGHT_BARS, ATR_PERIOD, SETTLE, COOLDOWN, REACTION, IMPULSE,
    LEVEL_WINDOW_H,     \* also LEVEL_LOOKBACK_H
    LEVEL_STEP_H,
    ShortHold,          \* MAX_HOLDING_H of v1 to v3 (72)
    LongHold,           \* and of v4 to v7 (144)
    Spare,              \* the bars a series must have beyond these (100)
    MinHistory,         \* the bars v2 asks for (200)
    LookAheadWarmUp,    \* and the bar it starts at (100)
    ANOMALY_LOOKBACK

VARIABLES series, bar, trades

-----------------------------------------------------------------------------
(* What a version takes for a pin bar: PIN_SHADOW_RATIO, the lower shadow   *)
(* of a doji in tenths of its range, the limit of the upper shadow in       *)
(* hundredths, and whether the lower one is all that counts for a doji.     *)
ShapeOf(ratio, doji, upper, doji_alone) ==
    [ratio |-> ratio, doji |-> doji, upper |-> upper, doji_alone |-> doji_alone]

APPROACH_BARS == 3
MIN_RED_BARS_PIN == 2
MIN_RED_BARS_RAILS == 1

At(s, i) == s[i + 1]

Low(x, y) == IF x < y THEN x ELSE y
High(x, y) == IF x < y THEN y ELSE x

(* is_pin_bar, is_bullish_pin_bar, of a version's Shape. *)
PinBarOf(shape, k) ==
    LET range == k.h - k.l
        body == High(k.o, k.c) - Low(k.o, k.c)
        lower == Low(k.o, k.c) - k.l
        upper == k.h - High(k.o, k.c)
    IN  /\ range > 0 /\ k.l > 0 /\ range * 2000 >= k.l
        /\ IF body = 0 THEN lower * 10 >= range * shape.doji
                       ELSE lower >= body * shape.ratio
        /\ \/ body = 0 /\ shape.doji_alone
           \/ /\ k.o + k.c >= 2 * k.l + range
              /\ upper * 100 <= range * shape.upper

Red(k) == k.c < k.o

(* A red candle, then a green one, both with a body of at least 0.4         *)
(* (RAILS_BODY_MIN) of their range.                                         *)
RedThenGreen(a, b) ==
    /\ Red(a) /\ b.c > b.o
    /\ (a.o - a.c) * 10 >= (a.h - a.l) * 4
    /\ (b.c - b.o) * 10 >= (b.h - b.l) * 4

(* is_rails (v4). *)
RailsOf(a, b) == RedThenGreen(a, b) /\ b.c >= a.o

(* is_rails_valid (v5 and later): both candles in one are a pin bar.        *)
ValidRailsOf(shape, a, b) ==
    RedThenGreen(a, b)
        /\ PinBarOf(shape, [o |-> a.o, h |-> High(a.h, b.h),
                     l |-> Low(a.l, b.l), c |-> b.c])

(* red_approach (v4 to v6). *)
FallsTo(s, anchor, min_red) ==
    /\ anchor >= APPROACH_BARS
    /\ Cardinality({k \in 1 .. APPROACH_BARS :
                        Red(At(s, anchor - k))}) >= min_red
    /\ At(s, anchor - APPROACH_BARS).c > At(s, anchor).c

(* red_approach (v7): the history ends before the rails or the pin bar, the *)
(* fall lasts until the trigger closes.                                     *)
FallsBefore(s, trigger, is_rails, min_red) ==
    LET start == IF is_rails THEN trigger - 2 ELSE trigger - 1
    IN  /\ start >= APPROACH_BARS
        /\ Cardinality({k \in 0 .. APPROACH_BARS - 1 :
                            Red(At(s, start - k))}) >= min_red
        /\ At(s, start - APPROACH_BARS + 1).c > At(s, trigger).c

(* approach_drop (v5), whether it is over 15 percent.                       *)
Crashes(s, anchor) ==
    /\ anchor >= APPROACH_BARS
    /\ LET base == At(s, anchor - APPROACH_BARS).c
       IN  base > 0 /\ (base - At(s, anchor).c) * 100 > 15 * base

PinAt(s, i) ==
    [trigger |-> "pin", low |-> At(s, i).l, anchor |-> i]

RailsAt(s, i) ==
    [trigger |-> "rails", low |-> Low(At(s, i - 1).l, At(s, i).l),
     anchor |-> i - 1]

-----------------------------------------------------------------------------
(* The key that the cache of levels has for bar i. *)
WindowKey(i) == (i \div LEVEL_STEP_H) * LEVEL_STEP_H

(* Mutant: the window ends with the next step. *)
LevelWindowNext(s, i) ==
    LET key == WindowKey(i) + LEVEL_STEP_H
        start == IF key < LEVEL_WINDOW_H THEN 0 ELSE key - LEVEL_WINDOW_H
    IN  SubSeq(s, start + 1, IF key < Len(s) THEN key ELSE Len(s))

(* The candles before the step that bar i is in. *)
LevelWindow(s, i) ==
    LET key == WindowKey(i)
        start == IF key < LEVEL_WINDOW_H THEN 0 ELSE key - LEVEL_WINDOW_H
    IN  SubSeq(s, start + 1, key)

(* The first that passes, or None. *)
FirstOf(levels, Passes(_)) ==
    LET hits == {k \in DOMAIN levels : Passes(levels[k])}
    IN  IF hits = {} THEN None ELSE levels[Min(hits)]

(* Within a zone that is wider by a tenth (ZONE_TOLERANCE) on both sides.   *)
InWiderZone(level, low) ==
    LET width == level.upper - level.lower
    IN  low * 10 \in level.lower * 10 - width .. level.upper * 10 + width

RangeOf(k) == k.h - k.l

(* Twice the median. *)
Median2(values) ==
    LET sorted == SortSeq(values, <)
        n == Len(values)
    IN  sorted[(n + 1) \div 2] + sorted[n \div 2 + 1]

Signal(trigger, mode, level) ==
    [trigger |-> trigger.trigger, low |-> trigger.low, mode |-> mode,
     lower |-> level.lower, upper |-> level.upper, score |-> level.score]
=============================================================================
