--------------------------- MODULE Research_proofs ---------------------------
(***************************************************************************)
(* Proofs that the research scripts have the properties that their runs     *)
(* check, for every value of the parameters and whatever data they read.    *)
(***************************************************************************)
EXTENDS MCResearch, Scripts_proofs

-----------------------------------------------------------------------------
(* The levels that a signal is at, and the detector that finds them.        *)
Candles == [o: Nat \ {0}, h: Nat \ {0}, l: Nat \ {0}, c: Nat \ {0}]

(* What two histories that agree up to a bar have in common. *)
Agree(s, t, i) == \A j \in 1 .. i + 1 : t[j] = s[j]

LEMMA SameSubSeq ==
    ASSUME NEW s, NEW t, NEW a \in Int, NEW b \in Int,
           \A j \in a .. b : t[j] = s[j]
    PROVE  SubSeq(t, a, b) = SubSeq(s, a, b)
  OBVIOUS

LEMMA WindowAgrees ==
    ASSUME NEW s, NEW t, NEW i \in Nat, Agree(s, t, i)
    PROVE  LevelWindow(t, i) = LevelWindow(s, i)
<1>1. /\ LEVEL_STEP_H \in Nat \ {0} /\ LEVEL_WINDOW_H \in Nat
  BY PinBarParams
<1>2. WindowKey(i) \in Nat /\ WindowKey(i) <= i
  <2>1. PICK step \in Nat \ {0} : step = LEVEL_STEP_H
    BY <1>1
  <2>2. i \div step \in Nat /\ (i \div step) * step <= i /\ (i \div step) * step \in Nat
    BY Z3
  <2>3. QED
    BY <2>1, <2>2 DEF WindowKey
<1> DEFINE key == WindowKey(i)
           start == IF key < LEVEL_WINDOW_H THEN 0 ELSE key - LEVEL_WINDOW_H
<1>3. start \in Nat
  BY <1>1, <1>2
<1>4. \A j \in start + 1 .. key : t[j] = s[j]
  BY <1>2, <1>3 DEF Agree
<1>5. LevelWindow(t, i) = SubSeq(t, start + 1, key) /\ LevelWindow(s, i) = SubSeq(s, start + 1, key)
  BY Zenon DEF LevelWindow
<1> HIDE DEF start, key
<1>6. QED
  BY <1>2, <1>3, <1>4, <1>5, SameSubSeq DEF key

(* The approach, the triggers and the width of the candles before.  *)
LEMMA ApproachAgrees ==
    ASSUME NEW s, NEW t, NEW i \in Nat, Agree(s, t, i),
           NEW anchor \in Int, anchor <= i, NEW min_red
    PROVE  /\ FallsTo(t, anchor, min_red) = FallsTo(s, anchor, min_red)
           /\ Crashes(t, anchor) = Crashes(s, anchor)
<1>1. ASSUME anchor >= APPROACH_BARS, NEW k \in 0 .. APPROACH_BARS
      PROVE  At(t, anchor - k) = At(s, anchor - k)
  <2>1. anchor - k \in Nat /\ anchor - k <= i
    BY <1>1 DEF APPROACH_BARS
  <2>2. QED
    BY <2>1 DEF At, Agree
<1>2. ASSUME anchor >= APPROACH_BARS
      PROVE  /\ {k \in 1 .. APPROACH_BARS : Red(At(t, anchor - k))}
                    = {k \in 1 .. APPROACH_BARS : Red(At(s, anchor - k))}
             /\ At(t, anchor - APPROACH_BARS) = At(s, anchor - APPROACH_BARS)
             /\ At(t, anchor) = At(s, anchor)
  <2>1. \A k \in 1 .. APPROACH_BARS : At(t, anchor - k) = At(s, anchor - k)
    BY <1>1, <1>2 DEF APPROACH_BARS
  <2>2. 0 \in 0 .. APPROACH_BARS /\ APPROACH_BARS \in 0 .. APPROACH_BARS /\ anchor - 0 = anchor
    BY DEF APPROACH_BARS
  <2>3. QED
    BY <1>1, <1>2, <2>1, <2>2
<1>3. FallsTo(t, anchor, min_red) = FallsTo(s, anchor, min_red)
  BY <1>2, Zenon DEF FallsTo
<1>4. Crashes(t, anchor) = Crashes(s, anchor)
  BY <1>2, Zenon DEF Crashes
<1>5. QED
  BY <1>3, <1>4

LEMMA EarlierApproachAgrees ==
    ASSUME NEW s, NEW t, NEW i \in Nat, Agree(s, t, i),
           NEW is_rails \in BOOLEAN, NEW min_red
    PROVE  FallsBefore(t, i, is_rails, min_red) = FallsBefore(s, i, is_rails, min_red)
<1> DEFINE start == IF is_rails THEN i - 2 ELSE i - 1
<1>1. start \in Int /\ start <= i
  OBVIOUS
<1>2. FallsBefore(t, i, is_rails, min_red)
        = /\ start >= APPROACH_BARS
          /\ Cardinality({k \in 0 .. APPROACH_BARS - 1 : Red(At(t, start - k))}) >= min_red
          /\ At(t, start - APPROACH_BARS + 1).c > At(t, i).c
  BY Zenon DEF FallsBefore
<1>3. FallsBefore(s, i, is_rails, min_red)
        = /\ start >= APPROACH_BARS
          /\ Cardinality({k \in 0 .. APPROACH_BARS - 1 : Red(At(s, start - k))}) >= min_red
          /\ At(s, start - APPROACH_BARS + 1).c > At(s, i).c
  BY Zenon DEF FallsBefore
<1> HIDE DEF start
<1>4. ASSUME start >= APPROACH_BARS
      PROVE  /\ {k \in 0 .. APPROACH_BARS - 1 : Red(At(t, start - k))}
                    = {k \in 0 .. APPROACH_BARS - 1 : Red(At(s, start - k))}
             /\ At(t, start - APPROACH_BARS + 1) = At(s, start - APPROACH_BARS + 1)
             /\ At(t, i) = At(s, i)
  <2>1. ASSUME NEW k \in 0 .. APPROACH_BARS - 1
        PROVE  At(t, start - k) = At(s, start - k)
    <3>1. start - k \in Nat /\ start - k <= i
      BY <1>1, <1>4 DEF APPROACH_BARS
    <3>2. QED
      BY <3>1 DEF At, Agree
  <2>2. start - APPROACH_BARS + 1 \in Nat /\ start - APPROACH_BARS + 1 <= i
    BY <1>1, <1>4 DEF APPROACH_BARS
  <2>3. /\ At(t, start - APPROACH_BARS + 1) = At(s, start - APPROACH_BARS + 1)
        /\ At(t, i) = At(s, i)
    BY <2>2 DEF At, Agree
  <2>4. QED
    BY <2>1, <2>3
<1>5. CASE start >= APPROACH_BARS
  BY <1>2, <1>3, <1>4, <1>5
<1>6. CASE ~(start >= APPROACH_BARS)
  BY <1>2, <1>3, <1>6, Zenon
<1>7. QED
  BY <1>5, <1>6

LEMMA TriggersAgree ==
    ASSUME NEW s, NEW t, NEW i \in Nat, Agree(s, t, i)
    PROVE  /\ t[i + 1] = s[i + 1] /\ PinAt(t, i) = PinAt(s, i)
           /\ i >= 1 => t[i] = s[i] /\ RailsAt(t, i) = RailsAt(s, i)
<1>1. t[i + 1] = s[i + 1] /\ At(t, i) = At(s, i)
  BY DEF Agree, At
<1>2. ASSUME i >= 1 PROVE t[i] = s[i] /\ At(t, i - 1) = At(s, i - 1)
  <2>1. i \in 1 .. i + 1 /\ (i - 1) + 1 = i
    BY <1>2
  <2>2. QED
    BY <2>1 DEF Agree, At
<1>3. QED
  BY <1>1, <1>2 DEF PinAt, RailsAt

LEMMA CausalV4 ==
    ASSUME NEW s, NEW t, NEW i \in Nat, Agree(s, t, i)
    PROVE  V4!SignalAt(t, i) = V4!SignalAt(s, i)
<1>1. ASSUME NEW r, NEW anchor, NEW min_red
      PROVE  V4!RedApproach(r, anchor, min_red) = FallsTo(r, anchor, min_red)
  BY Zenon DEF V4!RedApproach, V4!FallsTo, FallsTo, V4!At, At, V4!Red, Red,
      V4!APPROACH_BARS, APPROACH_BARS, V4!Cardinality, Cardinality
<1>2. ASSUME NEW r
      PROVE  V4!PinAt(r, i) = PinAt(r, i) /\ V4!RailsAt(r, i) = RailsAt(r, i)
  BY Zenon DEF V4!PinAt, PinAt, V4!RailsAt, RailsAt, V4!At, At, V4!Low, Low
<1>3. V4!LevelWindow(t, i) = V4!LevelWindow(s, i)
  <2>1. ASSUME NEW r PROVE V4!LevelWindow(r, i) = LevelWindow(r, i)
    BY Zenon DEF V4!LevelWindow, LevelWindow, V4!WindowKey, WindowKey
  <2>2. QED
    BY <2>1, WindowAgrees, Zenon
<1>4. V4!TriggerAt(t, i) = V4!TriggerAt(s, i)
  <2>1. /\ V4!RedApproach(t, i, V4!MIN_RED_BARS_PIN)
              = V4!RedApproach(s, i, V4!MIN_RED_BARS_PIN)
        /\ V4!RedApproach(t, i - 1, V4!MIN_RED_BARS_RAILS)
              = V4!RedApproach(s, i - 1, V4!MIN_RED_BARS_RAILS)
    BY <1>1, ApproachAgrees
  <2>2. QED
    BY <1>2, <2>1, TriggersAgree DEF V4!TriggerAt
<1>5. V4!LevelsAt(t, i) = V4!LevelsAt(s, i)
  BY <1>3, Zenon DEF V4!LevelsAt
<1>6. ASSUME NEW low PROVE V4!LevelFor(t, i, low) = V4!LevelFor(s, i, low)
  BY <1>5, Zenon DEF V4!LevelFor
<1>7. QED
  BY <1>4, <1>6, Zenon DEF V4!SignalAt

(* The levels of v1 are found in the lows of the window. *)
LevelsOfLows(lows) ==
    LET all == {lows[k] : k \in DOMAIN lows}
        inner == {k \in 2 .. LEVEL_WINDOW_H - 1 :
                      lows[k] < lows[k - 1] /\ lows[k] < lows[k + 1]}
        minima == IF inner = {} THEN {CHOOSE x \in all : \A y \in all : x <= y}
                               ELSE {lows[k] : k \in inner}
        Touches(level) == {k \in DOMAIN lows : V1!Touching(level, lows[k])}
        touched == {level \in minima :
                        V1!Cardinality(Touches(level)) >= V1!LEVEL_TOUCHES}
    IN  V1!WithoutNear([k \in 1 .. V1!Cardinality(touched) |->
            CHOOSE x \in touched :
                V1!Cardinality({y \in touched : y < x}) = k - 1])

LowsBefore(s, i) == [k \in 1 .. LEVEL_WINDOW_H |-> s[i - LEVEL_WINDOW_H + k].l]

LEMMA CausalV1 ==
    ASSUME NEW s, NEW t, NEW i \in Nat, Agree(s, t, i), i >= LEVEL_WINDOW_H
    PROVE  V1!SignalAt(t, i) = V1!SignalAt(s, i)
<1>1. LowsBefore(t, i) = LowsBefore(s, i)
  <2>1. ASSUME NEW k \in 1 .. LEVEL_WINDOW_H
        PROVE  t[i - LEVEL_WINDOW_H + k] = s[i - LEVEL_WINDOW_H + k]
    <3>1. i - LEVEL_WINDOW_H + k \in 1 .. i + 1
      BY PinBarParams
    <3>2. QED
      BY <3>1 DEF Agree
  <2>2. QED
    BY <2>1 DEF LowsBefore
<1>2. ASSUME NEW r
      PROVE  V1!FindSupportLevels(r, i) = LevelsOfLows(LowsBefore(r, i))
  BY Zenon DEF V1!FindSupportLevels, LevelsOfLows, LowsBefore
<1>3. ASSUME NEW k PROVE V1!LevelFor(t, i, k) = V1!LevelFor(s, i, k)
  BY <1>1, <1>2, Zenon DEF V1!LevelFor
<1>4. V1!PinAt(t, i) = V1!PinAt(s, i) /\ t[i + 1] = s[i + 1]
  <2>1. ASSUME NEW r PROVE V1!PinAt(r, i) = PinAt(r, i)
    BY Zenon DEF V1!PinAt, PinAt, V1!At, At
  <2>2. QED
    BY <2>1, TriggersAgree
<1>5. QED
  BY <1>3, <1>4, Zenon DEF V1!SignalAt

LEMMA CausalV3 ==
    ASSUME NEW s, NEW t, NEW i \in Nat, Agree(s, t, i)
    PROVE  V23!SignalAtV3(t, i) = V23!SignalAtV3(s, i)
<1>1. V23!PinAt(t, i) = V23!PinAt(s, i) /\ t[i + 1] = s[i + 1]
  <2>1. ASSUME NEW r PROVE V23!PinAt(r, i) = PinAt(r, i)
    BY Zenon DEF V23!PinAt, PinAt, V23!At, At
  <2>2. QED
    BY <2>1, TriggersAgree
<1>2. V23!LevelWindow(t, i) = V23!LevelWindow(s, i)
  <2>1. ASSUME NEW r PROVE V23!LevelWindow(r, i) = LevelWindow(r, i)
    BY Zenon DEF V23!LevelWindow, LevelWindow, V23!WindowKey, WindowKey
  <2>2. QED
    BY <2>1, WindowAgrees, Zenon
<1>3. V23!LevelsAtV3(t, i) = V23!LevelsAtV3(s, i)
  BY <1>2, Zenon DEF V23!LevelsAtV3
<1>4. ASSUME NEW low PROVE V23!LevelForV3(t, i, low) = V23!LevelForV3(s, i, low)
  BY <1>3, Zenon DEF V23!LevelForV3
<1>5. ASSUME NEW level PROVE V23!PinAtLevel(t, i, level) = V23!PinAtLevel(s, i, level)
  BY <1>1, Zenon DEF V23!PinAtLevel
<1>6. QED
  BY <1>1, <1>4, <1>5, Zenon DEF V23!SignalAtV3

LEMMA CausalV5 ==
    ASSUME NEW s, NEW t, NEW i \in Nat, Agree(s, t, i)
    PROVE  V5!SignalAt(t, i) = V5!SignalAt(s, i)
<1>1. ASSUME NEW r, NEW anchor, NEW min_red
      PROVE  /\ V5!RedApproach(r, anchor, min_red) = FallsTo(r, anchor, min_red)
             /\ V5!ApproachCrash(r, anchor) = Crashes(r, anchor)
  <2>1. V5!RedApproach(r, anchor, min_red) = FallsTo(r, anchor, min_red)
    BY Zenon DEF V5!RedApproach, V5!FallsTo, FallsTo, V5!At, At, V5!Red, Red,
        V5!APPROACH_BARS, APPROACH_BARS, V5!Cardinality, Cardinality
  <2>2. V5!ApproachCrash(r, anchor) = Crashes(r, anchor)
    BY Zenon DEF V5!ApproachCrash, V5!Crashes, Crashes, V5!At, At,
        V5!APPROACH_BARS, APPROACH_BARS
  <2>3. QED
    BY <2>1, <2>2
<1>2. ASSUME NEW r
      PROVE  V5!PinAt(r, i) = PinAt(r, i) /\ V5!RailsAt(r, i) = RailsAt(r, i)
  BY Zenon DEF V5!PinAt, PinAt, V5!RailsAt, RailsAt, V5!At, At, V5!Low, Low
<1>3. V5!LevelWindow(t, i) = V5!LevelWindow(s, i)
  <2>1. ASSUME NEW r PROVE V5!LevelWindow(r, i) = LevelWindow(r, i)
    BY Zenon DEF V5!LevelWindow, LevelWindow, V5!WindowKey, WindowKey
  <2>2. QED
    BY <2>1, WindowAgrees, Zenon
<1>4. /\ V5!TriggerAt(t, i) = V5!TriggerAt(s, i)
      /\ V5!TriggerAt(s, i) # None =>
            V5!TriggerAt(s, i).anchor \in {i, i - 1}
  <2>1. /\ V5!RedApproach(t, i, V5!MIN_RED_BARS_PIN)
              = V5!RedApproach(s, i, V5!MIN_RED_BARS_PIN)
        /\ V5!RedApproach(t, i - 1, V5!MIN_RED_BARS_RAILS)
              = V5!RedApproach(s, i - 1, V5!MIN_RED_BARS_RAILS)
    BY <1>1, ApproachAgrees
  <2>2. PinAt(s, i).anchor = i /\ RailsAt(s, i).anchor = i - 1
    BY DEF PinAt, RailsAt
  <2>3. QED
    BY <1>2, <2>1, <2>2, TriggersAgree DEF V5!TriggerAt
<1>5. V5!LevelsAt(t, i) = V5!LevelsAt(s, i)
  BY <1>3, Zenon DEF V5!LevelsAt
<1>6. ASSUME NEW low PROVE V5!LevelFor(t, i, low) = V5!LevelFor(s, i, low)
  BY <1>5, Zenon DEF V5!LevelFor
<1>7. ASSUME NEW anchor \in {i, i - 1}
      PROVE  V5!ApproachCrash(t, anchor) = V5!ApproachCrash(s, anchor)
  BY <1>1, ApproachAgrees
<1>8. t[i + 1] = s[i + 1]
  BY TriggersAgree
<1>9. CASE V5!TriggerAt(s, i) = None
  BY <1>4, <1>9, Zenon DEF V5!SignalAt
<1>10. CASE V5!TriggerAt(s, i) # None
  <2>1. V5!ApproachCrash(t, V5!TriggerAt(s, i).anchor)
          = V5!ApproachCrash(s, V5!TriggerAt(s, i).anchor)
    BY <1>4, <1>7, <1>10
  <2>2. QED
    BY <1>4, <1>6, <1>8, <2>1, Zenon DEF V5!SignalAt
<1>11. QED
  BY <1>9, <1>10

LEMMA WidthsAgree ==
    ASSUME NEW s, NEW t, NEW i \in Nat, Agree(s, t, i)
    PROVE  V67!Background2(t, i) = V67!Background2(s, i) /\ V67!Anomaly(t, i) = V67!Anomaly(s, i)
<1> DEFINE Wide(r, b) == IF b < 0 THEN V67!RangeOf(r[1]) ELSE V67!RangeOf(r[b + 1])
           Before(r) == [k \in 1 .. ANOMALY_LOOKBACK |-> Wide(r, i - ANOMALY_LOOKBACK + k)]
<1>1. ASSUME NEW b \in Int, b <= i
      PROVE  Wide(t, b) = Wide(s, b)
  <2>1. t[1] = s[1]
    <3>1. 1 \in 1 .. i + 1
      OBVIOUS
    <3>2. QED
      BY <3>1, Zenon DEF Agree
  <2>2. ASSUME ~(b < 0) PROVE t[b + 1] = s[b + 1]
    <3>1. b + 1 \in 1 .. i + 1
      BY <1>1, <2>2
    <3>2. QED
      BY <3>1, Zenon DEF Agree
  <2>3. QED
    BY <2>1, <2>2, Zenon
<1>2. Before(t) = Before(s)
  <2>1. ASSUME NEW k \in 1 .. ANOMALY_LOOKBACK
        PROVE  Wide(t, i - ANOMALY_LOOKBACK + k) = Wide(s, i - ANOMALY_LOOKBACK + k)
    <3> HIDE DEF Wide
    <3>1. ANOMALY_LOOKBACK \in Nat
      BY PinBarParams
    <3>2. i - ANOMALY_LOOKBACK + k \in Int /\ i - ANOMALY_LOOKBACK + k <= i
      BY <3>1
    <3>3. QED
      BY <3>2, <1>1, Zenon
  <2> HIDE DEF Wide
  <2>2. QED
    BY <2>1, Zenon
<1>3. ASSUME NEW r PROVE V67!Background2(r, i) = V67!Median2(Before(r))
  BY Zenon DEF V67!Background2
<1>4. V67!Background2(t, i) = V67!Background2(s, i)
  <2> HIDE DEF Before
  <2>1. QED
    BY <1>2, <1>3, Zenon
<1>5. ASSUME NEW r
      PROVE  V67!Anomaly(r, i) = \E b \in i - 3 .. i :
                 b >= 0 /\ V67!RangeOf(r[b + 1]) * 4 > 3 * V67!Background2(r, i)
  BY Zenon DEF V67!Anomaly
<1>6. \A b \in i - 3 .. i : b >= 0 => t[b + 1] = s[b + 1]
  BY DEF Agree
<1>7. V67!Anomaly(t, i) = V67!Anomaly(s, i)
  BY <1>4, <1>5, <1>6, Zenon
<1>8. QED
  BY <1>4, <1>7

LEMMA WindowsOfV67 ==
    ASSUME NEW s, NEW t, NEW i \in Nat, Agree(s, t, i)
    PROVE  /\ V67!LevelsAtV6(t, i) = V67!LevelsAtV6(s, i)
           /\ V67!LevelsAtV7(t, i) = V67!LevelsAtV7(s, i)
<1>1. V67!LevelWindow(t, i) = V67!LevelWindow(s, i)
  <2>1. ASSUME NEW r PROVE V67!LevelWindow(r, i) = LevelWindow(r, i)
    BY Zenon DEF V67!LevelWindow, LevelWindow, V67!WindowKey, WindowKey
  <2>2. QED
    BY <2>1, WindowAgrees, Zenon
<1>2. V67!WindowIsFull(t, i) = V67!WindowIsFull(s, i)
  BY <1>1, Zenon DEF V67!WindowIsFull
<1>3. QED
  BY <1>1, <1>2, Zenon DEF V67!LevelsAtV6, V67!LevelsAtV7

LEMMA TriggersOfV67 ==
    ASSUME NEW s, NEW t, NEW i \in Nat, Agree(s, t, i)
    PROVE  /\ V67!TriggerAtV6(t, i) = V67!TriggerAtV6(s, i)
           /\ V67!TriggerAtV7(t, i) = V67!TriggerAtV7(s, i)
<1>1. ASSUME NEW r, NEW anchor, NEW min_red
      PROVE  V67!RedApproachV6(r, anchor, min_red) = FallsTo(r, anchor, min_red)
  BY Zenon DEF V67!RedApproachV6, V67!FallsTo, FallsTo, V67!At, At, V67!Red, Red,
      V67!APPROACH_BARS, APPROACH_BARS, V67!Cardinality, Cardinality
<1>2. ASSUME NEW r, NEW is_rails, NEW min_red
      PROVE  V67!RedApproachV7(r, i, is_rails, min_red) = FallsBefore(r, i, is_rails, min_red)
  BY Zenon DEF V67!RedApproachV7, V67!FallsBefore, FallsBefore, V67!At, At, V67!Red, Red,
      V67!APPROACH_BARS, APPROACH_BARS, V67!Cardinality, Cardinality
<1>3. ASSUME NEW r
      PROVE  V67!PinAt(r, i) = PinAt(r, i) /\ V67!RailsAt(r, i) = RailsAt(r, i)
  BY Zenon DEF V67!PinAt, PinAt, V67!RailsAt, RailsAt, V67!At, At, V67!Low, Low
<1>4. V67!TriggerAtV6(t, i) = V67!TriggerAtV6(s, i)
  <2>1. /\ V67!RedApproachV6(t, i, V67!MIN_RED_BARS_PIN)
              = V67!RedApproachV6(s, i, V67!MIN_RED_BARS_PIN)
        /\ V67!RedApproachV6(t, i - 1, V67!MIN_RED_BARS_RAILS)
              = V67!RedApproachV6(s, i - 1, V67!MIN_RED_BARS_RAILS)
    BY <1>1, ApproachAgrees
  <2>2. QED
    BY <1>3, <2>1, TriggersAgree DEF V67!TriggerAtV6
<1>5. V67!TriggerAtV7(t, i) = V67!TriggerAtV7(s, i)
  <2>1. TRUE \in BOOLEAN /\ FALSE \in BOOLEAN
    OBVIOUS
  <2>2. /\ V67!RedApproachV7(t, i, FALSE, V67!MIN_RED_BARS_PIN)
              = V67!RedApproachV7(s, i, FALSE, V67!MIN_RED_BARS_PIN)
        /\ V67!RedApproachV7(t, i, TRUE, V67!MIN_RED_BARS_RAILS)
              = V67!RedApproachV7(s, i, TRUE, V67!MIN_RED_BARS_RAILS)
    <3>1. ASSUME NEW is_rails \in BOOLEAN, NEW min_red
          PROVE  V67!RedApproachV7(t, i, is_rails, min_red) = V67!RedApproachV7(s, i, is_rails, min_red)
      <4>1. FallsBefore(t, i, is_rails, min_red) = FallsBefore(s, i, is_rails, min_red)
        BY EarlierApproachAgrees
      <4>2. V67!RedApproachV7(t, i, is_rails, min_red) = FallsBefore(t, i, is_rails, min_red)
        BY <1>2, Zenon
      <4>3. V67!RedApproachV7(s, i, is_rails, min_red) = FallsBefore(s, i, is_rails, min_red)
        BY <1>2, Zenon
      <4>4. QED
        BY <4>1, <4>2, <4>3
    <3>2. QED
      BY <3>1, <2>1, Zenon
  <2>3. QED
    BY <1>3, <2>2, TriggersAgree DEF V67!TriggerAtV7
<1>6. QED
  BY <1>4, <1>5

LEMMA CausalV6 ==
    ASSUME NEW s, NEW t, NEW i \in Nat, Agree(s, t, i)
    PROVE  V67!SignalAtV6(t, i) = V67!SignalAtV6(s, i)
<1>1. t[i + 1] = s[i + 1]
  BY TriggersAgree
<1>2. QED
  BY <1>1, WidthsAgree, WindowsOfV67, TriggersOfV67, Zenon DEF V67!SignalAtV6

LEMMA CausalV7 ==
    ASSUME NEW s, NEW t, NEW i \in Nat, Agree(s, t, i)
    PROVE  V67!SignalAtV7(t, i) = V67!SignalAtV7(s, i)
<1>1. t[i + 1] = s[i + 1]
  BY TriggersAgree
<1>2. QED
  BY <1>1, WidthsAgree, WindowsOfV67, TriggersOfV67, Zenon DEF V67!SignalAtV7
-----------------------------------------------------------------------------
(* The touches of a zone, one bar after the other. *)
Mark(w, zone, k, before) ==
    IF k \in V4!Detector!InZone(w, zone) /\ \A j \in before : k - j > COOLDOWN
    THEN before \cup {k} ELSE before

IsCounted(f, w, zone) ==
    f = [k \in 0 .. Len(w) |-> IF k = 0 THEN {} ELSE Mark(w, zone, k, f[k - 1])]

LEMMA CountedExists ==
    ASSUME NEW w, Len(w) \in Nat, NEW zone
    PROVE  \E f : IsCounted(f, w, zone)
<1> DEFINE n == Len(w)
           S == SUBSET Int
           g == [k \in 1 .. n |-> [x \in S |-> Mark(w, zone, k, x)]]
<1>1. n \in Nat /\ {} \in S
  OBVIOUS
<1>2. \A k \in 1 .. n : \A x \in S : g[k][x] \in S /\ g[k][x] = Mark(w, zone, k, x)
  BY DEF Mark
<1>3. \A k \in 1 .. n : \A x \in S : g[k][x] \in S
  BY <1>2
<1>4. \A k \in 1 .. n : \A x \in S : g[k][x] = Mark(w, zone, k, x)
  BY <1>2
<1> HIDE DEF g, S, n
<1>5. PICK f : IsLoop(f, n, {}, g) /\ AllIn(f, n, S)
  BY <1>1, <1>3, LoopExists, Zenon
<1>6. f = [k \in 0 .. n |-> IF k = 0 THEN {} ELSE g[k][f[k - 1]]]
  BY <1>5 DEF IsLoop
<1>7. ASSUME NEW k \in 0 .. n, k # 0
      PROVE  g[k][f[k - 1]] = Mark(w, zone, k, f[k - 1])
  <2>1. k \in 1 .. n /\ k - 1 \in 0 .. n
    BY <1>1, <1>7
  <2>2. f[k - 1] \in S
    BY <1>5, <2>1, Zenon DEF AllIn
  <2>3. QED
    BY <1>4, <2>1, <2>2
<1>8. f = [k \in 0 .. n |-> IF k = 0 THEN {} ELSE Mark(w, zone, k, f[k - 1])]
  BY <1>6, <1>7
<1>9. QED
  BY <1>8, Zenon DEF IsCounted, n

LEMMA VisitsCount ==
    ASSUME NEW w, Len(w) \in Nat, NEW zone
    PROVE  V4!Detector!Visits(w, zone) \subseteq V4!Detector!Touches(w, zone)
<1> DEFINE n == Len(w)
           f == CHOOSE h : IsCounted(h, w, zone)
           inside == V4!Detector!InZone(w, zone)
           visits == V4!Detector!Visits(w, zone)
<1>1. V4!Detector!Touches(w, zone) = f[n]
  BY Zenon DEF V4!Detector!Touches, IsCounted, Mark
<1>2. IsCounted(f, w, zone)
  BY CountedExists, Zenon
<1>3. inside \in SUBSET (1 .. n) /\ n \in Nat
  BY DEF V4!Detector!InZone, V4!Detector!Positions
<1>4. visits = {i \in inside : (i - COOLDOWN .. i - 1) \cap inside = {}}
  BY Zenon DEF V4!Detector!Visits
<1> HIDE DEF f, visits
<1>5. f[0] = {} /\ \A k \in 1 .. n : f[k] = Mark(w, zone, k, f[k - 1])
  <2>1. f = [k \in 0 .. n |-> IF k = 0 THEN {} ELSE Mark(w, zone, k, f[k - 1])]
    BY <1>2, Zenon DEF IsCounted
  <2>2. n \in Nat
    BY <1>3
  <2> HIDE DEF n
  <2>3. ASSUME NEW k \in 0 .. n
        PROVE  f[k] = IF k = 0 THEN {} ELSE Mark(w, zone, k, f[k - 1])
    BY <2>1, Zenon
  <2>4. 0 \in 0 .. n /\ \A k \in 1 .. n : k \in 0 .. n /\ k # 0
    BY <2>2
  <2>5. QED
    BY <2>3, <2>4, Zenon
<1> DEFINE P == {k \in 0 .. n : /\ f[k] \in SUBSET (inside \cap 1 .. k)
                                /\ visits \cap 1 .. k \in SUBSET f[k]}
<1> HIDE DEF n
<1>6. 0 \in P
  BY <1>3, <1>5
<1>7. ASSUME NEW k \in 1 .. n, k - 1 \in P
      PROVE  k \in P
  <2>1. f[k] = IF k \in inside /\ \A j \in f[k - 1] : k - j > COOLDOWN
               THEN f[k - 1] \cup {k} ELSE f[k - 1]
    BY <1>5, Zenon DEF Mark
  <2>2. /\ f[k - 1] \in SUBSET (inside \cap 1 .. k - 1)
        /\ visits \cap 1 .. k - 1 \in SUBSET f[k - 1]
    BY <1>7
  <2> HIDE DEF inside
  <2>3. f[k] \in SUBSET (inside \cap 1 .. k)
    BY <1>3, <2>1, <2>2
  <2>4. f[k - 1] \in SUBSET f[k]
    BY <2>1
  <2>5. ASSUME k \in visits PROVE k \in f[k]
    <3>1. COOLDOWN \in Nat
      BY PinBarParams
    <3>2. k \in inside /\ (k - COOLDOWN .. k - 1) \cap inside = {}
      BY <1>4, <2>5
    <3>3. \A j \in f[k - 1] : k - j > COOLDOWN
      BY <2>2, <3>1, <3>2
    <3>4. QED
      BY <2>1, <3>2, <3>3
  <2>6. visits \cap 1 .. k \in SUBSET f[k]
    <3>1. \A i \in 1 .. k : i = k \/ i \in 1 .. k - 1
      OBVIOUS
    <3>2. QED
      BY <2>2, <2>4, <2>5, <3>1
  <2>7. k \in 0 .. n
    OBVIOUS
  <2>8. QED
    BY <2>3, <2>6, <2>7
<1>8. n \in P
  <2> HIDE DEF P
  <2>1. \A k \in 1 .. n : k - 1 \in P => k \in P
    BY <1>7
  <2>2. \A k \in 0 .. n : k \in P
    BY <1>3, <1>6, <2>1, StepByStep, Zenon
  <2>3. QED
    BY <1>3, <2>2
<1>9. visits \in SUBSET (1 .. n)
  BY <1>3, <1>4
<1>10. QED
  BY <1>1, <1>8, <1>9 DEF n, visits

LEMMA VisitsTouch ==
    ASSUME NEW w, Len(w) \in Nat
    PROVE  V4!Detector!VisitsAreTouches(w)
  BY VisitsCount, Zenon DEF V4!Detector!VisitsAreTouches
-----------------------------------------------------------------------------
(* Pivots in the order of their prices. *)
Enumerable(S) ==
    /\ IsFiniteSet(S)
    /\ \A p \in S : p.index \in Int /\ p.price \in Int /\ p.type \in {"high", "low"}
    /\ \A p, q \in S : p.index = q.index /\ p.type = q.type => p = q

Place(S, x) == Cardinality({y \in S : V4!Detector!ByPrice(y, x)})

ByPriceSorted(S) == V4!Detector!Sorted(S, V4!Detector!ByPrice)

LEMMA ByPriceIsAnOrder ==
    ASSUME NEW S, Enumerable(S)
    PROVE  /\ \A p, q \in S : p = q \/ V4!Detector!ByPrice(p, q) \/ V4!Detector!ByPrice(q, p)
           /\ \A p, q \in S : ~(V4!Detector!ByPrice(p, q) /\ (V4!Detector!ByPrice(q, p) \/ p = q))
           /\ \A p, q, r \in S : V4!Detector!ByPrice(p, q) /\ V4!Detector!ByPrice(q, r)
                                    => V4!Detector!ByPrice(p, r)
           /\ \A p, q \in S : V4!Detector!ByPrice(p, q) => p.price <= q.price
           /\ \A p, q \in S : p.price < q.price => V4!Detector!ByPrice(p, q)
<1> DEFINE Before(p, q) == V4!Detector!ByPrice(p, q)
<1>1. \A p, q \in S : Before(p, q)
          <=> \/ p.price < q.price
              \/ /\ p.price = q.price
                 /\ \/ p.index < q.index
                    \/ p.index = q.index /\ p.type = "high" /\ q.type = "low"
  BY Zenon DEF V4!Detector!ByPrice, V4!Detector!ByTime
<1>2. \A p \in S : p.index \in Int /\ p.price \in Int /\ p.type \in {"high", "low"}
  BY DEF Enumerable
<1>3. \A p, q \in S : p.index = q.index /\ p.type = q.type => p = q
  BY DEF Enumerable
<1> HIDE DEF Before
<1>4. \A p, q \in S : p = q \/ Before(p, q) \/ Before(q, p)
  BY <1>1, <1>2, <1>3
<1>5. \A p, q \in S : ~(Before(p, q) /\ (Before(q, p) \/ p = q))
  BY <1>1, <1>2
<1>6. \A p, q, r \in S : Before(p, q) /\ Before(q, r) => Before(p, r)
  BY <1>1, <1>2
<1>7. /\ \A p, q \in S : Before(p, q) => p.price <= q.price
      /\ \A p, q \in S : p.price < q.price => Before(p, q)
  BY <1>1, <1>2
<1>8. QED
  BY <1>4, <1>5, <1>6, <1>7 DEF Before

LEMMA PlacesAre ==
    ASSUME NEW S, Enumerable(S)
    PROVE  /\ Cardinality(S) \in Nat
           /\ \A x \in S : Place(S, x) \in 0 .. Cardinality(S) - 1
           /\ \A x, y \in S : V4!Detector!ByPrice(x, y) => Place(S, x) < Place(S, y)
           /\ \A x, y \in S : Place(S, x) = Place(S, y) => x = y
           /\ \A k \in 0 .. Cardinality(S) - 1 : \E x \in S : Place(S, x) = k
<1> DEFINE Before(p, q) == V4!Detector!ByPrice(p, q)
           n == Cardinality(S)
           Below(x) == {y \in S : Before(y, x)}
           place == [x \in S |-> Place(S, x)]
<1>1. /\ \A p, q \in S : p = q \/ Before(p, q) \/ Before(q, p)
      /\ \A p, q \in S : ~(Before(p, q) /\ (Before(q, p) \/ p = q))
      /\ \A p, q, r \in S : Before(p, q) /\ Before(q, r) => Before(p, r)
  BY ByPriceIsAnOrder
<1>2. IsFiniteSet(S)
  BY DEF Enumerable
<1>3. n \in Nat
  BY <1>2, FS_CardinalityType
<1>4. \A x : Place(S, x) = Cardinality(Below(x))
  BY Zenon DEF Place
<1> HIDE DEF Before
<1>5. ASSUME NEW x \in S
      PROVE  /\ IsFiniteSet(Below(x)) /\ Cardinality(Below(x)) \in 0 .. n - 1
  <2>1. Below(x) \in SUBSET (S \ {x}) /\ S \ {x} \in SUBSET S
    BY <1>1
  <2>2. IsFiniteSet(S \ {x}) /\ Cardinality(S \ {x}) = n - 1
    BY <1>2, FS_RemoveElement
  <2> HIDE DEF Below
  <2>3. IsFiniteSet(Below(x)) /\ Cardinality(Below(x)) <= n - 1
    BY <2>1, <2>2, FS_Subset
  <2>4. Cardinality(Below(x)) \in Nat
    BY <2>3, FS_CardinalityType
  <2>5. QED
    BY <1>3, <2>3, <2>4
<1>6. ASSUME NEW x \in S, NEW y \in S, Before(x, y)
      PROVE  Place(S, x) < Place(S, y)
  <2>1. Below(x) \in SUBSET Below(y) /\ x \in Below(y) /\ x \notin Below(x)
    BY <1>1, <1>6
  <2>2. IsFiniteSet(Below(y)) /\ Cardinality(Below(x)) \in Int /\ Cardinality(Below(y)) \in Int
    BY <1>5
  <2> HIDE DEF Below
  <2>3. /\ Cardinality(Below(x)) <= Cardinality(Below(y))
        /\ Cardinality(Below(y)) # Cardinality(Below(x))
    <3>1. Below(x) # Below(y)
      BY <2>1
    <3>2. QED
      BY <2>1, <2>2, <3>1, FS_Subset
  <2>4. QED
    BY <1>4, <2>2, <2>3
<1>7. \A x \in S : Place(S, x) \in 0 .. n - 1
  BY <1>4, <1>5
<1>8. ASSUME NEW x \in S, NEW y \in S, Place(S, x) = Place(S, y)
      PROVE  x = y
  <2>1. Place(S, x) \in Int /\ Place(S, y) \in Int
    BY <1>7
  <2>2. QED
    BY <1>1, <1>6, <1>8, <2>1
<1>9. place \in Injection(S, 0 .. n - 1)
  <2>1. place \in [S -> 0 .. n - 1]
    BY <1>7
  <2>2. \A x, y \in S : place[x] = place[y] => x = y
    BY <1>8
  <2>3. QED
    BY <2>1, <2>2 DEF Injection, IsInjective
<1>10. IsFiniteSet(0 .. n - 1) /\ Cardinality(0 .. n - 1) = n
  <2>1. 0 \in Int /\ n - 1 \in Int
    BY <1>3
  <2> HIDE DEF n
  <2>2. IsFiniteSet(0 .. n - 1) /\ Cardinality(0 .. n - 1) = IF 0 > n - 1 THEN 0 ELSE (n - 1) - 0 + 1
    BY <2>1, FS_Interval
  <2>3. QED
    BY <1>3, <2>2
<1>11. place \in Surjection(S, 0 .. n - 1)
  <2> HIDE DEF place
  <2>1. Cardinality(S) = Cardinality(0 .. n - 1)
    BY <1>10
  <2>2. QED
    BY <1>9, <1>10, <2>1, FS_Injection
<1>12. \A k \in 0 .. n - 1 : \E x \in S : Place(S, x) = k
  <2>1. \A k \in 0 .. n - 1 : \E x \in S : place[x] = k
    BY <1>11, Zenon DEF Surjection
  <2>2. \A x \in S : place[x] = Place(S, x)
    OBVIOUS
  <2> HIDE DEF place
  <2>3. QED
    BY <2>1, <2>2, Zenon
<1>13. QED
  BY <1>3, <1>6, <1>7, <1>8, <1>12 DEF n, Before

LEMMA SortedIs ==
    ASSUME NEW S, Enumerable(S)
    PROVE  LET sorted == ByPriceSorted(S)
               n == Cardinality(S)
           IN  /\ n \in Nat /\ Len(sorted) = n /\ DOMAIN sorted = 1 .. n
               /\ \A k \in 1 .. n : sorted[k] \in S /\ sorted[k].price \in Int
               /\ \A x \in S : \E k \in 1 .. n : x = sorted[k]
               /\ \A j, k \in 1 .. n : sorted[j].price < sorted[k].price => j < k
               /\ \A j, k \in 1 .. n : j <= k => sorted[j].price <= sorted[k].price
<1> DEFINE sorted == ByPriceSorted(S)
           n == Cardinality(S)
<1>1. sorted = [k \in 1 .. n |-> CHOOSE x \in S : Place(S, x) = k - 1]
  BY Zenon DEF ByPriceSorted, V4!Detector!Sorted, Place, V4!Detector!Cardinality, Cardinality
<1> HIDE DEF sorted
<1>2. n \in Nat
  BY PlacesAre
<1>3. Len(sorted) = n /\ DOMAIN sorted = 1 .. n
  BY <1>1, <1>2
<1>4. ASSUME NEW k \in 1 .. n
      PROVE  sorted[k] \in S /\ Place(S, sorted[k]) = k - 1
  <2>1. k - 1 \in 0 .. n - 1
    BY <1>2
  <2>2. \E x \in S : Place(S, x) = k - 1
    BY <2>1, PlacesAre
  <2>3. sorted[k] = CHOOSE x \in S : Place(S, x) = k - 1
    BY <1>1
  <2>4. QED
    BY <2>2, <2>3
<1>5. \A x \in S : \E k \in 1 .. n : x = sorted[k]
  <2>1. SUFFICES ASSUME NEW x \in S PROVE \E k \in 1 .. n : x = sorted[k]
    OBVIOUS
  <2>2. Place(S, x) \in 0 .. n - 1
    BY PlacesAre
  <2>3. Place(S, x) + 1 \in 1 .. n
    BY <1>2, <2>2
  <2>4. Place(S, sorted[Place(S, x) + 1]) = Place(S, x) /\ sorted[Place(S, x) + 1] \in S
    BY <1>4, <2>2, <2>3
  <2>5. x = sorted[Place(S, x) + 1]
    BY <2>4, PlacesAre
  <2>6. QED
    BY <2>3, <2>5
<1>6. \A k \in 1 .. n : sorted[k].price \in Int
  BY <1>4 DEF Enumerable
<1>7. ASSUME NEW j \in 1 .. n, NEW k \in 1 .. n, sorted[j].price < sorted[k].price
      PROVE  j < k
  <2>1. V4!Detector!ByPrice(sorted[j], sorted[k])
    BY <1>4, <1>7, ByPriceIsAnOrder
  <2>2. Place(S, sorted[j]) < Place(S, sorted[k])
    BY <1>4, <2>1, PlacesAre
  <2>3. j - 1 < k - 1
    BY <1>4, <2>2
  <2>4. QED
    BY <1>2, <2>3
<1>8. ASSUME NEW j \in 1 .. n, NEW k \in 1 .. n, j <= k
      PROVE  sorted[j].price <= sorted[k].price
  <2>1. ~(k < j)
    BY <1>2, <1>8
  <2>2. ~(sorted[k].price < sorted[j].price)
    BY <1>7, <2>1
  <2>3. QED
    BY <1>6, <2>2
<1>9. QED
  BY <1>2, <1>3, <1>4, <1>5, <1>6, <1>7, <1>8 DEF sorted, n

(* Prices that are further apart than two that lie between them. *)
LEMMA WiderIsFurther ==
    ASSUME NEW x \in Nat, NEW y \in Nat, x <= y, NEW a \in Nat, NEW b \in Int,
           ~(x * 2 * a <= b)
    PROVE  ~(y * 2 * a <= b)
<1>1. PICK d \in Nat : y = x + d
  <2>1. y - x \in Nat /\ y = x + (y - x)
    OBVIOUS
  <2>2. QED
    BY <2>1
<1>2. d * a \in Nat /\ x * a \in Nat
  OBVIOUS
<1>3. y * 2 * a = 2 * (x * a) + 2 * (d * a) /\ x * 2 * a = 2 * (x * a)
  BY <1>1
<1>4. QED
  BY <1>2, <1>3

LEMMA FarAreNoNeighbours ==
    ASSUME NEW atr, atr[1] \in Int, atr[2] \in Nat,
           NEW p, NEW q, NEW r, NEW t, p.price \in Int, q.price \in Int,
           r.price \in Int, t.price \in Int,
           p.price <= r.price, r.price <= t.price, t.price <= q.price,
           ~V4!Detector!Neighbours(r, t, atr)
    PROVE  ~V4!Detector!Neighbours(p, q, atr) /\ ~V4!Detector!Neighbours(q, p, atr)
<1> DEFINE Apart(x, y) == V4!Detector!Distance(x.price, y.price)
<1>1. /\ Apart(r, t) = t.price - r.price
      /\ Apart(p, q) = q.price - p.price
      /\ Apart(q, p) = q.price - p.price
  BY DEF V4!Detector!Distance
<1>2. \A x, y : V4!Detector!Neighbours(x, y, atr) <=> Apart(x, y) * 2 * atr[2] <= 3 * atr[1]
  BY Zenon DEF V4!Detector!Neighbours
<1> HIDE DEF Apart
<1>3. t.price - r.price \in Nat /\ q.price - p.price \in Nat /\ t.price - r.price <= q.price - p.price
  OBVIOUS
<1>4. ~((t.price - r.price) * 2 * atr[2] <= 3 * atr[1])
  BY <1>1, <1>2, Zenon
<1>5. 3 * atr[1] \in Int
  OBVIOUS
<1>6. ~((q.price - p.price) * 2 * atr[2] <= 3 * atr[1])
  BY <1>3, <1>4, <1>5, WiderIsFurther, Zenon
<1>7. QED
  BY <1>1, <1>2, <1>6, Zenon

Cuts(S, atr) ==
    {k \in 2 .. Cardinality(S) :
        ~V4!Detector!Neighbours(ByPriceSorted(S)[k - 1], ByPriceSorted(S)[k], atr)}

Together(S, atr, j, k) == \A cut \in Cuts(S, atr) : j < cut <=> k < cut

ClusterAt(S, atr, k) ==
    {ByPriceSorted(S)[j] : j \in {n \in 1 .. Cardinality(S) : Together(S, atr, n, k)}}

LEMMA ClustersOf ==
    ASSUME NEW S, Enumerable(S), NEW atr, NEW cluster \in V4!Detector!ClusterPivots(S, atr)
    PROVE  \E k \in 1 .. Cardinality(S) : cluster = ClusterAt(S, atr, k)
<1> DEFINE sorted == ByPriceSorted(S)
           cuts == {k \in 2 .. Len(sorted) :
                        ~V4!Detector!Neighbours(sorted[k - 1], sorted[k], atr)}
           Joined(j, k) == \A cut \in cuts : j < cut <=> k < cut
           C(k) == {sorted[j] : j \in {n \in DOMAIN sorted : Joined(n, k)}}
<1>1. \E k \in DOMAIN sorted : cluster = C(k)
  BY Zenon DEF V4!Detector!ClusterPivots, ByPriceSorted
<1>2. Len(sorted) = Cardinality(S) /\ DOMAIN sorted = 1 .. Cardinality(S)
  BY SortedIs
<1> HIDE DEF sorted
<1>3. cuts = {k \in 2 .. Cardinality(S) :
                 ~V4!Detector!Neighbours(sorted[k - 1], sorted[k], atr)}
  BY <1>2, Zenon
<1>4. cuts = Cuts(S, atr)
  BY <1>3, Zenon DEF sorted, Cuts
<1> HIDE DEF cuts
<1>5. \A j, k : Joined(j, k) <=> Together(S, atr, j, k)
  BY <1>4, Zenon DEF Together
<1> HIDE DEF Joined
<1>6. PICK k \in DOMAIN sorted : cluster = C(k)
  BY <1>1, Zenon
<1>7. {n \in DOMAIN sorted : Joined(n, k)}
        = {n \in 1 .. Cardinality(S) : Together(S, atr, n, k)}
  BY <1>2, <1>5
<1>8. cluster = ClusterAt(S, atr, k)
  BY <1>6, <1>7, Zenon DEF ClusterAt, sorted
<1>9. QED
  BY <1>2, <1>6, <1>8, Zenon

LEMMA ClustersAreJoined ==
    ASSUME NEW S, Enumerable(S), NEW atr, NEW k \in 1 .. Cardinality(S),
           NEW p \in ClusterAt(S, atr, k),
           NEW q \in ClusterAt(S, atr, k), q.price < p.price
    PROVE  \E r \in ClusterAt(S, atr, k) :
               r.price < p.price /\ V4!Detector!Neighbours(p, r, atr)
<1> DEFINE sorted == ByPriceSorted(S)
           n == Cardinality(S)
<1>1. /\ n \in Nat
      /\ \A j \in 1 .. n : sorted[j].price \in Int
      /\ \A i, j \in 1 .. n : sorted[i].price < sorted[j].price => i < j
      /\ \A i, j \in 1 .. n : i <= j => sorted[i].price <= sorted[j].price
  BY SortedIs
<1>2. /\ \E j \in 1 .. n : Together(S, atr, j, k) /\ p = sorted[j]
      /\ \E j \in 1 .. n : Together(S, atr, j, k) /\ q = sorted[j]
  BY Zenon DEF ClusterAt
<1> HIDE DEF sorted, n
<1>3. PICK at \in 1 .. n : Together(S, atr, at, k) /\ p = sorted[at]
  BY <1>2
<1>4. PICK low \in 1 .. n : Together(S, atr, low, k) /\ q = sorted[low]
  BY <1>2
<1>5. low < at
  BY <1>1, <1>3, <1>4
<1> DEFINE T == {j \in low .. at : sorted[j].price < p.price}
<1>6. PICK j \in T : \A i \in T : i <= j
  <2>1. T \in SUBSET Int /\ T # {} /\ at \in Int /\ \A i \in T : i <= at
    BY <1>1, <1>4, <1>5
  <2> HIDE DEF T
  <2>2. QED
    BY <2>1, Greatest, Zenon
<1>7. j \in low .. at - 1 /\ j \in 1 .. n /\ sorted[j].price < p.price
  <2>1. j \in low .. at /\ sorted[j].price < p.price
    BY <1>6
  <2>2. j # at
    BY <1>1, <1>3, <2>1
  <2>3. QED
    BY <1>1, <2>1, <2>2
<1>8. j + 1 \in low .. at /\ j + 1 \in 2 .. n
  BY <1>1, <1>7
<1>9. sorted[j + 1].price = p.price
  <2>1. ~(j + 1 \in T)
    BY <1>6, <1>7
  <2>2. j + 1 \in 1 .. n /\ j + 1 <= at
    BY <1>1, <1>8
  <2>3. ~(sorted[j + 1].price < p.price) /\ sorted[j + 1].price <= p.price
    BY <1>1, <1>3, <1>8, <2>1, <2>2
  <2>4. sorted[j + 1].price \in Int /\ p.price \in Int
    BY <1>1, <1>3, <2>2
  <2>5. QED
    BY <2>3, <2>4
<1>10. \A cut \in Cuts(S, atr) : cut \in Int /\ (low < cut <=> at < cut) /\ (at < cut <=> k < cut)
  <2>1. \A cut \in Cuts(S, atr) : cut \in Int
    BY DEF Cuts
  <2>2. QED
    BY <1>3, <1>4, <2>1 DEF Together
<1>11. V4!Detector!Neighbours(sorted[j], sorted[j + 1], atr)
  <2>1. j + 1 \notin Cuts(S, atr)
    BY <1>7, <1>8, <1>10
  <2>2. (j + 1) - 1 = j
    BY <1>7
  <2>3. QED
    BY <1>8, <2>1, <2>2 DEF Cuts, sorted, n
<1>12. V4!Detector!Neighbours(p, sorted[j], atr)
  <2>1. sorted[j].price \in Int /\ p.price \in Int
    BY <1>1, <1>3, <1>7
  <2>2. V4!Detector!Distance(p.price, sorted[j].price)
          = V4!Detector!Distance(sorted[j].price, p.price)
    BY <2>1 DEF V4!Detector!Distance
  <2>3. QED
    BY <1>9, <1>11, <2>2, Zenon DEF V4!Detector!Neighbours
<1>13. Together(S, atr, j, k)
  BY <1>7, <1>10 DEF Together
<1>14. sorted[j] \in ClusterAt(S, atr, k)
  BY <1>7, <1>13, Zenon DEF ClusterAt, sorted, n
<1>15. QED
  BY <1>7, <1>12, <1>14

LEMMA ClustersAreApart ==
    ASSUME NEW S, Enumerable(S), NEW atr, atr[1] \in Int, atr[2] \in Nat,
           NEW k \in 1 .. Cardinality(S), NEW m \in 1 .. Cardinality(S),
           ClusterAt(S, atr, k) # ClusterAt(S, atr, m),
           NEW p \in ClusterAt(S, atr, k), NEW q \in ClusterAt(S, atr, m)
    PROVE  ~V4!Detector!Neighbours(p, q, atr)
<1> DEFINE sorted == ByPriceSorted(S)
           n == Cardinality(S)
<1>1. /\ n \in Nat
      /\ \A j \in 1 .. n : sorted[j].price \in Int
      /\ \A i, j \in 1 .. n : i <= j => sorted[i].price <= sorted[j].price
  BY SortedIs
<1>2. /\ \E j \in 1 .. n : Together(S, atr, j, k) /\ p = sorted[j]
      /\ \E j \in 1 .. n : Together(S, atr, j, m) /\ q = sorted[j]
  BY Zenon DEF ClusterAt
<1>3. \E cut \in Cuts(S, atr) : ~(k < cut <=> m < cut)
  <2>1. SUFFICES ASSUME \A cut \in Cuts(S, atr) : k < cut <=> m < cut
                 PROVE  FALSE
    BY Zenon
  <2>2. \A j : Together(S, atr, j, k) <=> Together(S, atr, j, m)
    BY <2>1, Zenon DEF Together
  <2>3. {j \in 1 .. n : Together(S, atr, j, k)} = {j \in 1 .. n : Together(S, atr, j, m)}
    BY <2>2
  <2>4. ClusterAt(S, atr, k) = ClusterAt(S, atr, m)
    BY <2>3, Zenon DEF ClusterAt
  <2>5. QED
    BY <2>4
<1>4. PICK cut \in Cuts(S, atr) : ~(k < cut <=> m < cut)
  BY <1>3
<1> HIDE DEF sorted, n
<1>5. PICK i \in 1 .. n : Together(S, atr, i, k) /\ p = sorted[i]
  BY <1>2
<1>6. PICK j \in 1 .. n : Together(S, atr, j, m) /\ q = sorted[j]
  BY <1>2
<1>7. /\ cut \in 2 .. n /\ ~V4!Detector!Neighbours(sorted[cut - 1], sorted[cut], atr)
  BY DEF Cuts, sorted, n
<1>8. ~(i < cut <=> j < cut)
  <2>1. (i < cut <=> k < cut) /\ (j < cut <=> m < cut)
    BY <1>5, <1>6, Zenon DEF Together
  <2>2. QED
    BY <1>4, <2>1, Zenon
<1>9. cut - 1 \in 1 .. n /\ cut \in 1 .. n
  BY <1>1, <1>7
<1>10. /\ sorted[cut - 1].price \in Int /\ sorted[cut].price \in Int
       /\ p.price \in Int /\ q.price \in Int
       /\ sorted[cut - 1].price <= sorted[cut].price
  <2>1. cut - 1 <= cut
    BY <1>7
  <2>2. QED
    BY <1>1, <1>5, <1>6, <1>9, <2>1
<1>11. \/ i <= cut - 1 /\ cut <= j
       \/ j <= cut - 1 /\ cut <= i
  BY <1>7, <1>8
<1>12. CASE i <= cut - 1 /\ cut <= j
  <2>1. p.price <= sorted[cut - 1].price /\ sorted[cut].price <= q.price
    BY <1>1, <1>5, <1>6, <1>9, <1>12
  <2>2. QED
    BY <1>7, <1>10, <2>1, FarAreNoNeighbours
<1>13. CASE j <= cut - 1 /\ cut <= i
  <2>1. q.price <= sorted[cut - 1].price /\ sorted[cut].price <= p.price
    BY <1>1, <1>5, <1>6, <1>9, <1>13
  <2>2. QED
    BY <1>7, <1>10, <2>1, FarAreNoNeighbours
<1>14. QED
  BY <1>11, <1>12, <1>13
-----------------------------------------------------------------------------
LEMMA CandlesOf ==
    ASSUME NEW w \in Seq(Candles), NEW i \in 1 .. Len(w)
    PROVE  w[i].h \in Int /\ w[i].l \in Int /\ w[i].c \in Int
<1>1. w[i] \in Candles
  OBVIOUS
<1>2. \A k \in Candles : k.h \in Int /\ k.l \in Int /\ k.c \in Int
  BY DEF Candles
<1>3. QED
  BY <1>1, <1>2

LEMMA PivotsAreEnumerable ==
    ASSUME NEW w \in Seq(Candles)
    PROVE  Enumerable(V4!Detector!FindPivots(w))
<1> DEFINE inner == LEFT_BARS + 1 .. Len(w) - RIGHT_BARS
           Near(i) == (i - LEFT_BARS .. i + RIGHT_BARS) \ {i}
           tops == {k \in inner : \A j \in Near(k) : w[j].h < w[k].h}
           dips == {k \in inner : \A j \in Near(k) : w[j].l > w[k].l}
           High_(i) == [index |-> i, price |-> w[i].h, type |-> "high"]
           Low_(i) == [index |-> i, price |-> w[i].l, type |-> "low"]
           highs == {High_(i) : i \in tops}
           lows == {Low_(i) : i \in dips}
<1>1. V4!Detector!FindPivots(w) = highs \cup lows
  BY Zenon DEF V4!Detector!FindPivots
<1>2. LEFT_BARS \in Nat /\ RIGHT_BARS \in Nat /\ Len(w) \in Nat
  BY PinBarParams
<1>3. tops \in SUBSET inner /\ dips \in SUBSET inner
  OBVIOUS
<1>4. IsFiniteSet(inner) /\ inner \in SUBSET (1 .. Len(w))
  <2>1. LEFT_BARS + 1 \in Int /\ Len(w) - RIGHT_BARS \in Int
    BY <1>2
  <2>2. IsFiniteSet(inner)
    BY <2>1, FS_Interval
  <2>3. inner \in SUBSET (1 .. Len(w))
    BY <1>2
  <2>4. QED
    BY <2>2, <2>3
<1> HIDE DEF tops, dips, inner
<1>5. IsFiniteSet(tops) /\ IsFiniteSet(dips)
  BY <1>3, <1>4, FS_Subset
<1>6. \A i \in 1 .. Len(w) : w[i].h \in Int /\ w[i].l \in Int
  BY CandlesOf
<1>7. \A i : /\ High_(i).index = i /\ High_(i).price = w[i].h /\ High_(i).type = "high"
             /\ Low_(i).index = i /\ Low_(i).price = w[i].l /\ Low_(i).type = "low"
  OBVIOUS
<1> HIDE DEF High_, Low_
<1>8. IsFiniteSet(highs)
  <2> DEFINE f == [i \in tops |-> High_(i)]
  <2>1. f \in Surjection(tops, highs)
    BY DEF Surjection
  <2> HIDE DEF f
  <2>2. QED
    BY <1>5, <2>1, FS_Surjection
<1>9. IsFiniteSet(lows)
  <2> DEFINE f == [i \in dips |-> Low_(i)]
  <2>1. f \in Surjection(dips, lows)
    BY DEF Surjection
  <2> HIDE DEF f
  <2>2. QED
    BY <1>5, <2>1, FS_Surjection
<1>10. IsFiniteSet(highs \cup lows)
  <2> HIDE DEF highs, lows
  <2>1. QED
    BY <1>8, <1>9, FS_Union
<1>11. \A p \in highs \cup lows :
           \E i \in 1 .. Len(w) : p = High_(i) \/ p = Low_(i)
  BY <1>3, <1>4
<1> HIDE DEF highs, lows
<1>12. \A p \in highs \cup lows :
           p.index \in Int /\ p.price \in Int /\ p.type \in {"high", "low"}
  <2>1. SUFFICES ASSUME NEW p \in highs \cup lows
                 PROVE  p.index \in Int /\ p.price \in Int /\ p.type \in {"high", "low"}
    OBVIOUS
  <2>2. PICK i \in 1 .. Len(w) : p = High_(i) \/ p = Low_(i)
    BY <1>11
  <2>3. QED
    BY <1>6, <1>7, <2>2
<1>13. \A p, q \in highs \cup lows : p.index = q.index /\ p.type = q.type => p = q
  <2>1. SUFFICES ASSUME NEW p \in highs \cup lows, NEW q \in highs \cup lows,
                        p.index = q.index, p.type = q.type
                 PROVE  p = q
    OBVIOUS
  <2>2. PICK i \in 1 .. Len(w) : p = High_(i) \/ p = Low_(i)
    BY <1>11
  <2>3. PICK j \in 1 .. Len(w) : q = High_(j) \/ q = Low_(j)
    BY <1>11
  <2>4. i = j
    BY <1>7, <2>1, <2>2, <2>3
  <2>5. QED
    BY <1>7, <2>1, <2>2, <2>3, <2>4
<1>14. QED
  BY <1>1, <1>10, <1>12, <1>13 DEF Enumerable

-----------------------------------------------------------------------------
(* The average range is a fraction of whole numbers. *)
LEMMA RangesAre ==
    ASSUME NEW w \in Seq(Candles), NEW i \in 1 .. Len(w)
    PROVE  V4!Detector!TrueRange(w, i) \in Int
<1>1. \A j \in 1 .. Len(w) : w[j].h \in Int /\ w[j].l \in Int /\ w[j].c \in Int
  BY CandlesOf
<1> DEFINE span == w[i].h - w[i].l
           gap1 == V4!Detector!Distance(w[i].h, w[i - 1].c)
           gap2 == V4!Detector!Distance(w[i].l, w[i - 1].c)
<1>2. V4!Detector!TrueRange(w, i)
        = IF i = 1 THEN span ELSE V4!Detector!Highest({span, gap1, gap2})
  BY Zenon DEF V4!Detector!TrueRange
<1>3. span \in Int
  BY <1>1
<1>4. CASE i = 1
  BY <1>2, <1>3, <1>4
<1>5. CASE i # 1
  <2>1. i - 1 \in 1 .. Len(w)
    BY <1>5
  <2>2. gap1 \in Int /\ gap2 \in Int
    BY <1>1, <2>1 DEF V4!Detector!Distance
  <2> HIDE DEF span, gap1, gap2
  <2>3. \E x \in {span, gap1, gap2} : \A y \in {span, gap1, gap2} : y <= x
    BY <1>3, <2>2
  <2>4. V4!Detector!Highest({span, gap1, gap2}) \in {span, gap1, gap2}
    BY <2>3, Zenon DEF V4!Detector!Highest
  <2>5. QED
    BY <1>2, <1>3, <1>5, <2>2, <2>4
<1>6. QED
  BY <1>4, <1>5

(* The sum of the first p ranges, and each later average from the one       *)
(* before.                                                                  *)
IsSumOfRanges(f, w, p) ==
    f = [k \in 0 .. p |-> IF k = 0 THEN 0 ELSE f[k - 1] + V4!Detector!TrueRange(w, k)]

Smoothed(w, k, last) ==
    <<last[1] * (ATR_PERIOD - 1) + V4!Detector!TrueRange(w, k) * last[2],
      last[2] * ATR_PERIOD>>

FirstAtr(w) ==
    <<V4!Detector!SumOver(1, ATR_PERIOD, LAMBDA j : TRUE,
                          LAMBDA j : V4!Detector!TrueRange(w, j)), ATR_PERIOD>>

IsAtr(f, w) ==
    f = [k \in ATR_PERIOD .. Len(w) |->
            IF k = ATR_PERIOD THEN FirstAtr(w) ELSE Smoothed(w, k, f[k - 1])]

LEMMA FirstAtrIs ==
    ASSUME NEW w \in Seq(Candles), ATR_PERIOD <= Len(w)
    PROVE  FirstAtr(w)[1] \in Int /\ FirstAtr(w)[2] \in Nat
<1> DEFINE p == ATR_PERIOD
           f == CHOOSE h : IsSumOfRanges(h, w, p)
           g == [k \in 1 .. p |-> [x \in Int |-> x + V4!Detector!TrueRange(w, k)]]
<1>1. p \in Nat /\ 1 - 1 = 0 /\ 0 \in Int /\ Len(w) \in Nat
  BY PinBarParams
<1>2. FirstAtr(w)[1] = V4!Detector!SumOver(1, p, LAMBDA j : TRUE, LAMBDA j : V4!Detector!TrueRange(w, j))
      /\ FirstAtr(w)[2] = p
  BY DEF FirstAtr
<1>3. V4!Detector!SumOver(1, p, LAMBDA j : TRUE, LAMBDA j : V4!Detector!TrueRange(w, j)) = f[p]
  <2> DEFINE Sums(h) == h = [k \in 1 - 1 .. p |->
                 IF k < 1 THEN 0 ELSE h[k - 1] + (IF TRUE THEN V4!Detector!TrueRange(w, k) ELSE 0)]
  <2>1. V4!Detector!SumOver(1, p, LAMBDA j : TRUE, LAMBDA j : V4!Detector!TrueRange(w, j))
          = (CHOOSE h : Sums(h))[p]
    BY Zenon DEF V4!Detector!SumOver
  <2>2. \A h : Sums(h) <=> IsSumOfRanges(h, w, p)
    <3>1. SUFFICES ASSUME NEW h PROVE Sums(h) <=> IsSumOfRanges(h, w, p)
      OBVIOUS
    <3>2. [k \in 1 - 1 .. p |->
              IF k < 1 THEN 0 ELSE h[k - 1] + (IF TRUE THEN V4!Detector!TrueRange(w, k) ELSE 0)]
            = [k \in 0 .. p |-> IF k = 0 THEN 0 ELSE h[k - 1] + V4!Detector!TrueRange(w, k)]
      BY <1>1
    <3>3. QED
      BY <3>2, Zenon DEF IsSumOfRanges
  <2> HIDE DEF Sums
  <2>3. (CHOOSE h : Sums(h)) = f
    BY <2>2
  <2>4. QED
    BY <2>1, <2>3
<1>4. \A k \in 1 .. p : \A x \in Int :
          g[k][x] = x + V4!Detector!TrueRange(w, k) /\ g[k][x] \in Int
  BY <1>1, RangesAre
<1>5. PICK h : IsLoop(h, p, 0, g) /\ AllIn(h, p, Int)
  <2> HIDE DEF g, p
  <2>1. \A k \in 1 .. p : \A x \in Int : g[k][x] \in Int
    BY <1>4
  <2>2. QED
    BY <1>1, <2>1, LoopExists, Zenon
<1>6. IsSumOfRanges(h, w, p)
  <2> HIDE DEF g
  <2>1. h = [k \in 0 .. p |-> IF k = 0 THEN 0 ELSE g[k][h[k - 1]]]
    BY <1>5, Zenon DEF IsLoop
  <2>2. ASSUME NEW k \in 0 .. p, k # 0
        PROVE  g[k][h[k - 1]] = h[k - 1] + V4!Detector!TrueRange(w, k)
    <3>1. k \in 1 .. p /\ k - 1 \in 0 .. p
      BY <1>1, <2>2
    <3>2. h[k - 1] \in Int
      BY <1>5, <3>1, Zenon DEF AllIn
    <3>3. QED
      BY <1>4, <3>1, <3>2
  <2>3. QED
    BY <2>1, <2>2 DEF IsSumOfRanges
<1>7. IsSumOfRanges(f, w, p)
  BY <1>6, Zenon
<1> HIDE DEF f, g
<1>8. \A k \in 0 .. p : f[k] \in Int
  <2> DEFINE P == {k \in 0 .. p : f[k] \in Int}
  <2>1. f = [k \in 0 .. p |-> IF k = 0 THEN 0 ELSE f[k - 1] + V4!Detector!TrueRange(w, k)]
    BY <1>7, Zenon DEF IsSumOfRanges
  <2> HIDE DEF p
  <2>2. 0 \in P
    BY <1>1, <2>1
  <2>3. ASSUME NEW k \in 1 .. p, k - 1 \in P
        PROVE  k \in P
    <3>1. f[k - 1] \in Int /\ k \in 0 .. p /\ k # 0
      BY <2>3
    <3>2. V4!Detector!TrueRange(w, k) \in Int
      BY <1>1, RangesAre DEF p
    <3>3. f[k] = f[k - 1] + V4!Detector!TrueRange(w, k)
      BY <2>1, <3>1
    <3>4. QED
      BY <3>1, <3>2, <3>3
  <2> HIDE DEF P
  <2>4. \A k \in 0 .. p : k \in P
    BY <1>1, <2>2, <2>3, StepByStep, Zenon
  <2>5. QED
    BY <2>4 DEF P
<1>9. p \in 0 .. p
  BY <1>1
<1>10. QED
  BY <1>1, <1>2, <1>3, <1>8, <1>9

LEMMA AtrIs ==
    ASSUME NEW w \in Seq(Candles), ATR_PERIOD <= Len(w)
    PROVE  /\ V4!Detector!CalculateAtr(w)[1] \in Int
           /\ V4!Detector!CalculateAtr(w)[2] \in Nat
<1> DEFINE p == ATR_PERIOD
           n == Len(w) - p
           S == Int \X Nat
           first == <<FirstAtr(w)[1], FirstAtr(w)[2]>>
           g == [k \in 1 .. n |-> [x \in S |-> Smoothed(w, k + p, x)]]
           f == CHOOSE h : IsAtr(h, w)
<1>1. p \in Nat /\ n \in Nat /\ Len(w) \in Nat /\ Len(w) = n + p
  BY PinBarParams
<1>2. V4!Detector!CalculateAtr(w) = f[Len(w)]
  BY Zenon DEF V4!Detector!CalculateAtr, IsAtr, FirstAtr, Smoothed
<1>3. FirstAtr(w) = first /\ first \in S
  BY FirstAtrIs DEF FirstAtr
<1>4. ASSUME NEW k \in p + 1 .. Len(w), NEW x \in S
      PROVE  Smoothed(w, k, x) \in S
  <2>1. k \in 1 .. Len(w)
    BY <1>1
  <2>2. V4!Detector!TrueRange(w, k) \in Int
    BY <2>1, RangesAre
  <2>3. x[1] \in Int /\ x[2] \in Nat
    OBVIOUS
  <2>4. x[2] * p \in Nat /\ x[1] * (p - 1) \in Int /\ V4!Detector!TrueRange(w, k) * x[2] \in Int
    <3>1. p - 1 \in Int
      BY <1>1
    <3> HIDE DEF p
    <3>2. QED
      BY <1>1, <2>2, <2>3, <3>1
  <2>5. QED
    BY <2>4 DEF Smoothed
<1>5. ASSUME NEW k \in 1 .. n, NEW x \in S
      PROVE  g[k][x] = Smoothed(w, k + p, x) /\ g[k][x] \in S
  <2>1. k + p \in p + 1 .. Len(w)
    BY <1>1
  <2>2. Smoothed(w, k + p, x) \in S
    BY <1>4, <2>1
  <2>3. QED
    BY <2>2
<1> HIDE DEF first, f, g, S
<1>6. PICK h : IsLoop(h, n, first, g) /\ AllIn(h, n, S)
  <2> HIDE DEF n
  <2>1. \A k \in 1 .. n : \A x \in S : g[k][x] \in S
    BY <1>5
  <2>2. QED
    BY <1>1, <1>3, <2>1, LoopExists, Zenon
<1> DEFINE shifted == [k \in p .. Len(w) |-> h[k - p]]
<1>7. IsAtr(shifted, w)
  <2>1. ASSUME NEW k \in p .. Len(w)
        PROVE  shifted[k] = IF k = p THEN FirstAtr(w) ELSE Smoothed(w, k, shifted[k - 1])
    <3>1. h = [j \in 0 .. n |-> IF j = 0 THEN first ELSE g[j][h[j - 1]]]
      BY <1>6, Zenon DEF IsLoop
    <3>2. k - p \in 0 .. n /\ shifted[k] = h[k - p]
      BY <1>1
    <3>3. CASE k = p
      <4>1. k - p = 0
        BY <1>1, <3>3
      <4>2. QED
        BY <1>3, <3>1, <3>2, <3>3, <4>1
    <3>4. CASE k # p
      <4>1. k - p \in 1 .. n /\ k - 1 \in p .. Len(w) /\ (k - 1) - p = (k - p) - 1
            /\ (k - p) - 1 \in 0 .. n /\ (k - p) + p = k /\ k - p # 0
        BY <1>1, <3>4
      <4>2. shifted[k - 1] = h[(k - p) - 1]
        BY <4>1
      <4>3. h[(k - p) - 1] \in S
        BY <1>6, <4>1, Zenon DEF AllIn
      <4>4. h[k - p] = g[k - p][h[(k - p) - 1]]
        BY <3>1, <3>2, <4>1, Zenon
      <4>5. g[k - p][h[(k - p) - 1]] = Smoothed(w, k, h[(k - p) - 1])
        BY <1>5, <4>1, <4>3
      <4>6. QED
        BY <3>2, <3>4, <4>2, <4>4, <4>5
    <3>5. QED
      BY <3>3, <3>4
  <2>2. shifted = [k \in p .. Len(w) |->
                      IF k = p THEN FirstAtr(w) ELSE Smoothed(w, k, shifted[k - 1])]
    BY <2>1, Zenon
  <2>3. QED
    BY <2>2, Zenon DEF IsAtr
<1>8. IsAtr(f, w)
  BY <1>7, Zenon DEF f
<1> DEFINE P == {k \in 0 .. n : f[k + p] \in S}
<1>9. \A k \in p .. Len(w) : f[k] = IF k = p THEN FirstAtr(w) ELSE Smoothed(w, k, f[k - 1])
  BY <1>8, Zenon DEF IsAtr
<1>10. 0 \in P
  <2>1. p \in p .. Len(w) /\ 0 + p = p /\ 0 \in 0 .. n
    BY <1>1
  <2>2. f[p] \in S
    BY <1>3, <1>9, <2>1
  <2>3. QED
    BY <2>1, <2>2
<1>11. ASSUME NEW k \in 1 .. n, k - 1 \in P
       PROVE  k \in P
  <2>1. /\ k + p \in p .. Len(w) /\ k + p \in p + 1 .. Len(w) /\ k + p # p
        /\ (k + p) - 1 = (k - 1) + p /\ k \in 0 .. n
    BY <1>1
  <2>2. f[(k - 1) + p] \in S
    BY <1>11
  <2>3. f[k + p] = Smoothed(w, k + p, f[(k - 1) + p])
    BY <1>9, <2>1
  <2>4. f[k + p] \in S
    BY <1>4, <2>1, <2>2, <2>3
  <2>5. QED
    BY <2>1, <2>4
<1>12. n \in P
  <2> HIDE DEF P, n
  <2>1. \A k \in 0 .. n : k \in P
    BY <1>1, <1>10, <1>11, StepByStep, Zenon
  <2>2. QED
    BY <1>1, <2>1
<1>13. f[Len(w)] \in S
  BY <1>1, <1>12
<1>14. QED
  BY <1>2, <1>13 DEF S

LEMMA ClustersChain ==
    ASSUME NEW w \in Seq(Candles)
    PROVE  V4!Detector!ClustersAreChains(V4!Clusters(w), w)
<1> DEFINE atr == V4!Detector!CalculateAtr(w)
           S == V4!Detector!FindPivots(w)
           found == V4!Clusters(w)
<1>1. \/ found = {}
      \/ /\ found = V4!Detector!ClusterPivots(S, atr)
         /\ ~(Len(w) < ATR_PERIOD + LEFT_BARS + RIGHT_BARS + SETTLE)
  BY Zenon DEF V4!Clusters, V4!Detector!Clusters
<1>2. V4!Detector!ClustersAreChains(found, w)
        <=> /\ \A cluster \in found : \A p \in cluster :
                  {q \in cluster : q.price < p.price} # {} =>
                      \E q \in {r \in cluster : r.price < p.price} :
                          V4!Detector!Neighbours(p, q, atr)
            /\ \A one, other \in found : one # other =>
                  \A p \in one, q \in other : ~V4!Detector!Neighbours(p, q, atr)
  BY Zenon DEF V4!Detector!ClustersAreChains
<1>3. Enumerable(S)
  BY PivotsAreEnumerable
<1> HIDE DEF atr, S, found
<1>4. ASSUME found = {}
      PROVE  V4!Detector!ClustersAreChains(found, w)
  <2>1. \A x : x \notin found
    BY <1>4
  <2>2. QED
    BY <1>2, <2>1, Zenon
<1>5. ASSUME found # {}
      PROVE  V4!Detector!ClustersAreChains(found, w)
  <2>1. atr[1] \in Int /\ atr[2] \in Nat
    <3>1. ATR_PERIOD <= Len(w)
      BY <1>1, <1>5, PinBarParams
    <3>2. QED
      BY <3>1, AtrIs DEF atr
  <2>2. \A cluster \in found : \E k \in 1 .. Cardinality(S) : cluster = ClusterAt(S, atr, k)
    BY <1>1, <1>3, <1>5, ClustersOf
  <2>3. ASSUME NEW cluster \in found, NEW p \in cluster, NEW q \in cluster, q.price < p.price
        PROVE  \E r \in cluster : r.price < p.price /\ V4!Detector!Neighbours(p, r, atr)
    <3>1. PICK k \in 1 .. Cardinality(S) : cluster = ClusterAt(S, atr, k)
      BY <2>2
    <3>2. QED
      BY <1>3, <2>3, <3>1, ClustersAreJoined
  <2>4. ASSUME NEW one \in found, NEW other \in found, one # other,
               NEW p \in one, NEW q \in other
        PROVE  ~V4!Detector!Neighbours(p, q, atr)
    <3>1. PICK k \in 1 .. Cardinality(S) : one = ClusterAt(S, atr, k)
      BY <2>2
    <3>2. PICK m \in 1 .. Cardinality(S) : other = ClusterAt(S, atr, m)
      BY <2>2
    <3>3. QED
      BY <1>3, <2>1, <2>4, <3>1, <3>2, ClustersAreApart
  <2>5. QED
    BY <1>2, <2>3, <2>4
<1>6. QED
  BY <1>4, <1>5 DEF found

-----------------------------------------------------------------------------
(* The charts: every one is a copy of a backtest, with a detector, signals  *)
(* and a simulation of its own. The copies do what the originals do.        *)
(* The detector of the chart of version 3 and the one of its backtest: the  *)
(* same zones, clusters and levels. The reactions after touches have names,  *)
(* so that both sides of an equality are applications of an operator.       *)
ReactionsC3(w, touches, n) ==
    C3!Detector!SumOver(1, Len(w),
        LAMBDA i : i \in {k \in touches : k + REACTION <= Len(w)},
        LAMBDA i : C3!Detector!Reaction(w, i, n))

ReactionsV23(w, touches, n) ==
    V23!Detector!SumOver(1, Len(w),
        LAMBDA i : i \in {k \in touches : k + REACTION <= Len(w)},
        LAMBDA i : V23!Detector!Reaction(w, i, n))

LEMMA ZonesV3 ==
    ASSUME NEW w, NEW cluster
    PROVE  C3!Detector!AnalyzeZone(cluster, w) = V23!Detector!AnalyzeZone(cluster, w)
<1>1. C3!Detector!ZoneOf(cluster) = V23!Detector!ZoneOf(cluster)
  BY Zenon
     DEF C3!Detector!ZoneOf, V23!Detector!ZoneOf, C3!Detector!Highest,
         V23!Detector!Highest, C3!Detector!Lowest, V23!Detector!Lowest
<1>2. \A zone : /\ C3!Detector!Touches(w, zone) = V23!Detector!Touches(w, zone)
               /\ C3!Detector!InZone(w, zone) = V23!Detector!InZone(w, zone)
  BY Zenon
     DEF C3!Detector!Touches, V23!Detector!Touches, C3!Detector!InZone,
         V23!Detector!InZone, C3!Detector!Positions, V23!Detector!Positions
<1>3. \A zone, bars :
         C3!Detector!FalseBreakouts(w, zone, bars)
            = V23!Detector!FalseBreakouts(w, zone, bars)
  BY Zenon DEF C3!Detector!FalseBreakouts, V23!Detector!FalseBreakouts
<1>4. \A n : C3!Detector!RoundNumberBoost(n) = V23!Detector!RoundNumberBoost(n)
  <2>1. \A S : C3!Detector!Highest(S) = V23!Detector!Highest(S)
    BY Zenon DEF C3!Detector!Highest, V23!Detector!Highest
  <2>2. \A p : C3!Detector!RoundStep(p) = V23!Detector!RoundStep(p)
    BY <2>1 DEF C3!Detector!RoundStep, V23!Detector!RoundStep
  <2>3. \A m, p : C3!Detector!ToRound(m, p) = V23!Detector!ToRound(m, p)
    BY Zenon
       DEF C3!Detector!ToRound, V23!Detector!ToRound, C3!Detector!AtMost,
         V23!Detector!AtMost
  <2>4. QED
    BY <2>2, <2>3 DEF C3!Detector!RoundNumberBoost, V23!Detector!RoundNumberBoost
<1>5. \A first, n :
         C3!Detector!ImpulseBefore(w, first, n)
            = V23!Detector!ImpulseBefore(w, first, n)
  BY Zenon
     DEF C3!Detector!ImpulseBefore, V23!Detector!ImpulseBefore,
         C3!Detector!Distance, V23!Detector!Distance
<1>6. \A touches, n : ReactionsC3(w, touches, n) = ReactionsV23(w, touches, n)
  BY Zenon
     DEF ReactionsC3, ReactionsV23,
         C3!Detector!SumOver, V23!Detector!SumOver, C3!Detector!Reaction,
         V23!Detector!Reaction, C3!Detector!Highest, V23!Detector!Highest,
         C3!Detector!Lowest, V23!Detector!Lowest
<1>7. \A S : C3!Detector!Cardinality(S) = V23!Detector!Cardinality(S)
  BY Zenon DEF C3!Detector!Cardinality, V23!Detector!Cardinality
<1>8. \A S : C3!Detector!Lowest(S) = V23!Detector!Lowest(S)
  BY Zenon DEF C3!Detector!Lowest, V23!Detector!Lowest
<1>9. C3!Detector!AnalyzeZone(cluster, w) =
        LET zone == C3!Detector!ZoneOf(cluster)
            touches == C3!Detector!Touches(w, zone)
            center2 == zone.lower + zone.upper
        IN  [lower |-> zone.lower, upper |-> zone.upper,
             touches |-> C3!Detector!Cardinality(touches),
             false_breakouts |->
                C3!Detector!Cardinality(C3!Detector!FalseBreakouts(w, zone, touches)),
             is_mirror |-> C3!Detector!Cardinality({p.type : p \in cluster}) > 1,
             reaction |-> ReactionsC3(w, touches, center2),
             boost |-> C3!Detector!RoundNumberBoost(center2),
             impulse |-> C3!Detector!ImpulseBefore(w,
                C3!Detector!Lowest({p.index : p \in cluster}), center2)]
  BY Zenon DEF C3!Detector!AnalyzeZone, ReactionsC3
<1>10. V23!Detector!AnalyzeZone(cluster, w) =
        LET zone == V23!Detector!ZoneOf(cluster)
            touches == V23!Detector!Touches(w, zone)
            center2 == zone.lower + zone.upper
        IN  [lower |-> zone.lower, upper |-> zone.upper,
             touches |-> V23!Detector!Cardinality(touches),
             false_breakouts |->
                V23!Detector!Cardinality(V23!Detector!FalseBreakouts(w, zone, touches)),
             is_mirror |-> V23!Detector!Cardinality({p.type : p \in cluster}) > 1,
             reaction |-> ReactionsV23(w, touches, center2),
             boost |-> V23!Detector!RoundNumberBoost(center2),
             impulse |-> V23!Detector!ImpulseBefore(w,
                V23!Detector!Lowest({p.index : p \in cluster}), center2)]
  BY Zenon DEF V23!Detector!AnalyzeZone, ReactionsV23
<1>11. QED
  BY <1>1, <1>2, <1>3, <1>4, <1>5, <1>6, <1>7, <1>8, <1>9, <1>10

LEMMA ClustersV3 ==
    ASSUME NEW w
    PROVE  C3!Clusters(w) = V23!ClustersV3(w)
<1>1. C3!Detector!CalculateAtr(w) = V23!Detector!CalculateAtr(w)
  BY Zenon
     DEF C3!Detector!CalculateAtr, V23!Detector!CalculateAtr,
         C3!Detector!SumOver, V23!Detector!SumOver, C3!Detector!TrueRange,
         V23!Detector!TrueRange, C3!Detector!Highest, V23!Detector!Highest,
         C3!Detector!Distance, V23!Detector!Distance
<1>2. C3!Detector!FindPivots(w) = V23!Detector!FindPivots(w)
  BY Zenon DEF C3!Detector!FindPivots, V23!Detector!FindPivots
<1>3. \A pivots, atr :
         C3!Detector!ClusterPivots(pivots, atr)
            = V23!Detector!ClusterPivots(pivots, atr)
  BY Zenon
     DEF C3!Detector!ClusterPivots, V23!Detector!ClusterPivots,
         C3!Detector!Sorted, V23!Detector!Sorted, C3!Detector!ByPrice,
         V23!Detector!ByPrice, C3!Detector!ByTime, V23!Detector!ByTime,
         C3!Detector!Neighbours, V23!Detector!Neighbours,
         C3!Detector!Distance, V23!Detector!Distance, C3!Detector!Cardinality,
         V23!Detector!Cardinality
<1>4. QED
  BY <1>1, <1>2, <1>3, Zenon
     DEF C3!Clusters, V23!ClustersV3, C3!Detector!Clusters, V23!Detector!Clusters

LEMMA LevelsV3 ==
    ASSUME NEW w
    PROVE  C3!DetectLevels(w) = V23!DetectLevelsV3(w)
<1>1. \A m : C3!Detector!CalculateScore(m) = V23!Detector!CalculateScore(m)
  BY Zenon
     DEF C3!Detector!CalculateScore, V23!Detector!CalculateScore,
         C3!Detector!AtMost, V23!Detector!AtMost
<1>2. \A found : {C3!Detector!AnalyzeZone(cluster, w) : cluster \in found}
                  = {V23!Detector!AnalyzeZone(cluster, w) : cluster \in found}
  BY ZonesV3
<1>3. \A zones :
         {m \in zones :
             /\ m.touches >= C3!Detector!MIN_TOUCHES
             /\ m.false_breakouts >= C3!Detector!MIN_FALSE_BREAKOUTS
             /\ C3!Detector!CalculateScore(m) >= C3!Detector!SCORE_THRESHOLD}
         = {m \in zones :
             /\ m.touches >= V23!Detector!MIN_TOUCHES
             /\ m.false_breakouts >= V23!Detector!MIN_FALSE_BREAKOUTS
             /\ V23!Detector!CalculateScore(m) >= V23!Detector!SCORE_THRESHOLD}
  BY <1>1
     DEF C3!Detector!MIN_TOUCHES, V23!Detector!MIN_TOUCHES,
         C3!Detector!MIN_FALSE_BREAKOUTS, V23!Detector!MIN_FALSE_BREAKOUTS,
         C3!Detector!SCORE_THRESHOLD, V23!Detector!SCORE_THRESHOLD
<1>4. \A strong : {C3!Detector!Scored(m) : m \in strong}
                   = {V23!Detector!Scored(m) : m \in strong}
  BY <1>1 DEF C3!Detector!Scored, V23!Detector!Scored
<1>5. \A S : C3!Detector!Sorted(S, C3!Detector!Better)
         = V23!Detector!Sorted(S, V23!Detector!Better)
  BY Zenon
     DEF C3!Detector!Sorted, V23!Detector!Sorted, C3!Detector!Better,
         V23!Detector!Better, C3!Detector!Cardinality,
         V23!Detector!Cardinality
<1>6. \A found : C3!Detector!StrongLevels(found, w)
         = V23!Detector!StrongLevels(found, w)
  BY <1>2, <1>3, <1>4, <1>5, Zenon
     DEF C3!Detector!StrongLevels, V23!Detector!StrongLevels
<1>7. QED
  BY <1>6, ClustersV3, Zenon DEF C3!DetectLevels, V23!DetectLevelsV3

(* The same of version 4. *)
ReactionsC4(w, touches, n) ==
    C4!Detector!SumOver(1, Len(w),
        LAMBDA i : i \in {k \in touches : k + REACTION <= Len(w)},
        LAMBDA i : C4!Detector!Reaction(w, i, n))

ReactionsV4(w, touches, n) ==
    V4!Detector!SumOver(1, Len(w),
        LAMBDA i : i \in {k \in touches : k + REACTION <= Len(w)},
        LAMBDA i : V4!Detector!Reaction(w, i, n))

LEMMA ZonesV4 ==
    ASSUME NEW w, NEW cluster
    PROVE  C4!Detector!AnalyzeZone(cluster, w) = V4!Detector!AnalyzeZone(cluster, w)
<1>1. C4!Detector!ZoneOf(cluster) = V4!Detector!ZoneOf(cluster)
  BY Zenon
     DEF C4!Detector!ZoneOf, V4!Detector!ZoneOf, C4!Detector!Highest,
         V4!Detector!Highest, C4!Detector!Lowest, V4!Detector!Lowest
<1>2. \A zone : /\ C4!Detector!Touches(w, zone) = V4!Detector!Touches(w, zone)
               /\ C4!Detector!InZone(w, zone) = V4!Detector!InZone(w, zone)
  BY Zenon
     DEF C4!Detector!Touches, V4!Detector!Touches, C4!Detector!InZone,
         V4!Detector!InZone, C4!Detector!Positions, V4!Detector!Positions
<1>3. \A zone, bars :
         C4!Detector!FalseBreakouts(w, zone, bars)
            = V4!Detector!FalseBreakouts(w, zone, bars)
  BY Zenon DEF C4!Detector!FalseBreakouts, V4!Detector!FalseBreakouts
<1>4. \A n : C4!Detector!RoundNumberBoost(n) = V4!Detector!RoundNumberBoost(n)
  <2>1. \A S : C4!Detector!Highest(S) = V4!Detector!Highest(S)
    BY Zenon DEF C4!Detector!Highest, V4!Detector!Highest
  <2>2. \A p : C4!Detector!RoundStep(p) = V4!Detector!RoundStep(p)
    BY <2>1 DEF C4!Detector!RoundStep, V4!Detector!RoundStep
  <2>3. \A m, p : C4!Detector!ToRound(m, p) = V4!Detector!ToRound(m, p)
    BY Zenon
       DEF C4!Detector!ToRound, V4!Detector!ToRound, C4!Detector!AtMost,
         V4!Detector!AtMost
  <2>4. QED
    BY <2>2, <2>3 DEF C4!Detector!RoundNumberBoost, V4!Detector!RoundNumberBoost
<1>5. \A first, n :
         C4!Detector!ImpulseBefore(w, first, n) = V4!Detector!ImpulseBefore(w, first, n)
  BY Zenon
     DEF C4!Detector!ImpulseBefore, V4!Detector!ImpulseBefore,
         C4!Detector!Distance, V4!Detector!Distance
<1>6. \A touches, n : ReactionsC4(w, touches, n) = ReactionsV4(w, touches, n)
  BY Zenon
     DEF ReactionsC4, ReactionsV4,
         C4!Detector!SumOver, V4!Detector!SumOver, C4!Detector!Reaction,
         V4!Detector!Reaction, C4!Detector!Highest, V4!Detector!Highest,
         C4!Detector!Lowest, V4!Detector!Lowest
<1>7. \A S : C4!Detector!Cardinality(S) = V4!Detector!Cardinality(S)
  BY Zenon DEF C4!Detector!Cardinality, V4!Detector!Cardinality
<1>8. \A S : C4!Detector!Lowest(S) = V4!Detector!Lowest(S)
  BY Zenon DEF C4!Detector!Lowest, V4!Detector!Lowest
<1>9. C4!Detector!AnalyzeZone(cluster, w) =
        LET zone == C4!Detector!ZoneOf(cluster)
            touches == C4!Detector!Touches(w, zone)
            center2 == zone.lower + zone.upper
        IN  [lower |-> zone.lower, upper |-> zone.upper,
             touches |-> C4!Detector!Cardinality(touches),
             false_breakouts |->
                C4!Detector!Cardinality(C4!Detector!FalseBreakouts(w, zone, touches)),
             is_mirror |-> C4!Detector!Cardinality({p.type : p \in cluster}) > 1,
             reaction |-> ReactionsC4(w, touches, center2),
             boost |-> C4!Detector!RoundNumberBoost(center2),
             impulse |-> C4!Detector!ImpulseBefore(w,
                C4!Detector!Lowest({p.index : p \in cluster}), center2)]
  BY Zenon DEF C4!Detector!AnalyzeZone, ReactionsC4
<1>10. V4!Detector!AnalyzeZone(cluster, w) =
        LET zone == V4!Detector!ZoneOf(cluster)
            touches == V4!Detector!Touches(w, zone)
            center2 == zone.lower + zone.upper
        IN  [lower |-> zone.lower, upper |-> zone.upper,
             touches |-> V4!Detector!Cardinality(touches),
             false_breakouts |->
                V4!Detector!Cardinality(V4!Detector!FalseBreakouts(w, zone, touches)),
             is_mirror |-> V4!Detector!Cardinality({p.type : p \in cluster}) > 1,
             reaction |-> ReactionsV4(w, touches, center2),
             boost |-> V4!Detector!RoundNumberBoost(center2),
             impulse |-> V4!Detector!ImpulseBefore(w,
                V4!Detector!Lowest({p.index : p \in cluster}), center2)]
  BY Zenon DEF V4!Detector!AnalyzeZone, ReactionsV4
<1>11. QED
  BY <1>1, <1>2, <1>3, <1>4, <1>5, <1>6, <1>7, <1>8, <1>9, <1>10

LEMMA ClustersV4 ==
    ASSUME NEW w
    PROVE  C4!Clusters(w) = V4!Clusters(w)
<1>1. C4!Detector!CalculateAtr(w) = V4!Detector!CalculateAtr(w)
  BY Zenon
     DEF C4!Detector!CalculateAtr, V4!Detector!CalculateAtr,
         C4!Detector!SumOver, V4!Detector!SumOver, C4!Detector!TrueRange,
         V4!Detector!TrueRange, C4!Detector!Highest, V4!Detector!Highest,
         C4!Detector!Distance, V4!Detector!Distance
<1>2. C4!Detector!FindPivots(w) = V4!Detector!FindPivots(w)
  BY Zenon DEF C4!Detector!FindPivots, V4!Detector!FindPivots
<1>3. \A pivots, atr :
         C4!Detector!ClusterPivots(pivots, atr) = V4!Detector!ClusterPivots(pivots, atr)
  BY Zenon
     DEF C4!Detector!ClusterPivots, V4!Detector!ClusterPivots,
         C4!Detector!Sorted, V4!Detector!Sorted, C4!Detector!ByPrice,
         V4!Detector!ByPrice, C4!Detector!ByTime, V4!Detector!ByTime,
         C4!Detector!Neighbours, V4!Detector!Neighbours, C4!Detector!Distance,
         V4!Detector!Distance, C4!Detector!Cardinality,
         V4!Detector!Cardinality
<1>4. QED
  BY <1>1, <1>2, <1>3, Zenon
     DEF C4!Clusters, V4!Clusters, C4!Detector!Clusters, V4!Detector!Clusters

LEMMA LevelsV4 ==
    ASSUME NEW w
    PROVE  C4!DetectLevels(w) = V4!DetectLevels(w)
<1>1. \A m : C4!Detector!CalculateScore(m) = V4!Detector!CalculateScore(m)
  BY Zenon
     DEF C4!Detector!CalculateScore, V4!Detector!CalculateScore,
         C4!Detector!AtMost, V4!Detector!AtMost
<1>2. \A found : {C4!Detector!AnalyzeZone(cluster, w) : cluster \in found}
                  = {V4!Detector!AnalyzeZone(cluster, w) : cluster \in found}
  BY ZonesV4
<1>3. \A zones :
         {m \in zones :
             /\ m.touches >= C4!Detector!MIN_TOUCHES
             /\ m.false_breakouts >= C4!Detector!MIN_FALSE_BREAKOUTS
             /\ C4!Detector!CalculateScore(m) >= C4!Detector!SCORE_THRESHOLD}
         = {m \in zones :
             /\ m.touches >= V4!Detector!MIN_TOUCHES
             /\ m.false_breakouts >= V4!Detector!MIN_FALSE_BREAKOUTS
             /\ V4!Detector!CalculateScore(m) >= V4!Detector!SCORE_THRESHOLD}
  BY <1>1
     DEF C4!Detector!MIN_TOUCHES, V4!Detector!MIN_TOUCHES,
         C4!Detector!MIN_FALSE_BREAKOUTS, V4!Detector!MIN_FALSE_BREAKOUTS,
         C4!Detector!SCORE_THRESHOLD, V4!Detector!SCORE_THRESHOLD
<1>4. \A strong : {C4!Detector!Scored(m) : m \in strong}
                   = {V4!Detector!Scored(m) : m \in strong}
  BY <1>1 DEF C4!Detector!Scored, V4!Detector!Scored
<1>5. \A S : C4!Detector!Sorted(S, C4!Detector!Better)
         = V4!Detector!Sorted(S, V4!Detector!Better)
  BY Zenon
     DEF C4!Detector!Sorted, V4!Detector!Sorted, C4!Detector!Better,
         V4!Detector!Better, C4!Detector!Cardinality, V4!Detector!Cardinality
<1>6. \A found : C4!Detector!StrongLevels(found, w) = V4!Detector!StrongLevels(found, w)
  BY <1>2, <1>3, <1>4, <1>5, Zenon
     DEF C4!Detector!StrongLevels, V4!Detector!StrongLevels
<1>7. QED
  BY <1>6, ClustersV4, Zenon DEF C4!DetectLevels, V4!DetectLevels

(* The same of version 5. *)
ReactionsC5(w, touches, n) ==
    C5!Detector!SumOver(1, Len(w),
        LAMBDA i : i \in {k \in touches : k + REACTION <= Len(w)},
        LAMBDA i : C5!Detector!Reaction(w, i, n))

ReactionsV5(w, touches, n) ==
    V5!Detector!SumOver(1, Len(w),
        LAMBDA i : i \in {k \in touches : k + REACTION <= Len(w)},
        LAMBDA i : V5!Detector!Reaction(w, i, n))

LEMMA ZonesV5 ==
    ASSUME NEW w, NEW cluster
    PROVE  C5!Detector!AnalyzeZone(cluster, w) = V5!Detector!AnalyzeZone(cluster, w)
<1>1. C5!Detector!ZoneOf(cluster) = V5!Detector!ZoneOf(cluster)
  BY Zenon
     DEF C5!Detector!ZoneOf, V5!Detector!ZoneOf, C5!Detector!Highest,
         V5!Detector!Highest, C5!Detector!Lowest, V5!Detector!Lowest
<1>2. \A zone : /\ C5!Detector!Touches(w, zone) = V5!Detector!Touches(w, zone)
               /\ C5!Detector!InZone(w, zone) = V5!Detector!InZone(w, zone)
  BY Zenon
     DEF C5!Detector!Touches, V5!Detector!Touches, C5!Detector!InZone,
         V5!Detector!InZone, C5!Detector!Positions, V5!Detector!Positions
<1>3. \A zone, bars :
         C5!Detector!FalseBreakouts(w, zone, bars)
            = V5!Detector!FalseBreakouts(w, zone, bars)
  BY Zenon DEF C5!Detector!FalseBreakouts, V5!Detector!FalseBreakouts
<1>4. \A n : C5!Detector!RoundNumberBoost(n) = V5!Detector!RoundNumberBoost(n)
  <2>1. \A S : C5!Detector!Highest(S) = V5!Detector!Highest(S)
    BY Zenon DEF C5!Detector!Highest, V5!Detector!Highest
  <2>2. \A p : C5!Detector!RoundStep(p) = V5!Detector!RoundStep(p)
    BY <2>1 DEF C5!Detector!RoundStep, V5!Detector!RoundStep
  <2>3. \A m, p : C5!Detector!ToRound(m, p) = V5!Detector!ToRound(m, p)
    BY Zenon
       DEF C5!Detector!ToRound, V5!Detector!ToRound, C5!Detector!AtMost,
         V5!Detector!AtMost
  <2>4. QED
    BY <2>2, <2>3 DEF C5!Detector!RoundNumberBoost, V5!Detector!RoundNumberBoost
<1>5. \A first, n :
         C5!Detector!ImpulseBefore(w, first, n) = V5!Detector!ImpulseBefore(w, first, n)
  BY Zenon
     DEF C5!Detector!ImpulseBefore, V5!Detector!ImpulseBefore,
         C5!Detector!Distance, V5!Detector!Distance
<1>6. \A touches, n : ReactionsC5(w, touches, n) = ReactionsV5(w, touches, n)
  BY Zenon
     DEF ReactionsC5, ReactionsV5,
         C5!Detector!SumOver, V5!Detector!SumOver, C5!Detector!Reaction,
         V5!Detector!Reaction, C5!Detector!Highest, V5!Detector!Highest,
         C5!Detector!Lowest, V5!Detector!Lowest
<1>7. \A S : C5!Detector!Cardinality(S) = V5!Detector!Cardinality(S)
  BY Zenon DEF C5!Detector!Cardinality, V5!Detector!Cardinality
<1>8. \A S : C5!Detector!Lowest(S) = V5!Detector!Lowest(S)
  BY Zenon DEF C5!Detector!Lowest, V5!Detector!Lowest
<1>9. C5!Detector!AnalyzeZone(cluster, w) =
        LET zone == C5!Detector!ZoneOf(cluster)
            touches == C5!Detector!Touches(w, zone)
            center2 == zone.lower + zone.upper
        IN  [lower |-> zone.lower, upper |-> zone.upper,
             touches |-> C5!Detector!Cardinality(touches),
             false_breakouts |->
                C5!Detector!Cardinality(C5!Detector!FalseBreakouts(w, zone, touches)),
             is_mirror |-> C5!Detector!Cardinality({p.type : p \in cluster}) > 1,
             reaction |-> ReactionsC5(w, touches, center2),
             boost |-> C5!Detector!RoundNumberBoost(center2),
             impulse |-> C5!Detector!ImpulseBefore(w,
                C5!Detector!Lowest({p.index : p \in cluster}), center2)]
  BY Zenon DEF C5!Detector!AnalyzeZone, ReactionsC5
<1>10. V5!Detector!AnalyzeZone(cluster, w) =
        LET zone == V5!Detector!ZoneOf(cluster)
            touches == V5!Detector!Touches(w, zone)
            center2 == zone.lower + zone.upper
        IN  [lower |-> zone.lower, upper |-> zone.upper,
             touches |-> V5!Detector!Cardinality(touches),
             false_breakouts |->
                V5!Detector!Cardinality(V5!Detector!FalseBreakouts(w, zone, touches)),
             is_mirror |-> V5!Detector!Cardinality({p.type : p \in cluster}) > 1,
             reaction |-> ReactionsV5(w, touches, center2),
             boost |-> V5!Detector!RoundNumberBoost(center2),
             impulse |-> V5!Detector!ImpulseBefore(w,
                V5!Detector!Lowest({p.index : p \in cluster}), center2)]
  BY Zenon DEF V5!Detector!AnalyzeZone, ReactionsV5
<1>11. QED
  BY <1>1, <1>2, <1>3, <1>4, <1>5, <1>6, <1>7, <1>8, <1>9, <1>10

LEMMA ClustersV5 ==
    ASSUME NEW w
    PROVE  C5!Clusters(w) = V5!Clusters(w)
<1>1. C5!Detector!CalculateAtr(w) = V5!Detector!CalculateAtr(w)
  BY Zenon
     DEF C5!Detector!CalculateAtr, V5!Detector!CalculateAtr,
         C5!Detector!SumOver, V5!Detector!SumOver, C5!Detector!TrueRange,
         V5!Detector!TrueRange, C5!Detector!Highest, V5!Detector!Highest,
         C5!Detector!Distance, V5!Detector!Distance
<1>2. C5!Detector!FindPivots(w) = V5!Detector!FindPivots(w)
  BY Zenon DEF C5!Detector!FindPivots, V5!Detector!FindPivots
<1>3. \A pivots, atr :
         C5!Detector!ClusterPivots(pivots, atr) = V5!Detector!ClusterPivots(pivots, atr)
  BY Zenon
     DEF C5!Detector!ClusterPivots, V5!Detector!ClusterPivots,
         C5!Detector!Sorted, V5!Detector!Sorted, C5!Detector!ByPrice,
         V5!Detector!ByPrice, C5!Detector!ByTime, V5!Detector!ByTime,
         C5!Detector!Neighbours, V5!Detector!Neighbours, C5!Detector!Distance,
         V5!Detector!Distance, C5!Detector!Cardinality,
         V5!Detector!Cardinality
<1>4. QED
  BY <1>1, <1>2, <1>3, Zenon
     DEF C5!Clusters, V5!Clusters, C5!Detector!Clusters, V5!Detector!Clusters

LEMMA LevelsV5 ==
    ASSUME NEW w
    PROVE  C5!DetectLevels(w) = V5!DetectLevels(w)
<1>1. \A m : C5!Detector!CalculateScore(m) = V5!Detector!CalculateScore(m)
  BY Zenon
     DEF C5!Detector!CalculateScore, V5!Detector!CalculateScore,
         C5!Detector!AtMost, V5!Detector!AtMost
<1>2. \A found : {C5!Detector!AnalyzeZone(cluster, w) : cluster \in found}
                  = {V5!Detector!AnalyzeZone(cluster, w) : cluster \in found}
  BY ZonesV5
<1>3. \A zones :
         {m \in zones :
             /\ m.touches >= C5!Detector!MIN_TOUCHES
             /\ m.false_breakouts >= C5!Detector!MIN_FALSE_BREAKOUTS
             /\ C5!Detector!CalculateScore(m) >= C5!Detector!SCORE_THRESHOLD}
         = {m \in zones :
             /\ m.touches >= V5!Detector!MIN_TOUCHES
             /\ m.false_breakouts >= V5!Detector!MIN_FALSE_BREAKOUTS
             /\ V5!Detector!CalculateScore(m) >= V5!Detector!SCORE_THRESHOLD}
  BY <1>1
     DEF C5!Detector!MIN_TOUCHES, V5!Detector!MIN_TOUCHES,
         C5!Detector!MIN_FALSE_BREAKOUTS, V5!Detector!MIN_FALSE_BREAKOUTS,
         C5!Detector!SCORE_THRESHOLD, V5!Detector!SCORE_THRESHOLD
<1>4. \A strong : {C5!Detector!Scored(m) : m \in strong}
                   = {V5!Detector!Scored(m) : m \in strong}
  BY <1>1 DEF C5!Detector!Scored, V5!Detector!Scored
<1>5. \A S : C5!Detector!Sorted(S, C5!Detector!Better)
         = V5!Detector!Sorted(S, V5!Detector!Better)
  BY Zenon
     DEF C5!Detector!Sorted, V5!Detector!Sorted, C5!Detector!Better,
         V5!Detector!Better, C5!Detector!Cardinality, V5!Detector!Cardinality
<1>6. \A found : C5!Detector!StrongLevels(found, w) = V5!Detector!StrongLevels(found, w)
  BY <1>2, <1>3, <1>4, <1>5, Zenon
     DEF C5!Detector!StrongLevels, V5!Detector!StrongLevels
<1>7. QED
  BY <1>6, ClustersV5, Zenon DEF C5!DetectLevels, V5!DetectLevels

(* The chart of versions 6 and 7 takes the detector of either: version 6.   *)
ReactionsC6(w, touches, n) ==
    C67!V67!DetectorV6!SumOver(1, Len(w),
        LAMBDA i : i \in {k \in touches : k + REACTION <= Len(w)},
        LAMBDA i : C67!V67!DetectorV6!Reaction(w, i, n))

ReactionsV6(w, touches, n) ==
    V67!DetectorV6!SumOver(1, Len(w),
        LAMBDA i : i \in {k \in touches : k + REACTION <= Len(w)},
        LAMBDA i : V67!DetectorV6!Reaction(w, i, n))

LEMMA ZonesV6 ==
    ASSUME NEW w, NEW cluster
    PROVE  C67!V67!DetectorV6!AnalyzeZone(cluster, w)
              = V67!DetectorV6!AnalyzeZone(cluster, w)
<1>1. C67!V67!DetectorV6!ZoneOf(cluster) = V67!DetectorV6!ZoneOf(cluster)
  BY Zenon
     DEF C67!V67!DetectorV6!ZoneOf, V67!DetectorV6!ZoneOf,
         C67!V67!DetectorV6!Highest, V67!DetectorV6!Highest,
         C67!V67!DetectorV6!Lowest, V67!DetectorV6!Lowest
<1>2. \A zone : /\ C67!V67!DetectorV6!Touches(w, zone) = V67!DetectorV6!Touches(w, zone)
               /\ C67!V67!DetectorV6!InZone(w, zone) = V67!DetectorV6!InZone(w, zone)
  BY Zenon
     DEF C67!V67!DetectorV6!Touches, V67!DetectorV6!Touches,
         C67!V67!DetectorV6!InZone, V67!DetectorV6!InZone,
         C67!V67!DetectorV6!Positions, V67!DetectorV6!Positions
<1>3. \A zone, bars :
         C67!V67!DetectorV6!FalseBreakouts(w, zone, bars)
            = V67!DetectorV6!FalseBreakouts(w, zone, bars)
  BY Zenon DEF C67!V67!DetectorV6!FalseBreakouts, V67!DetectorV6!FalseBreakouts
<1>4. \A n : C67!V67!DetectorV6!RoundNumberBoost(n) = V67!DetectorV6!RoundNumberBoost(n)
  <2>1. \A S : C67!V67!DetectorV6!Highest(S) = V67!DetectorV6!Highest(S)
    BY Zenon DEF C67!V67!DetectorV6!Highest, V67!DetectorV6!Highest
  <2>2. \A p : C67!V67!DetectorV6!RoundStep(p) = V67!DetectorV6!RoundStep(p)
    BY <2>1 DEF C67!V67!DetectorV6!RoundStep, V67!DetectorV6!RoundStep
  <2>3. \A m, p : C67!V67!DetectorV6!ToRound(m, p) = V67!DetectorV6!ToRound(m, p)
    BY Zenon
       DEF C67!V67!DetectorV6!ToRound, V67!DetectorV6!ToRound,
         C67!V67!DetectorV6!AtMost, V67!DetectorV6!AtMost
  <2>4. QED
    BY <2>2, <2>3 DEF C67!V67!DetectorV6!RoundNumberBoost,
        V67!DetectorV6!RoundNumberBoost
<1>5. \A first, n :
         C67!V67!DetectorV6!ImpulseBefore(w, first, n)
            = V67!DetectorV6!ImpulseBefore(w, first, n)
  BY Zenon
     DEF C67!V67!DetectorV6!ImpulseBefore, V67!DetectorV6!ImpulseBefore,
         C67!V67!DetectorV6!Distance, V67!DetectorV6!Distance
<1>6. \A touches, n : ReactionsC6(w, touches, n) = ReactionsV6(w, touches, n)
  BY Zenon
     DEF ReactionsC6, ReactionsV6,
         C67!V67!DetectorV6!SumOver, V67!DetectorV6!SumOver,
         C67!V67!DetectorV6!Reaction, V67!DetectorV6!Reaction,
         C67!V67!DetectorV6!Highest, V67!DetectorV6!Highest,
         C67!V67!DetectorV6!Lowest, V67!DetectorV6!Lowest
<1>7. \A S : C67!V67!DetectorV6!Cardinality(S) = V67!DetectorV6!Cardinality(S)
  BY Zenon DEF C67!V67!DetectorV6!Cardinality, V67!DetectorV6!Cardinality
<1>8. \A S : C67!V67!DetectorV6!Lowest(S) = V67!DetectorV6!Lowest(S)
  BY Zenon DEF C67!V67!DetectorV6!Lowest, V67!DetectorV6!Lowest
<1>9. C67!V67!DetectorV6!AnalyzeZone(cluster, w) =
        LET zone == C67!V67!DetectorV6!ZoneOf(cluster)
            touches == C67!V67!DetectorV6!Touches(w, zone)
            center2 == zone.lower + zone.upper
        IN  [lower |-> zone.lower, upper |-> zone.upper,
             touches |-> C67!V67!DetectorV6!Cardinality(touches),
             false_breakouts |->
                C67!V67!DetectorV6!Cardinality(
                   C67!V67!DetectorV6!FalseBreakouts(w, zone, touches)),
             is_mirror |-> C67!V67!DetectorV6!Cardinality({p.type : p \in cluster}) > 1,
             reaction |-> ReactionsC6(w, touches, center2),
             boost |-> C67!V67!DetectorV6!RoundNumberBoost(center2),
             impulse |-> C67!V67!DetectorV6!ImpulseBefore(w,
                C67!V67!DetectorV6!Lowest({p.index : p \in cluster}), center2)]
  BY Zenon DEF C67!V67!DetectorV6!AnalyzeZone, ReactionsC6
<1>10. V67!DetectorV6!AnalyzeZone(cluster, w) =
        LET zone == V67!DetectorV6!ZoneOf(cluster)
            touches == V67!DetectorV6!Touches(w, zone)
            center2 == zone.lower + zone.upper
        IN  [lower |-> zone.lower, upper |-> zone.upper,
             touches |-> V67!DetectorV6!Cardinality(touches),
             false_breakouts |->
                V67!DetectorV6!Cardinality(
                   V67!DetectorV6!FalseBreakouts(w, zone, touches)),
             is_mirror |-> V67!DetectorV6!Cardinality({p.type : p \in cluster}) > 1,
             reaction |-> ReactionsV6(w, touches, center2),
             boost |-> V67!DetectorV6!RoundNumberBoost(center2),
             impulse |-> V67!DetectorV6!ImpulseBefore(w,
                V67!DetectorV6!Lowest({p.index : p \in cluster}), center2)]
  BY Zenon DEF V67!DetectorV6!AnalyzeZone, ReactionsV6
<1>11. QED
  BY <1>1, <1>2, <1>3, <1>4, <1>5, <1>6, <1>7, <1>8, <1>9, <1>10

LEMMA ClustersV6 ==
    ASSUME NEW w
    PROVE  C67!V67!ClustersV6(w) = V67!ClustersV6(w)
<1>1. C67!V67!DetectorV6!CalculateAtr(w) = V67!DetectorV6!CalculateAtr(w)
  BY Zenon
     DEF C67!V67!DetectorV6!CalculateAtr, V67!DetectorV6!CalculateAtr,
         C67!V67!DetectorV6!SumOver, V67!DetectorV6!SumOver,
         C67!V67!DetectorV6!TrueRange, V67!DetectorV6!TrueRange,
         C67!V67!DetectorV6!Highest, V67!DetectorV6!Highest,
         C67!V67!DetectorV6!Distance, V67!DetectorV6!Distance
<1>2. C67!V67!DetectorV6!FindPivots(w) = V67!DetectorV6!FindPivots(w)
  BY Zenon DEF C67!V67!DetectorV6!FindPivots, V67!DetectorV6!FindPivots
<1>3. \A pivots, atr :
         C67!V67!DetectorV6!ClusterPivots(pivots, atr)
            = V67!DetectorV6!ClusterPivots(pivots, atr)
  BY Zenon
     DEF C67!V67!DetectorV6!ClusterPivots, V67!DetectorV6!ClusterPivots,
         C67!V67!DetectorV6!Sorted, V67!DetectorV6!Sorted,
         C67!V67!DetectorV6!ByPrice, V67!DetectorV6!ByPrice,
         C67!V67!DetectorV6!ByTime, V67!DetectorV6!ByTime,
         C67!V67!DetectorV6!Neighbours, V67!DetectorV6!Neighbours,
         C67!V67!DetectorV6!Distance, V67!DetectorV6!Distance,
         C67!V67!DetectorV6!Cardinality, V67!DetectorV6!Cardinality
<1>4. QED
  BY <1>1, <1>2, <1>3, Zenon
     DEF C67!V67!ClustersV6, V67!ClustersV6, C67!V67!DetectorV6!Clusters,
         V67!DetectorV6!Clusters

LEMMA LevelsV6 ==
    ASSUME NEW w
    PROVE  C67!V67!DetectLevelsV6(w) = V67!DetectLevelsV6(w)
<1>1. \A m : C67!V67!DetectorV6!CalculateScore(m) = V67!DetectorV6!CalculateScore(m)
  BY Zenon
     DEF C67!V67!DetectorV6!CalculateScore, V67!DetectorV6!CalculateScore,
         C67!V67!DetectorV6!AtMost, V67!DetectorV6!AtMost
<1>2. \A found : {C67!V67!DetectorV6!AnalyzeZone(cluster, w) : cluster \in found}
                  = {V67!DetectorV6!AnalyzeZone(cluster, w) : cluster \in found}
  BY ZonesV6
<1>3. \A zones :
         {m \in zones :
             /\ m.touches >= C67!V67!DetectorV6!MIN_TOUCHES
             /\ m.false_breakouts >= C67!V67!DetectorV6!MIN_FALSE_BREAKOUTS
             /\ C67!V67!DetectorV6!CalculateScore(m) >= C67!V67!DetectorV6!SCORE_THRESHOLD}
         = {m \in zones :
             /\ m.touches >= V67!DetectorV6!MIN_TOUCHES
             /\ m.false_breakouts >= V67!DetectorV6!MIN_FALSE_BREAKOUTS
             /\ V67!DetectorV6!CalculateScore(m) >= V67!DetectorV6!SCORE_THRESHOLD}
  BY <1>1
     DEF C67!V67!DetectorV6!MIN_TOUCHES, V67!DetectorV6!MIN_TOUCHES,
         C67!V67!DetectorV6!MIN_FALSE_BREAKOUTS,
         V67!DetectorV6!MIN_FALSE_BREAKOUTS,
         C67!V67!DetectorV6!SCORE_THRESHOLD, V67!DetectorV6!SCORE_THRESHOLD
<1>4. \A strong : {C67!V67!DetectorV6!Scored(m) : m \in strong}
                   = {V67!DetectorV6!Scored(m) : m \in strong}
  BY <1>1 DEF C67!V67!DetectorV6!Scored, V67!DetectorV6!Scored
<1>5. \A S : C67!V67!DetectorV6!Sorted(S, C67!V67!DetectorV6!Better)
         = V67!DetectorV6!Sorted(S, V67!DetectorV6!Better)
  BY Zenon
     DEF C67!V67!DetectorV6!Sorted, V67!DetectorV6!Sorted,
         C67!V67!DetectorV6!Better, V67!DetectorV6!Better,
         C67!V67!DetectorV6!Cardinality, V67!DetectorV6!Cardinality
<1>6. \A found : C67!V67!DetectorV6!StrongLevels(found, w)
         = V67!DetectorV6!StrongLevels(found, w)
  BY <1>2, <1>3, <1>4, <1>5, Zenon
     DEF C67!V67!DetectorV6!StrongLevels, V67!DetectorV6!StrongLevels
<1>7. QED
  BY <1>6, ClustersV6, Zenon DEF C67!V67!DetectLevelsV6, V67!DetectLevelsV6

(* And version 7. *)
ReactionsC7(w, touches, n) ==
    C67!V67!DetectorV7!SumOver(1, Len(w),
        LAMBDA i : i \in {k \in touches : k + REACTION <= Len(w)},
        LAMBDA i : C67!V67!DetectorV7!Reaction(w, i, n))

ReactionsV7(w, touches, n) ==
    V67!DetectorV7!SumOver(1, Len(w),
        LAMBDA i : i \in {k \in touches : k + REACTION <= Len(w)},
        LAMBDA i : V67!DetectorV7!Reaction(w, i, n))

LEMMA ZonesV7 ==
    ASSUME NEW w, NEW cluster
    PROVE  C67!V67!DetectorV7!AnalyzeZone(cluster, w)
              = V67!DetectorV7!AnalyzeZone(cluster, w)
<1>1. C67!V67!DetectorV7!ZoneOf(cluster) = V67!DetectorV7!ZoneOf(cluster)
  BY Zenon
     DEF C67!V67!DetectorV7!ZoneOf, V67!DetectorV7!ZoneOf,
         C67!V67!DetectorV7!Highest, V67!DetectorV7!Highest,
         C67!V67!DetectorV7!Lowest, V67!DetectorV7!Lowest
<1>2. \A zone : /\ C67!V67!DetectorV7!Touches(w, zone) = V67!DetectorV7!Touches(w, zone)
               /\ C67!V67!DetectorV7!InZone(w, zone) = V67!DetectorV7!InZone(w, zone)
  BY Zenon
     DEF C67!V67!DetectorV7!Touches, V67!DetectorV7!Touches,
         C67!V67!DetectorV7!InZone, V67!DetectorV7!InZone,
         C67!V67!DetectorV7!Positions, V67!DetectorV7!Positions
<1>3. \A zone, bars :
         C67!V67!DetectorV7!FalseBreakouts(w, zone, bars)
            = V67!DetectorV7!FalseBreakouts(w, zone, bars)
  BY Zenon DEF C67!V67!DetectorV7!FalseBreakouts, V67!DetectorV7!FalseBreakouts
<1>4. \A n : C67!V67!DetectorV7!RoundNumberBoost(n) = V67!DetectorV7!RoundNumberBoost(n)
  <2>1. \A S : C67!V67!DetectorV7!Highest(S) = V67!DetectorV7!Highest(S)
    BY Zenon DEF C67!V67!DetectorV7!Highest, V67!DetectorV7!Highest
  <2>2. \A p : C67!V67!DetectorV7!RoundStep(p) = V67!DetectorV7!RoundStep(p)
    BY <2>1 DEF C67!V67!DetectorV7!RoundStep, V67!DetectorV7!RoundStep
  <2>3. \A m, p : C67!V67!DetectorV7!ToRound(m, p) = V67!DetectorV7!ToRound(m, p)
    BY Zenon
       DEF C67!V67!DetectorV7!ToRound, V67!DetectorV7!ToRound,
         C67!V67!DetectorV7!AtMost, V67!DetectorV7!AtMost
  <2>4. QED
    BY <2>2, <2>3 DEF C67!V67!DetectorV7!RoundNumberBoost,
        V67!DetectorV7!RoundNumberBoost
<1>5. \A first, n :
         C67!V67!DetectorV7!ImpulseBefore(w, first, n)
            = V67!DetectorV7!ImpulseBefore(w, first, n)
  BY Zenon
     DEF C67!V67!DetectorV7!ImpulseBefore, V67!DetectorV7!ImpulseBefore,
         C67!V67!DetectorV7!Distance, V67!DetectorV7!Distance
<1>6. \A touches, n : ReactionsC7(w, touches, n) = ReactionsV7(w, touches, n)
  BY Zenon
     DEF ReactionsC7, ReactionsV7,
         C67!V67!DetectorV7!SumOver, V67!DetectorV7!SumOver,
         C67!V67!DetectorV7!Reaction, V67!DetectorV7!Reaction,
         C67!V67!DetectorV7!Highest, V67!DetectorV7!Highest,
         C67!V67!DetectorV7!Lowest, V67!DetectorV7!Lowest
<1>7. \A S : C67!V67!DetectorV7!Cardinality(S) = V67!DetectorV7!Cardinality(S)
  BY Zenon DEF C67!V67!DetectorV7!Cardinality, V67!DetectorV7!Cardinality
<1>8. \A S : C67!V67!DetectorV7!Lowest(S) = V67!DetectorV7!Lowest(S)
  BY Zenon DEF C67!V67!DetectorV7!Lowest, V67!DetectorV7!Lowest
<1>9. C67!V67!DetectorV7!AnalyzeZone(cluster, w) =
        LET zone == C67!V67!DetectorV7!ZoneOf(cluster)
            touches == C67!V67!DetectorV7!Touches(w, zone)
            center2 == zone.lower + zone.upper
        IN  [lower |-> zone.lower, upper |-> zone.upper,
             touches |-> C67!V67!DetectorV7!Cardinality(touches),
             false_breakouts |->
                C67!V67!DetectorV7!Cardinality(
                   C67!V67!DetectorV7!FalseBreakouts(w, zone, C67!V67!DetectorV7!InZone(w, zone))),
             is_mirror |-> C67!V67!DetectorV7!Cardinality({p.type : p \in cluster}) > 1,
             reaction |-> ReactionsC7(w, touches, center2),
             boost |-> C67!V67!DetectorV7!RoundNumberBoost(center2),
             impulse |-> C67!V67!DetectorV7!ImpulseBefore(w,
                C67!V67!DetectorV7!Lowest({p.index : p \in cluster}), center2)]
  BY Zenon DEF C67!V67!DetectorV7!AnalyzeZone, ReactionsC7
<1>10. V67!DetectorV7!AnalyzeZone(cluster, w) =
        LET zone == V67!DetectorV7!ZoneOf(cluster)
            touches == V67!DetectorV7!Touches(w, zone)
            center2 == zone.lower + zone.upper
        IN  [lower |-> zone.lower, upper |-> zone.upper,
             touches |-> V67!DetectorV7!Cardinality(touches),
             false_breakouts |->
                V67!DetectorV7!Cardinality(
                   V67!DetectorV7!FalseBreakouts(w, zone, V67!DetectorV7!InZone(w, zone))),
             is_mirror |-> V67!DetectorV7!Cardinality({p.type : p \in cluster}) > 1,
             reaction |-> ReactionsV7(w, touches, center2),
             boost |-> V67!DetectorV7!RoundNumberBoost(center2),
             impulse |-> V67!DetectorV7!ImpulseBefore(w,
                V67!DetectorV7!Lowest({p.index : p \in cluster}), center2)]
  BY Zenon DEF V67!DetectorV7!AnalyzeZone, ReactionsV7
<1>11. QED
  BY <1>1, <1>2, <1>3, <1>4, <1>5, <1>6, <1>7, <1>8, <1>9, <1>10

LEMMA ClustersV7 ==
    ASSUME NEW w
    PROVE  C67!V67!ClustersV7(w) = V67!ClustersV7(w)
<1>1. C67!V67!DetectorV7!CalculateAtr(w) = V67!DetectorV7!CalculateAtr(w)
  BY Zenon
     DEF C67!V67!DetectorV7!CalculateAtr, V67!DetectorV7!CalculateAtr,
         C67!V67!DetectorV7!SumOver, V67!DetectorV7!SumOver,
         C67!V67!DetectorV7!TrueRange, V67!DetectorV7!TrueRange,
         C67!V67!DetectorV7!Highest, V67!DetectorV7!Highest,
         C67!V67!DetectorV7!Distance, V67!DetectorV7!Distance
<1>2. C67!V67!DetectorV7!FindPivots(w) = V67!DetectorV7!FindPivots(w)
  BY Zenon DEF C67!V67!DetectorV7!FindPivots, V67!DetectorV7!FindPivots
<1>3. \A pivots, atr :
         C67!V67!DetectorV7!ClusterPivots(pivots, atr)
            = V67!DetectorV7!ClusterPivots(pivots, atr)
  BY Zenon
     DEF C67!V67!DetectorV7!ClusterPivots, V67!DetectorV7!ClusterPivots,
         C67!V67!DetectorV7!Sorted, V67!DetectorV7!Sorted,
         C67!V67!DetectorV7!ByPrice, V67!DetectorV7!ByPrice,
         C67!V67!DetectorV7!ByTime, V67!DetectorV7!ByTime,
         C67!V67!DetectorV7!Neighbours, V67!DetectorV7!Neighbours,
         C67!V67!DetectorV7!Distance, V67!DetectorV7!Distance,
         C67!V67!DetectorV7!Cardinality, V67!DetectorV7!Cardinality
<1>4. QED
  BY <1>1, <1>2, <1>3, Zenon
     DEF C67!V67!ClustersV7, V67!ClustersV7, C67!V67!DetectorV7!Clusters,
         V67!DetectorV7!Clusters

LEMMA LevelsV7 ==
    ASSUME NEW w
    PROVE  C67!V67!DetectLevelsV7(w) = V67!DetectLevelsV7(w)
<1>1. \A m : C67!V67!DetectorV7!CalculateScore(m) = V67!DetectorV7!CalculateScore(m)
  BY Zenon
     DEF C67!V67!DetectorV7!CalculateScore, V67!DetectorV7!CalculateScore,
         C67!V67!DetectorV7!AtMost, V67!DetectorV7!AtMost
<1>2. \A found : {C67!V67!DetectorV7!AnalyzeZone(cluster, w) : cluster \in found}
                  = {V67!DetectorV7!AnalyzeZone(cluster, w) : cluster \in found}
  BY ZonesV7
<1>3. \A zones :
         {m \in zones :
             /\ m.touches >= C67!V67!DetectorV7!MIN_TOUCHES
             /\ m.false_breakouts >= C67!V67!DetectorV7!MIN_FALSE_BREAKOUTS
             /\ C67!V67!DetectorV7!CalculateScore(m) >= C67!V67!DetectorV7!SCORE_THRESHOLD}
         = {m \in zones :
             /\ m.touches >= V67!DetectorV7!MIN_TOUCHES
             /\ m.false_breakouts >= V67!DetectorV7!MIN_FALSE_BREAKOUTS
             /\ V67!DetectorV7!CalculateScore(m) >= V67!DetectorV7!SCORE_THRESHOLD}
  BY <1>1
     DEF C67!V67!DetectorV7!MIN_TOUCHES, V67!DetectorV7!MIN_TOUCHES,
         C67!V67!DetectorV7!MIN_FALSE_BREAKOUTS,
         V67!DetectorV7!MIN_FALSE_BREAKOUTS,
         C67!V67!DetectorV7!SCORE_THRESHOLD, V67!DetectorV7!SCORE_THRESHOLD
<1>4. \A strong : {C67!V67!DetectorV7!Scored(m) : m \in strong}
                   = {V67!DetectorV7!Scored(m) : m \in strong}
  BY <1>1 DEF C67!V67!DetectorV7!Scored, V67!DetectorV7!Scored
<1>5. \A S : C67!V67!DetectorV7!Sorted(S, C67!V67!DetectorV7!Better)
         = V67!DetectorV7!Sorted(S, V67!DetectorV7!Better)
  BY Zenon
     DEF C67!V67!DetectorV7!Sorted, V67!DetectorV7!Sorted,
         C67!V67!DetectorV7!Better, V67!DetectorV7!Better,
         C67!V67!DetectorV7!Cardinality, V67!DetectorV7!Cardinality
<1>6. \A found : C67!V67!DetectorV7!StrongLevels(found, w)
         = V67!DetectorV7!StrongLevels(found, w)
  BY <1>2, <1>3, <1>4, <1>5, Zenon
     DEF C67!V67!DetectorV7!StrongLevels, V67!DetectorV7!StrongLevels
<1>7. QED
  BY <1>6, ClustersV7, Zenon DEF C67!V67!DetectLevelsV7, V67!DetectLevelsV7

(* With the same levels, a chart enters where the backtest does. *)
LEMMA SignalsOfChartV3 ==
    ASSUME NEW s, NEW i
    PROVE  C3!SignalAt(s, i) = V23!SignalAtV3(s, i)
<1>1. C3!IsPinBar(s[i + 1]) <=> V23!IsPinBarV3(s[i + 1])
  BY Zenon
     DEF C3!IsPinBar, V23!IsPinBarV3, C3!PinBarOf, V23!PinBarOf, C3!Shape, V23!ShapeV3,
         C3!ShapeOf, V23!ShapeOf, C3!High, V23!High, C3!Low, V23!Low
<1>2. C3!LevelWindow(s, i) = V23!LevelWindow(s, i)
  BY Zenon DEF C3!LevelWindow, V23!LevelWindow, C3!WindowKey, V23!WindowKey
<1>3. C3!LevelsAt(s, i) = V23!LevelsAtV3(s, i)
  BY <1>2, LevelsV3, Zenon DEF C3!LevelsAt, V23!LevelsAtV3
<1>4. ASSUME NEW low PROVE C3!LevelFor(s, i, low) = V23!LevelForV3(s, i, low)
  <2>1. \A levels : C3!FirstOf(levels, LAMBDA x : C3!InWiderZone(x, low))
                    = V23!FirstOf(levels, LAMBDA x : V23!InWiderZone(x, low))
    BY Zenon
       DEF C3!FirstOf, V23!FirstOf, C3!InWiderZone, V23!InWiderZone, C3!Min, V23!Min
  <2>2. QED
    BY <1>3, <2>1, Zenon DEF C3!LevelFor, V23!LevelForV3
<1>5. \A level : C3!Signal(C3!PinAt(s, i), "none", level)
                 = V23!Signal(V23!PinAt(s, i), "none", level)
  BY Zenon DEF C3!Signal, V23!Signal, C3!PinAt, V23!PinAt, C3!At, V23!At
<1>6. QED
  BY <1>1, <1>4, <1>5 DEF C3!SignalAt, V23!SignalAtV3, V23!PinAtLevel

LEMMA TriggersOfChartV4 ==
    ASSUME NEW s, NEW i
    PROVE  C4!TriggerAt(s, i) = V4!TriggerAt(s, i)
<1>1. \A k : C4!IsPinBar(k) <=> V4!IsPinBar(k)
  BY Zenon
     DEF C4!IsPinBar, V4!IsPinBar, C4!PinBarOf, V4!PinBarOf, C4!Shape, V4!Shape,
         C4!ShapeOf, V4!ShapeOf, C4!High, V4!High, C4!Low, V4!Low
<1>2. \A a, b : C4!IsRails(a, b) <=> V4!IsRails(a, b)
  BY Zenon
     DEF C4!IsRails, V4!IsRails, C4!RedThenGreen, V4!RedThenGreen, C4!Red, V4!Red,
         C4!RailsOf, V4!RailsOf
<1>3. \A anchor, min_red :
         C4!RedApproach(s, anchor, min_red) <=> V4!RedApproach(s, anchor, min_red)
  BY Zenon
     DEF C4!RedApproach, V4!RedApproach, C4!FallsTo, V4!FallsTo, C4!At, V4!At,
         C4!Red, V4!Red, C4!APPROACH_BARS, V4!APPROACH_BARS,
         C4!Cardinality, V4!Cardinality
<1>4. C4!PinAt(s, i) = V4!PinAt(s, i) /\ C4!RailsAt(s, i) = V4!RailsAt(s, i)
  BY Zenon
     DEF C4!PinAt, V4!PinAt, C4!RailsAt, V4!RailsAt, C4!At, V4!At, C4!Low, V4!Low
<1>5. /\ C4!MIN_RED_BARS_PIN = V4!MIN_RED_BARS_PIN
      /\ C4!MIN_RED_BARS_RAILS = V4!MIN_RED_BARS_RAILS
  BY DEF C4!MIN_RED_BARS_PIN, V4!MIN_RED_BARS_PIN,
         C4!MIN_RED_BARS_RAILS, V4!MIN_RED_BARS_RAILS
<1>6. QED
  BY <1>1, <1>2, <1>3, <1>4, <1>5, Zenon DEF C4!TriggerAt, V4!TriggerAt

LEMMA SignalsOfChartV4 ==
    ASSUME NEW s, NEW i
    PROVE  C4!SignalAt(s, i) = V4!SignalAt(s, i)
<1>1. C4!LevelWindow(s, i) = V4!LevelWindow(s, i)
  BY Zenon DEF C4!LevelWindow, V4!LevelWindow, C4!WindowKey, V4!WindowKey
<1>2. C4!LevelsAt(s, i) = V4!LevelsAt(s, i)
  BY <1>1, LevelsV4, Zenon DEF C4!LevelsAt, V4!LevelsAt
<1>3. ASSUME NEW low PROVE C4!LevelFor(s, i, low) = V4!LevelFor(s, i, low)
  <2>1. \A levels : C4!FirstOf(levels, LAMBDA x : C4!InWiderZone(x, low))
                    = V4!FirstOf(levels, LAMBDA x : V4!InWiderZone(x, low))
    BY Zenon
       DEF C4!FirstOf, V4!FirstOf, C4!InWiderZone, V4!InWiderZone, C4!Min, V4!Min
  <2>2. QED
    BY <1>2, <2>1, Zenon DEF C4!LevelFor, V4!LevelFor
<1>4. \A trigger, mode, level :
         C4!Signal(trigger, mode, level) = V4!Signal(trigger, mode, level)
  BY Zenon DEF C4!Signal, V4!Signal
<1>5. QED
  BY <1>3, <1>4, TriggersOfChartV4 DEF C4!SignalAt, V4!SignalAt

LEMMA TriggersOfChartV5 ==
    ASSUME NEW s, NEW i
    PROVE  C5!TriggerAt(s, i) = V5!TriggerAt(s, i)
<1>1. \A k : C5!IsPinBar(k) <=> V5!IsPinBar(k)
  BY Zenon
     DEF C5!IsPinBar, V5!IsPinBar, C5!PinBarOf, V5!PinBarOf, C5!Shape, V5!Shape,
         C5!ShapeOf, V5!ShapeOf, C5!High, V5!High, C5!Low, V5!Low
<1>2. \A a, b : C5!IsRailsValid(a, b) <=> V5!IsRailsValid(a, b)
  <2>1. \A x, y : C5!High(x, y) = V5!High(x, y) /\ C5!Low(x, y) = V5!Low(x, y)
    BY Zenon DEF C5!High, V5!High, C5!Low, V5!Low
  <2>2. \A a, b : C5!RedThenGreen(a, b) <=> V5!RedThenGreen(a, b)
    BY Zenon DEF C5!RedThenGreen, V5!RedThenGreen, C5!Red, V5!Red
  <2>3. QED
    BY <1>1, <2>1, <2>2, Zenon
       DEF C5!IsRailsValid, V5!IsRailsValid, C5!ValidRailsOf, V5!ValidRailsOf,
           C5!IsPinBar, V5!IsPinBar
<1>3. \A anchor, min_red :
         C5!RedApproach(s, anchor, min_red) <=> V5!RedApproach(s, anchor, min_red)
  BY Zenon
     DEF C5!RedApproach, V5!RedApproach, C5!FallsTo, V5!FallsTo, C5!At, V5!At,
         C5!Red, V5!Red, C5!APPROACH_BARS, V5!APPROACH_BARS,
         C5!Cardinality, V5!Cardinality
<1>4. C5!PinAt(s, i) = V5!PinAt(s, i) /\ C5!RailsAt(s, i) = V5!RailsAt(s, i)
  BY Zenon
     DEF C5!PinAt, V5!PinAt, C5!RailsAt, V5!RailsAt, C5!At, V5!At, C5!Low, V5!Low
<1>5. /\ C5!MIN_RED_BARS_PIN = V5!MIN_RED_BARS_PIN
      /\ C5!MIN_RED_BARS_RAILS = V5!MIN_RED_BARS_RAILS
  BY DEF C5!MIN_RED_BARS_PIN, V5!MIN_RED_BARS_PIN,
         C5!MIN_RED_BARS_RAILS, V5!MIN_RED_BARS_RAILS
<1>6. QED
  BY <1>1, <1>2, <1>3, <1>4, <1>5, Zenon DEF C5!TriggerAt, V5!TriggerAt

LEMMA SignalsOfChartV5 ==
    ASSUME NEW s, NEW i
    PROVE  C5!SignalAt(s, i) = V5!SignalAt(s, i)
<1>1. C5!LevelWindow(s, i) = V5!LevelWindow(s, i)
  BY Zenon DEF C5!LevelWindow, V5!LevelWindow, C5!WindowKey, V5!WindowKey
<1>2. C5!LevelsAt(s, i) = V5!LevelsAt(s, i)
  BY <1>1, LevelsV5, Zenon DEF C5!LevelsAt, V5!LevelsAt
<1>3. ASSUME NEW low PROVE C5!LevelFor(s, i, low) = V5!LevelFor(s, i, low)
  <2>1. \A levels : C5!FirstOf(levels, LAMBDA x : C5!InWiderZone(x, low))
                    = V5!FirstOf(levels, LAMBDA x : V5!InWiderZone(x, low))
    BY Zenon
       DEF C5!FirstOf, V5!FirstOf, C5!InWiderZone, V5!InWiderZone, C5!Min, V5!Min
  <2>2. QED
    BY <1>2, <2>1, Zenon DEF C5!LevelFor, V5!LevelFor
<1>4. \A trigger, mode, level :
         C5!Signal(trigger, mode, level) = V5!Signal(trigger, mode, level)
  BY Zenon DEF C5!Signal, V5!Signal
<1>5. \A anchor : C5!ApproachCrash(s, anchor) <=> V5!ApproachCrash(s, anchor)
  BY Zenon
     DEF C5!ApproachCrash, V5!ApproachCrash, C5!Crashes, V5!Crashes, C5!At, V5!At,
         C5!APPROACH_BARS, V5!APPROACH_BARS
<1>6. QED
  BY <1>3, <1>4, <1>5, TriggersOfChartV5 DEF C5!SignalAt, V5!SignalAt

(* A trade that can be drawn when all bars were looked at. *)
Drawable(t) ==
    /\ t.entry \in Nat /\ t.entry < Len(series)
    /\ t.reason # "none" => /\ t.exit \in Nat /\ t.entry < t.exit /\ t.exit < Len(series)
    /\ t.price = series[t.entry + 1].c * 1000

(* Its two marks are in its picture, in order, and the first is at a close. *)
LEMMA MarksOf ==
    ASSUME NEW t, Drawable(t), Len(series) \in Nat
    PROVE  LET p == Picture(t)
           IN  /\ 0 <= p.entry /\ p.entry <= p.exit /\ p.exit < p.bars
               /\ t.reason # "none" => p.entry < p.exit
               /\ series[p.from + p.entry + 1].c * 1000 = t.price
<1>1. PICK last \in Nat : last = Len(series) - 1
  BY DEF Drawable
<1>2. PICK exit \in Nat : /\ exit = ExitBar(t) /\ t.entry <= exit /\ exit <= last
                          /\ t.reason # "none" => t.entry < exit
  <2>1. t.entry \in Nat /\ t.entry <= last
    BY <1>1 DEF Drawable
  <2>2. CASE t.reason = "none"
    <3>1. ExitBar(t) = last
      BY <1>1, <2>2 DEF ExitBar
    <3>2. QED
      BY <2>1, <2>2, <3>1
  <2>3. CASE t.reason # "none"
    <3>1. ExitBar(t) = t.exit
      BY <2>3 DEF ExitBar
    <3>2. t.exit \in Nat /\ t.entry < t.exit /\ t.exit <= last
      BY <1>1, <2>3 DEF Drawable
    <3>3. QED
      BY <2>1, <3>1, <3>2
  <2>4. QED
    BY <2>2, <2>3
<1>3. PICK first \in Nat :
         /\ first = (IF t.entry < BARS_BEFORE_ENTRY THEN 0 ELSE t.entry - BARS_BEFORE_ENTRY)
         /\ first <= t.entry
  BY PinBarParams DEF Drawable
<1>4. PICK to \in Nat :
         /\ to = (IF exit + BARS_AFTER_ENTRY > last THEN last ELSE exit + BARS_AFTER_ENTRY)
         /\ exit <= to /\ to <= last
  BY PinBarParams, <1>1, <1>2
<1>5. Picture(t) = [from |-> first, bars |-> to - first + 1,
                    entry |-> t.entry - first, exit |-> exit - first]
  BY <1>1, <1>2, <1>3, <1>4, Zenon DEF Picture
<1>6. PICK entry \in Nat : /\ entry = t.entry /\ first <= entry /\ entry <= exit
                           /\ t.reason # "none" => entry < exit
  BY <1>2, <1>3 DEF Drawable
<1>7. /\ 0 <= entry - first /\ entry - first <= exit - first
      /\ exit - first < to - first + 1 /\ first + (entry - first) + 1 = entry + 1
      /\ t.reason # "none" => entry - first < exit - first
  BY <1>4, <1>6
<1>8. series[entry + 1].c * 1000 = t.price
  BY <1>6 DEF Drawable
<1>9. /\ Picture(t).from = first /\ Picture(t).bars = to - first + 1
      /\ Picture(t).entry = entry - first /\ Picture(t).exit = exit - first
  BY <1>5, <1>6
<1>10. QED
  BY <1>7, <1>8, <1>9

(* All four charts draw the same picture of a trade. *)
LEMMA MarksDrawn ==
    ASSUME NEW drawn, \A t \in drawn : Drawable(t), Len(series) \in Nat
    PROVE  /\ C3!MarksInPicture(drawn, C3!PlotTrade)
           /\ C4!MarksInPicture(drawn, C4!PlotTrade)
           /\ C5!MarksInPicture(drawn, C5!PlotTrade)
           /\ C67!MarksInPicture(drawn, C67!PlotTrade)
<1>1. \A t : C3!PlotTrade(t) = Picture(t)
  BY Zenon DEF C3!PlotTrade, C3!Picture, Picture, C3!ExitBar, ExitBar
<1>2. C3!MarksInPicture(drawn, C3!PlotTrade)
  BY <1>1, MarksOf DEF C3!MarksInPicture, C3!IsClosed
<1>3. \A t : C4!PlotTrade(t) = Picture(t)
  BY Zenon DEF C4!PlotTrade, C4!Picture, Picture, C4!ExitBar, ExitBar
<1>4. C4!MarksInPicture(drawn, C4!PlotTrade)
  BY <1>3, MarksOf DEF C4!MarksInPicture, C4!IsClosed
<1>5. \A t : C5!PlotTrade(t) = Picture(t)
  BY Zenon DEF C5!PlotTrade, C5!Picture, Picture, C5!ExitBar, ExitBar
<1>6. C5!MarksInPicture(drawn, C5!PlotTrade)
  BY <1>5, MarksOf DEF C5!MarksInPicture, C5!IsClosed
<1>7. \A t : C67!PlotTrade(t) = Picture(t)
  BY Zenon DEF C67!PlotTrade, C67!Picture, Picture, C67!ExitBar, ExitBar
<1>8. C67!MarksInPicture(drawn, C67!PlotTrade)
  BY <1>7, MarksOf DEF C67!MarksInPicture, C67!IsClosed
<1>9. QED
  BY <1>2, <1>4, <1>6, <1>8

(* What is selected to be drawn are trades that were made. *)
LEMMA SelectedAre ==
    /\ C4!Selected \subseteq 1 .. Len(shown)
    /\ C5!Selected \subseteq 1 .. Len(shown)
    /\ C67!Selected \subseteq 1 .. Len(trades)
<1>1. \A found, of : /\ C4!BestAndWorst(found, of) \subseteq of
                     /\ C5!BestAndWorst(found, of) \subseteq of
                     /\ C67!BestAndWorst(found, of) \subseteq of
  BY DEF C4!BestAndWorst, C5!BestAndWorst, C67!BestAndWorst
<1>2. \A found, trigger : /\ C4!OfTrigger(found, trigger) \subseteq 1 .. Len(found)
                          /\ C5!OfTrigger(found, trigger) \subseteq 1 .. Len(found)
                          /\ C67!OfTrigger(found, trigger) \subseteq 1 .. Len(found)
  BY DEF C4!OfTrigger, C5!OfTrigger, C67!OfTrigger
<1>3. \A mode : C5!OfMode(mode) \subseteq 1 .. Len(shown)
  BY DEF C5!OfMode
<1>4. C4!Selected \subseteq 1 .. Len(shown) /\ C67!Selected \subseteq 1 .. Len(trades)
  BY <1>1, <1>2, Zenon DEF C4!Selected, C67!Selected
<1>5. C5!Selected \subseteq 1 .. Len(shown)
  BY <1>1, <1>2, <1>3 DEF C5!Selected
<1>6. QED
  BY <1>4, <1>5

LEMMA ChosenIs ==
    ASSUME Len(shown) \in Nat, shown # << >>, Len(shown) # 0,
           \A k \in 1 .. Len(shown) : shown[k].reason # "none" => Pnl(shown[k]) \in Int
    PROVE  C3!ChosenTrade \in 1 .. Len(shown)
<1> DEFINE closed == {k \in 1 .. Len(shown) : C3!IsClosed(shown[k])}
           PnlOf(k) == Pnl(shown[k])
<1>1. CASE closed = {}
  <2>1. C3!ChosenTrade = 1
    BY <1>1, Zenon DEF C3!ChosenTrade
  <2>2. QED
    BY <2>1
<1>2. CASE closed # {}
  <2>1. \A k \in closed : PnlOf(k) \in Int /\ k \in 1 .. Len(shown)
    BY DEF C3!IsClosed
  <2> HIDE DEF closed, PnlOf
  <2>2. \E top \in Int : \A k \in closed : PnlOf(k) <= top
    <3> DEFINE f == [k \in 1 .. Len(shown) |-> IF k \in closed THEN PnlOf(k) ELSE 0]
    <3>1. \A k \in 1 .. Len(shown) : f[k] \in Int
      BY <2>1
    <3>2. \A k \in closed : f[k] = PnlOf(k)
      BY <2>1
    <3> HIDE DEF f
    <3>3. PICK top \in Int : \A k \in 1 .. Len(shown) : f[k] <= top
      BY <3>1, Bounded
    <3>4. QED
      BY <2>1, <3>2, <3>3
  <2>3. PICK best \in {PnlOf(k) : k \in closed} :
           \A pays \in {PnlOf(k) : k \in closed} : pays <= best
    <3>1. {PnlOf(k) : k \in closed} \in SUBSET Int /\ {PnlOf(k) : k \in closed} # {}
      BY <1>2, <2>1
    <3>2. PICK top \in Int : \A k \in closed : PnlOf(k) <= top
      BY <2>2
    <3>3. \A pays \in {PnlOf(k) : k \in closed} : pays <= top
      BY <3>2
    <3>4. QED
      BY <3>1, <3>3, Greatest
  <2>4. PICK first \in {k \in closed : PnlOf(k) = best} :
           \A k \in {m \in closed : PnlOf(m) = best} : first <= k
    <3>1. {k \in closed : PnlOf(k) = best} \in SUBSET Nat /\ {k \in closed : PnlOf(k) = best} # {}
      BY <2>1, <2>3
    <3>2. QED
      BY <3>1, Smallest
  <2>5. \A j \in closed : \/ PnlOf(first) > PnlOf(j)
                          \/ first <= j /\ ~(PnlOf(j) > PnlOf(first))
    <3>1. SUFFICES ASSUME NEW j \in closed
                   PROVE  PnlOf(first) > PnlOf(j) \/ (first <= j /\ ~(PnlOf(j) > PnlOf(first)))
      OBVIOUS
    <3>2. PnlOf(first) = best /\ best \in Int /\ PnlOf(j) \in Int /\ PnlOf(j) <= best
      BY <2>1, <2>3, <2>4
    <3>3. PnlOf(j) = best => first <= j
      BY <2>4
    <3>4. QED
      BY <3>2, <3>3
  <2>6. \A j, k : C3!PaysMore(shown[k], shown[j]) <=> PnlOf(k) > PnlOf(j)
    BY DEF C3!PaysMore, C3!Pnl, Pnl, PnlOf
  <2>7. \E k \in closed : \A j \in closed :
                 \/ C3!PaysMore(shown[k], shown[j])
                 \/ k <= j /\ ~C3!PaysMore(shown[j], shown[k])
    BY <2>4, <2>5, <2>6
  <2>8. C3!ChosenTrade \in closed
    BY <1>2, <2>7 DEF closed, C3!ChosenTrade
  <2>9. QED
    BY <2>1, <2>8
<1>3. QED
  BY <1>1, <1>2

(* The low and the profit of a pin bar are clear of its own candle. *)
LEMMA PinIsClear ==
    ASSUME NEW k \in Candles, V23!IsPinBarV3(k)
    PROVE  /\ k.l * 1000 > k.l * 999
           /\ k.h * 1000 < k.c * 1000 + (k.c * 1000 - k.l * 999) * 2
<1>1. PICK o \in Nat, h \in Nat, l \in Nat, c \in Nat :
         o = k.o /\ h = k.h /\ l = k.l /\ c = k.c /\ l > 0
  BY DEF Candles
<1>2. PICK up \in Nat, down \in Nat :
         /\ up = (IF o < c THEN c ELSE o) /\ down = (IF o < c THEN o ELSE c)
  BY <1>1
<1>3. /\ h - l > 0
      /\ IF up - down = 0 THEN (down - l) * 10 >= (h - l) * 7
                          ELSE down - l >= (up - down) * 3
      /\ o + c >= 2 * l + (h - l)
      /\ (h - up) * 100 <= (h - l) * 25
  BY <1>1, <1>2 DEF V23!IsPinBarV3, V23!PinBarOf, V23!ShapeV3, V23!ShapeOf, V23!High,
      V23!Low
<1>4. c >= down /\ up >= down
  BY <1>2
<1>5. 3 * (c - l) >= h - l
  BY <1>3, <1>4
<1>6. QED
  BY <1>1, <1>5

(* The level of a signal is found again first the stop of its trade, because *)
(* there was one: the window was full, and the wider zones held the low.    *)
LEMMA NoneSelected ==
    ASSUME NEW low
    PROVE V67!LevelFor(<< >>, low) = None
  BY DEF V67!LevelFor, V67!FirstOf

LEMMA LevelAgain ==
    ASSUME NEW t, NEW levels
    PROVE  C67!LevelOf(t, levels) =
              IF V67!LevelFor(levels, t.stop \div 999) = None /\ levels # << >>
                 THEN Head(levels) ELSE V67!LevelFor(levels, t.stop \div 999)
  BY Zenon DEF C67!LevelOf, V67!LevelFor, C67!FirstOf, V67!FirstOf,
     C67!InWiderZone, V67!InWiderZone, C67!Min, V67!Min

LEMMA SignalOfV6 ==
    ASSUME NEW s, NEW i, V67!SignalAtV6(s, i) # None
    PROVE  LET signal == V67!SignalAtV6(s, i)
               level == V67!LevelFor(V67!LevelsAtV6(s, i), signal.low)
           IN  /\ level # None
               /\ level.lower = signal.lower /\ level.upper = signal.upper
               /\ level.score = signal.score
               /\ V67!WindowIsFull(s, i)
<1>1. PICK trigger : trigger = V67!TriggerAtV6(s, i)
  OBVIOUS
<1>2. PICK level : level = V67!LevelFor(V67!LevelsAtV6(s, i), trigger.low)
  OBVIOUS
<1>3. level # None /\ V67!SignalAtV6(s, i) = V67!Signal(trigger, "none", level)
  BY <1>1, <1>2 DEF V67!SignalAtV6
<1>4. V67!LevelsAtV6(s, i) # << >>
  BY <1>2, <1>3, NoneSelected
<1>5. V67!WindowIsFull(s, i)
  BY <1>4 DEF V67!LevelsAtV6
<1>6. QED
  BY <1>2, <1>3, <1>5 DEF V67!Signal

LEMMA ChartedV6 ==
    ASSUME NEW t, t.signal = V67!SignalAtV6(series, t.entry), t.signal # None,
           t.signal.low \in Int, t.stop = t.signal.low * 999
    PROVE  LET level == C67!FindLevelForTradeV6(t)
           IN  /\ level # None
               /\ level.lower = t.signal.lower /\ level.upper = t.signal.upper
               /\ level.score = t.signal.score
<1>1. PICK level : level = V67!LevelFor(V67!LevelsAtV6(series, t.entry), t.signal.low)
  OBVIOUS
<1>2. /\ level # None /\ V67!WindowIsFull(series, t.entry)
      /\ level.lower = t.signal.lower /\ level.upper = t.signal.upper
      /\ level.score = t.signal.score
  BY <1>1, SignalOfV6
<1>3. V67!LevelsAtV6(series, t.entry) = V67!DetectLevelsV6(V67!LevelWindow(series, t.entry))
  BY <1>2 DEF V67!LevelsAtV6
<1>4. C67!LevelWindow(series, t.entry) = V67!LevelWindow(series, t.entry)
  BY Zenon DEF C67!LevelWindow, V67!LevelWindow, C67!WindowKey, V67!WindowKey
<1>5. t.stop \div 999 = t.signal.low
  OBVIOUS
<1>6. C67!FindLevelForTradeV6(t) = C67!LevelOf(t, V67!LevelsAtV6(series, t.entry))
  BY <1>3, <1>4, LevelsV6 DEF C67!FindLevelForTradeV6
<1>7. C67!FindLevelForTradeV6(t) = level
  BY <1>1, <1>2, <1>5, <1>6, LevelAgain
<1>8. QED
  BY <1>2, <1>7

LEMMA SignalOfV7 ==
    ASSUME NEW s, NEW i, V67!SignalAtV7(s, i) # None
    PROVE  LET signal == V67!SignalAtV7(s, i)
               level == V67!LevelFor(V67!LevelsAtV7(s, i), signal.low)
           IN  /\ level # None
               /\ level.lower = signal.lower /\ level.upper = signal.upper
               /\ level.score = signal.score
               /\ V67!WindowIsFull(s, i)
<1>1. PICK trigger : trigger = V67!TriggerAtV7(s, i)
  OBVIOUS
<1>2. PICK level : level = V67!LevelFor(V67!LevelsAtV7(s, i), trigger.low)
  OBVIOUS
<1>3. level # None /\ V67!SignalAtV7(s, i) = V67!Signal(trigger, "none", level)
  BY <1>1, <1>2 DEF V67!SignalAtV7
<1>4. V67!LevelsAtV7(s, i) # << >>
  BY <1>2, <1>3, NoneSelected
<1>5. V67!WindowIsFull(s, i)
  BY <1>4 DEF V67!LevelsAtV7
<1>6. QED
  BY <1>2, <1>3, <1>5 DEF V67!Signal

LEMMA ChartedV7 ==
    ASSUME NEW t, t.signal = V67!SignalAtV7(series, t.entry), t.signal # None,
           t.signal.low \in Int, t.stop = t.signal.low * 999
    PROVE  LET level == C67!FindLevelForTradeV7(t)
           IN  /\ level # None
               /\ level.lower = t.signal.lower /\ level.upper = t.signal.upper
               /\ level.score = t.signal.score
<1>1. PICK level : level = V67!LevelFor(V67!LevelsAtV7(series, t.entry), t.signal.low)
  OBVIOUS
<1>2. /\ level # None /\ V67!WindowIsFull(series, t.entry)
      /\ level.lower = t.signal.lower /\ level.upper = t.signal.upper
      /\ level.score = t.signal.score
  BY <1>1, SignalOfV7
<1>3. V67!LevelsAtV7(series, t.entry) = V67!DetectLevelsV7(V67!LevelWindow(series, t.entry))
  BY <1>2 DEF V67!LevelsAtV7
<1>4. C67!LevelWindow(series, t.entry) = V67!LevelWindow(series, t.entry)
  BY Zenon DEF C67!LevelWindow, V67!LevelWindow, C67!WindowKey, V67!WindowKey
<1>5. t.stop \div 999 = t.signal.low
  OBVIOUS
<1>6. C67!FindLevelForTradeV7(t) = C67!LevelOf(t, V67!LevelsAtV7(series, t.entry))
  BY <1>3, <1>4, LevelsV7 DEF C67!FindLevelForTradeV7
<1>7. C67!FindLevelForTradeV7(t) = level
  BY <1>1, <1>2, <1>5, <1>6, LevelAgain
<1>8. QED
  BY <1>2, <1>7

-----------------------------------------------------------------------------
(* The pin-bar backtests: the simulation of every version is the one that   *)
(* Simulations_proofs is about, with the signals of the version.            *)

(* Version 1. *)
T1 == INSTANCE Simulations_proofs WITH
    SignalAt <- V1!SignalAt, WarmUp <- LEVEL_WINDOW_H,
    MinBars <- LEVEL_WINDOW_H + ShortHold + Spare,
    MaxHolding <- ShortHold, RiskReward <- 2, MinStop <- 3, TakerFee <- 18

(* The price of a signal is the low of a candle, of the lower one of two    *)
(* for rails.                                                               *)
LEMMA LowOfCandle ==
    ASSUME NEW s \in Seq(Candles), NEW i \in Nat, i < Len(s)
    PROVE  s[i + 1].l \in Int /\ (i >= 1 => s[i].l \in Int)
<1>1. s[i + 1] \in Candles /\ (i >= 1 => s[i] \in Candles)
  OBVIOUS
<1>2. \A k \in Candles : k.l \in Int
  BY DEF Candles
<1>3. QED
  BY <1>1, <1>2

LEMMA ParamsV1 == T1!Params
<1>1. ASSUME NEW at \in T1!Bars, V1!SignalAt(at.of, at.i) # None
      PROVE  V1!SignalAt(at.of, at.i).low \in Int
  <2>1. at.of \in Seq(Candles) /\ at.i \in Nat /\ at.i < Len(at.of)
    BY DEF T1!Bars, T1!Candles, T1!Price, Candles
  <2>2. at.of[at.i + 1].l \in Int
    BY <2>1, LowOfCandle
  <2>3. V1!SignalAt(at.of, at.i).low = at.of[at.i + 1].l
    BY <1>1 DEF V1!SignalAt, V1!Signal, V1!PinAt, V1!At
  <2>4. QED
    BY <2>2, <2>3
<1>2. \A signal \in T1!Signals : signal.low \in Int
  BY <1>1, Zenon DEF T1!Signals
<1>3. QED
  BY <1>2, PinBarParams DEF T1!Params

LEMMA StepV1 ==
    ASSUME T1!IInv
    PROVE  /\ \A candles \in Series : V1!Load(candles) => T1!IInv'
           /\ V1!Bar => T1!IInv'
           /\ UNCHANGED <<series, bar, trades>> => T1!IInv'
<1>1. ASSUME NEW candles \in Series, V1!Load(candles)
      PROVE  T1!IInv'
  <2>1. T1!Load(candles)
    BY <1>1 DEF V1!Load, V1!Simulation!Load, T1!Load
  <2>2. candles \in Seq(T1!Candles)
    BY PinBarParams DEF T1!Candles, T1!Price
  <2>3. QED
    BY <2>1, <2>2, ParamsV1, T1!LoadStep
<1>2. ASSUME V1!Bar PROVE T1!IInv'
  <2>1. T1!Bar
    BY <1>2, Zenon
       DEF V1!Bar, V1!Simulation!Bar, T1!Bar,
           V1!Simulation!Hold, V1!Simulation!Close, V1!Simulation!Enter,
           V1!Simulation!Skip, V1!Simulation!Open, V1!Simulation!Last,
           V1!Simulation!ExitReason, V1!Simulation!ExitPrice,
           V1!Simulation!Candle, V1!Simulation!Stop, V1!Simulation!TooTight,
           V1!Simulation!NewTrade, T1!Hold, T1!Close, T1!Enter, T1!Skip,
           T1!Open, T1!Last, T1!ExitReason, T1!ExitPrice, T1!Candle, T1!Stop,
           T1!TooTight, T1!NewTrade
  <2>2. QED
    BY <2>1, ParamsV1, T1!BarStep
<1>3. ASSUME UNCHANGED <<series, bar, trades>> PROVE T1!IInv'
  BY <1>3, T1!Unchanged DEF T1!vars
<1>4. QED
  BY <1>1, <1>2, <1>3

LEMMA SoundV1 ==
    ASSUME T1!IInv
    PROVE  V1!Simulation!TradesSound
<1>1. T1!TradesSound
  BY ParamsV1, T1!InvariantTradesSound
<1>2. QED
  BY <1>1
     DEF T1!TradesSound, V1!Simulation!TradesSound,
         T1!TradesInOrder, V1!Simulation!TradesInOrder,
         T1!HoldingBounded, V1!Simulation!HoldingBounded,
         T1!ExitIsWorst, V1!Simulation!ExitIsWorst

LEMMA ReportV1 ==
    ASSUME T1!IInv
    PROVE  V1!Simulation!ReportMatchesExits
<1>1. T1!ReportMatchesExits
  BY ParamsV1, T1!InvariantReportMatchesExits
<1>2. \A t : V1!Simulation!Wins(t) <=> T1!Wins(t)
  BY DEF V1!Simulation!Wins, T1!Wins
<1>a. \A A : V1!Simulation!Cardinality(A) = T1!Cardinality(A)
  BY DEF V1!Simulation!Cardinality, T1!Cardinality
<1>3. /\ V1!Simulation!Report.wins = T1!Report.wins
      /\ V1!Simulation!Report.losses = T1!Report.losses
      /\ V1!Simulation!Report.reasons = T1!Report.reasons
  BY <1>2, <1>a DEF V1!Simulation!Report, T1!Report, V1!Simulation!Counted, T1!Counted
<1>4. V1!Simulation!ProfitPays
  BY <1>1, <1>2 DEF T1!ReportMatchesExits, T1!ProfitPays, V1!Simulation!ProfitPays
<1>5. QED
  BY <1>1, <1>3, <1>4 DEF T1!ReportMatchesExits, V1!Simulation!ReportMatchesExits

-----------------------------------------------------------------------------
(* Version 2. *)
T2 == INSTANCE Simulations_proofs WITH
    SignalAt <- V23!SignalAtV2, WarmUp <- LookAheadWarmUp, MinBars <- MinHistory,
    MaxHolding <- ShortHold, RiskReward <- 2, MinStop <- 3, TakerFee <- 18

LEMMA ParamsV2 == T2!Params
<1>1. ASSUME NEW at \in T2!Bars, V23!SignalAtV2(at.of, at.i) # None
      PROVE  V23!SignalAtV2(at.of, at.i).low \in Int
  <2>1. at.of \in Seq(Candles) /\ at.i \in Nat /\ at.i < Len(at.of)
    BY DEF T2!Bars, T2!Candles, T2!Price, Candles
  <2>2. at.of[at.i + 1].l \in Int
    BY <2>1, LowOfCandle
  <2>3. V23!SignalAtV2(at.of, at.i).low = at.of[at.i + 1].l
    BY <1>1 DEF V23!SignalAtV2, V23!PinAtLevel, V23!Signal, V23!PinAt, V23!At
  <2>4. QED
    BY <2>2, <2>3
<1>2. \A signal \in T2!Signals : signal.low \in Int
  BY <1>1, Zenon DEF T2!Signals
<1>3. QED
  BY <1>2, PinBarParams DEF T2!Params

LEMMA StepV2 ==
    ASSUME T2!IInv
    PROVE  /\ \A candles \in Series : V23!LoadV2(candles) => T2!IInv'
           /\ V23!BarV2 => T2!IInv'
           /\ UNCHANGED <<series, bar, trades>> => T2!IInv'
<1>1. ASSUME NEW candles \in Series, V23!LoadV2(candles)
      PROVE  T2!IInv'
  <2>1. T2!Load(candles)
    BY <1>1 DEF V23!LoadV2, V23!SimulationV2!Load, T2!Load
  <2>2. candles \in Seq(T2!Candles)
    BY PinBarParams DEF T2!Candles, T2!Price
  <2>3. QED
    BY <2>1, <2>2, ParamsV2, T2!LoadStep
<1>2. ASSUME V23!BarV2 PROVE T2!IInv'
  <2>1. T2!Bar
    BY <1>2, Zenon
       DEF V23!BarV2, V23!SimulationV2!Bar, T2!Bar,
           V23!SimulationV2!Hold, V23!SimulationV2!Close,
           V23!SimulationV2!Enter, V23!SimulationV2!Skip, V23!SimulationV2!Open,
           V23!SimulationV2!Last, V23!SimulationV2!ExitReason,
           V23!SimulationV2!ExitPrice, V23!SimulationV2!Candle,
           V23!SimulationV2!Stop, V23!SimulationV2!TooTight,
           V23!SimulationV2!NewTrade, T2!Hold, T2!Close, T2!Enter, T2!Skip,
           T2!Open, T2!Last, T2!ExitReason, T2!ExitPrice, T2!Candle, T2!Stop,
           T2!TooTight, T2!NewTrade
  <2>2. QED
    BY <2>1, ParamsV2, T2!BarStep
<1>3. ASSUME UNCHANGED <<series, bar, trades>> PROVE T2!IInv'
  BY <1>3, T2!Unchanged DEF T2!vars
<1>4. QED
  BY <1>1, <1>2, <1>3

LEMMA SoundV2 ==
    ASSUME T2!IInv
    PROVE  V1!Simulation!TradesSound
<1>1. T2!TradesSound
  BY ParamsV2, T2!InvariantTradesSound
<1>2. QED
  BY <1>1
     DEF T2!TradesSound, V1!Simulation!TradesSound,
         T2!TradesInOrder, V1!Simulation!TradesInOrder,
         T2!HoldingBounded, V1!Simulation!HoldingBounded,
         T2!ExitIsWorst, V1!Simulation!ExitIsWorst

LEMMA ReportV2 ==
    ASSUME T2!IInv
    PROVE  V23!SimulationV2!ReportMatchesExits
<1>1. T2!ReportMatchesExits
  BY ParamsV2, T2!InvariantReportMatchesExits
<1>2. \A t : V23!SimulationV2!Wins(t) <=> T2!Wins(t)
  BY DEF V23!SimulationV2!Wins, T2!Wins
<1>a. \A A : V23!SimulationV2!Cardinality(A) = T2!Cardinality(A)
  BY DEF V23!SimulationV2!Cardinality, T2!Cardinality
<1>3. /\ V23!SimulationV2!Report.wins = T2!Report.wins
      /\ V23!SimulationV2!Report.losses = T2!Report.losses
      /\ V23!SimulationV2!Report.reasons = T2!Report.reasons
  BY <1>2, <1>a DEF V23!SimulationV2!Report, T2!Report, V23!SimulationV2!Counted, T2!Counted
<1>4. V23!SimulationV2!ProfitPays
  BY <1>1, <1>2 DEF T2!ReportMatchesExits, T2!ProfitPays, V23!SimulationV2!ProfitPays
<1>5. QED
  BY <1>1, <1>3, <1>4 DEF T2!ReportMatchesExits, V23!SimulationV2!ReportMatchesExits

-----------------------------------------------------------------------------
(* Version 3. *)
T3 == INSTANCE Simulations_proofs WITH
    SignalAt <- V23!SignalAtV3, WarmUp <- LEVEL_WINDOW_H,
    MinBars <- LEVEL_WINDOW_H + ShortHold + Spare,
    MaxHolding <- ShortHold, RiskReward <- 2, MinStop <- 3, TakerFee <- 14

LEMMA ParamsV3 == T3!Params
<1>1. ASSUME NEW at \in T3!Bars, V23!SignalAtV3(at.of, at.i) # None
      PROVE  V23!SignalAtV3(at.of, at.i).low \in Int
  <2>1. at.of \in Seq(Candles) /\ at.i \in Nat /\ at.i < Len(at.of)
    BY DEF T3!Bars, T3!Candles, T3!Price, Candles
  <2>2. at.of[at.i + 1].l \in Int
    BY <2>1, LowOfCandle
  <2>3. V23!SignalAtV3(at.of, at.i).low = at.of[at.i + 1].l
    BY <1>1 DEF V23!SignalAtV3, V23!PinAtLevel, V23!Signal, V23!PinAt, V23!At
  <2>4. QED
    BY <2>2, <2>3
<1>2. \A signal \in T3!Signals : signal.low \in Int
  BY <1>1, Zenon DEF T3!Signals
<1>3. QED
  BY <1>2, PinBarParams DEF T3!Params

LEMMA BarOfV3 ==
    ASSUME V23!BarV3
    PROVE  T3!Bar
  BY Zenon
     DEF V23!BarV3, V23!SimulationV3!Bar, T3!Bar,
         V23!SimulationV3!Hold, V23!SimulationV3!Close,
         V23!SimulationV3!Enter, V23!SimulationV3!Skip, V23!SimulationV3!Open,
         V23!SimulationV3!Last, V23!SimulationV3!ExitReason,
         V23!SimulationV3!ExitPrice, V23!SimulationV3!Candle,
         V23!SimulationV3!Stop, V23!SimulationV3!TooTight,
         V23!SimulationV3!NewTrade, T3!Hold, T3!Close, T3!Enter, T3!Skip,
         T3!Open, T3!Last, T3!ExitReason, T3!ExitPrice, T3!Candle, T3!Stop,
         T3!TooTight, T3!NewTrade

LEMMA StepV3 ==
    ASSUME T3!IInv
    PROVE  /\ \A candles \in Series : V23!LoadV3(candles) => T3!IInv'
           /\ V23!BarV3 => T3!IInv'
           /\ UNCHANGED <<series, bar, trades>> => T3!IInv'
<1>1. ASSUME NEW candles \in Series, V23!LoadV3(candles)
      PROVE  T3!IInv'
  <2>1. T3!Load(candles)
    BY <1>1 DEF V23!LoadV3, V23!SimulationV3!Load, T3!Load
  <2>2. candles \in Seq(T3!Candles)
    BY PinBarParams DEF T3!Candles, T3!Price
  <2>3. QED
    BY <2>1, <2>2, ParamsV3, T3!LoadStep
<1>2. ASSUME V23!BarV3 PROVE T3!IInv'
  <2>1. T3!Bar
    BY <1>2, BarOfV3
  <2>2. QED
    BY <2>1, ParamsV3, T3!BarStep
<1>3. ASSUME UNCHANGED <<series, bar, trades>> PROVE T3!IInv'
  BY <1>3, T3!Unchanged DEF T3!vars
<1>4. QED
  BY <1>1, <1>2, <1>3

LEMMA SoundV3 ==
    ASSUME T3!IInv
    PROVE  V1!Simulation!TradesSound
<1>1. T3!TradesSound
  BY ParamsV3, T3!InvariantTradesSound
<1>2. QED
  BY <1>1
     DEF T3!TradesSound, V1!Simulation!TradesSound,
         T3!TradesInOrder, V1!Simulation!TradesInOrder,
         T3!HoldingBounded, V1!Simulation!HoldingBounded,
         T3!ExitIsWorst, V1!Simulation!ExitIsWorst

LEMMA ReportV3 ==
    ASSUME T3!IInv
    PROVE  V23!SimulationV3!ReportMatchesExits
<1>1. T3!ReportMatchesExits
  BY ParamsV3, T3!InvariantReportMatchesExits
<1>2. \A t : V23!SimulationV3!Wins(t) <=> T3!Wins(t)
  BY DEF V23!SimulationV3!Wins, T3!Wins
<1>a. \A A : V23!SimulationV3!Cardinality(A) = T3!Cardinality(A)
  BY DEF V23!SimulationV3!Cardinality, T3!Cardinality
<1>3. /\ V23!SimulationV3!Report.wins = T3!Report.wins
      /\ V23!SimulationV3!Report.losses = T3!Report.losses
      /\ V23!SimulationV3!Report.reasons = T3!Report.reasons
  BY <1>2, <1>a DEF V23!SimulationV3!Report, T3!Report, V23!SimulationV3!Counted, T3!Counted
<1>4. V23!SimulationV3!ProfitPays
  BY <1>1, <1>2 DEF T3!ReportMatchesExits, T3!ProfitPays, V23!SimulationV3!ProfitPays
<1>5. QED
  BY <1>1, <1>3, <1>4 DEF T3!ReportMatchesExits, V23!SimulationV3!ReportMatchesExits

(* A chart simulates once more what its backtest simulated: the same bar,   *)
(* with the same signal, makes the same trades of the same trades.          *)
LEMMA ChartFollowsV3 ==
    ASSUME shown = trades, V23!BarV3, C3!Bar
    PROVE  shown' = trades'
<1>1. trades' = T3!TradesNext
  BY BarOfV3, T3!BarMakes
<1>2. C3!Simulation!Last = T3!Last /\ (C3!Simulation!Open <=> T3!Open)
  BY DEF C3!Simulation!Last, T3!Last, C3!Simulation!Open, T3!Open
<1>3. \A t, i : C3!Simulation!ExitReason(t, i) = T3!ExitReason(t, i)
  BY Zenon DEF C3!Simulation!ExitReason, T3!ExitReason
<1>4. \A t, r : C3!Simulation!ExitPrice(t, r) = T3!ExitPrice(t, r)
  BY Zenon DEF C3!Simulation!ExitPrice, T3!ExitPrice, C3!Simulation!Candle, T3!Candle
<1>5. \A signal : /\ C3!Simulation!NewTrade(signal) = T3!NewTrade(signal)
                  /\ C3!Simulation!TooTight(signal) <=> T3!TooTight(signal)
  BY DEF C3!Simulation!NewTrade, T3!NewTrade, C3!Simulation!Candle, T3!Candle,
         C3!Simulation!Stop, T3!Stop, C3!Simulation!TooTight, T3!TooTight
<1>6. C3!SignalAt(series, bar) = V23!SignalAtV3(series, bar)
  BY SignalsOfChartV3
<1>7. shown' = T3!TradesNext
  <2>1. CASE C3!Simulation!Close
    BY <1>2, <1>3, <1>4, <2>1 DEF C3!Simulation!Close, T3!TradesNext
  <2>2. CASE C3!Simulation!Enter
    BY <1>2, <1>5, <1>6, <2>2 DEF C3!Simulation!Enter, T3!TradesNext
  <2>3. CASE C3!Simulation!Hold
    BY <1>2, <1>3, <2>3 DEF C3!Simulation!Hold, T3!TradesNext
  <2>4. CASE C3!Simulation!Skip
    BY <1>2, <1>5, <1>6, <2>4 DEF C3!Simulation!Skip, T3!TradesNext
  <2>5. QED
    BY <2>1, <2>2, <2>3, <2>4 DEF C3!Bar, C3!Simulation!Bar
<1>8. QED
  BY <1>1, <1>7

(* The candle of the last bar does not close a trade that the simulation    *)
(* left open: it was looked at, unless the trade was entered on it, and     *)
(* then the stop and the profit are clear of it.                            *)
LEMMA OpenStays ==
    ASSUME T3!IInv, shown = trades, bar = Len(series),
           NEW k \in 1 .. Len(shown), shown[k].reason = "none"
    PROVE  C3!CurrentReason(shown[k]) = "open"
<1>1. PICK t : t = trades[k]
  OBVIOUS
<1>2. t \in T3!Trade /\ T3!Followed(t, bar) /\ T3!Entered(t) /\ t.reason = "none"
  BY <1>1, T3!TradeIs
<1>3. PICK last \in Nat : last = bar - 1 /\ t.entry <= last /\ bar = last + 1
  BY <1>2 DEF T3!Followed, T3!Trade, T3!IInv
<1>4. PICK candle \in Candles : candle = series[last + 1]
  <2>1. series \in Seq(Candles)
    BY DEF T3!IInv, T3!Candles, T3!Price, Candles
  <2>2. last + 1 \in 1 .. Len(series)
    BY <1>3
  <2>3. QED
    BY <2>1, <2>2
<1>5. candle.l \in Nat /\ candle.h \in Nat /\ candle.c \in Nat
  BY <1>4 DEF Candles
<1>6. ~(candle.l * 1000 <= t.stop) /\ ~(candle.h * 1000 >= t.take)
  <2>1. CASE t.entry < last
    BY <1>2, <1>3, <1>4, <2>1 DEF T3!Followed, T3!Trade
  <2>2. CASE t.entry = last
    <3>1. t.signal = V23!SignalAtV3(series, last) /\ t.signal # None
      BY <1>2, <2>2 DEF T3!Entered, T3!Trade, T3!Signals
    <3>2. V23!IsPinBarV3(candle) /\ t.signal.low = candle.l
      BY <1>4, <3>1 DEF V23!SignalAtV3, V23!PinAtLevel, V23!Signal, V23!PinAt, V23!At
    <3>3. t.stop = candle.l * 999 /\ t.price = candle.c * 1000
          /\ t.take = t.price + (t.price - t.stop) * 2
      BY <1>2, <1>4, <2>2, <3>2 DEF T3!Entered, T3!Stop
    <3>4. /\ candle.l * 1000 > candle.l * 999
          /\ candle.h * 1000 < candle.c * 1000 + (candle.c * 1000 - candle.l * 999) * 2
      BY <1>4, <3>2, PinIsClear
    <3>5. t.take = candle.c * 1000 + (candle.c * 1000 - candle.l * 999) * 2
      BY <3>3
    <3>6. PICK l \in Nat, h \in Nat, c \in Nat, stop \in {t.stop}, take \in {t.take} :
             /\ l = candle.l /\ h = candle.h /\ c = candle.c
             /\ stop = t.stop /\ take = t.take
      BY <1>5
    <3>7. /\ l * 1000 > l * 999 /\ h * 1000 < c * 1000 + (c * 1000 - l * 999) * 2
          /\ stop = l * 999 /\ take = c * 1000 + (c * 1000 - l * 999) * 2
      BY <3>3, <3>4, <3>5, <3>6
    <3>8. ~(l * 1000 <= stop) /\ ~(h * 1000 >= take)
      BY <3>7
    <3>9. QED
      BY <3>6, <3>8
  <2>3. QED
    BY <1>2, <1>3, <2>1, <2>2 DEF T3!Trade
<1>7. /\ C3!Simulation!ExitReason(t, last) # "stop"
      /\ C3!Simulation!ExitReason(t, last) # "take"
  BY <1>4, <1>6 DEF C3!Simulation!ExitReason
<1>8. QED
  BY <1>1, <1>3, <1>7 DEF C3!CurrentReason

LEMMA MarksOfV3 ==
    ASSUME T3!IInv, shown = trades, bar = Len(series), shown # << >>
    PROVE  C3!MarksInPicture({shown[C3!ChosenTrade]}, C3!PlotTrade)
<1>1. Len(shown) \in Nat /\ Len(shown) # 0 /\ Len(series) \in Nat
  BY DEF T3!IInv
<1>2. \A k \in 1 .. Len(shown) : Drawable(shown[k]) /\ Pnl(shown[k]) \in Int
  BY T3!TradeFits DEF Drawable, Pnl
<1>3. C3!ChosenTrade \in 1 .. Len(shown)
  BY <1>1, <1>2, ChosenIs
<1>4. QED
  BY <1>1, <1>2, <1>3, MarksDrawn

-----------------------------------------------------------------------------
(* Version 4. *)
T4 == INSTANCE Simulations_proofs WITH
    SignalAt <- V4!SignalAt, WarmUp <- LEVEL_WINDOW_H,
    MinBars <- LEVEL_WINDOW_H + LongHold + Spare,
    MaxHolding <- LongHold, RiskReward <- 3, MinStop <- 5, TakerFee <- 14

LEMMA ParamsV4 == T4!Params
<1>1. ASSUME NEW at \in T4!Bars, V4!SignalAt(at.of, at.i) # None
      PROVE  V4!SignalAt(at.of, at.i).low \in Int
  <2>1. at.of \in Seq(Candles) /\ at.i \in Nat /\ at.i < Len(at.of)
    BY DEF T4!Bars, T4!Candles, T4!Price, Candles
  <2>2. V4!TriggerAt(at.of, at.i) # None
           => V4!TriggerAt(at.of, at.i).low \in Int
    BY <2>1, LowOfCandle DEF V4!TriggerAt, V4!PinAt, V4!RailsAt, V4!At, V4!Low
  <2>3. /\ V4!TriggerAt(at.of, at.i) # None
        /\ V4!SignalAt(at.of, at.i).low = V4!TriggerAt(at.of, at.i).low
    BY <1>1 DEF V4!SignalAt, V4!Signal
  <2>4. QED
    BY <2>2, <2>3
<1>2. \A signal \in T4!Signals : signal.low \in Int
  BY <1>1, Zenon DEF T4!Signals
<1>3. QED
  BY <1>2, PinBarParams DEF T4!Params

LEMMA BarOfV4 ==
    ASSUME V4!Bar
    PROVE  T4!Bar
  BY Zenon
     DEF V4!Bar, V4!Simulation!Bar, T4!Bar,
         V4!Simulation!Hold, V4!Simulation!Close, V4!Simulation!Enter,
         V4!Simulation!Skip, V4!Simulation!Open, V4!Simulation!Last,
         V4!Simulation!ExitReason, V4!Simulation!ExitPrice,
         V4!Simulation!Candle, V4!Simulation!Stop, V4!Simulation!TooTight,
         V4!Simulation!NewTrade, T4!Hold, T4!Close, T4!Enter, T4!Skip,
         T4!Open, T4!Last, T4!ExitReason, T4!ExitPrice, T4!Candle, T4!Stop,
         T4!TooTight, T4!NewTrade

LEMMA StepV4 ==
    ASSUME T4!IInv
    PROVE  /\ \A candles \in Series : V4!Load(candles) => T4!IInv'
           /\ V4!Bar => T4!IInv'
           /\ UNCHANGED <<series, bar, trades>> => T4!IInv'
<1>1. ASSUME NEW candles \in Series, V4!Load(candles)
      PROVE  T4!IInv'
  <2>1. T4!Load(candles)
    BY <1>1 DEF V4!Load, V4!Simulation!Load, T4!Load
  <2>2. candles \in Seq(T4!Candles)
    BY PinBarParams DEF T4!Candles, T4!Price
  <2>3. QED
    BY <2>1, <2>2, ParamsV4, T4!LoadStep
<1>2. ASSUME V4!Bar PROVE T4!IInv'
  <2>1. T4!Bar
    BY <1>2, BarOfV4
  <2>2. QED
    BY <2>1, ParamsV4, T4!BarStep
<1>3. ASSUME UNCHANGED <<series, bar, trades>> PROVE T4!IInv'
  BY <1>3, T4!Unchanged DEF T4!vars
<1>4. QED
  BY <1>1, <1>2, <1>3

LEMMA SoundV4 ==
    ASSUME T4!IInv
    PROVE  V4!Simulation!TradesSound
<1>1. T4!TradesSound
  BY ParamsV4, T4!InvariantTradesSound
<1>2. QED
  BY <1>1
     DEF T4!TradesSound, V4!Simulation!TradesSound,
         T4!TradesInOrder, V4!Simulation!TradesInOrder,
         T4!HoldingBounded, V4!Simulation!HoldingBounded,
         T4!ExitIsWorst, V4!Simulation!ExitIsWorst

LEMMA ReportV4 ==
    ASSUME T4!IInv
    PROVE  V4!Simulation!ReportMatchesExits
<1>1. T4!ReportMatchesExits
  BY ParamsV4, T4!InvariantReportMatchesExits
<1>2. \A t : V4!Simulation!Wins(t) <=> T4!Wins(t)
  BY DEF V4!Simulation!Wins, T4!Wins
<1>a. \A A : V4!Simulation!Cardinality(A) = T4!Cardinality(A)
  BY DEF V4!Simulation!Cardinality, T4!Cardinality
<1>3. /\ V4!Simulation!Report.wins = T4!Report.wins
      /\ V4!Simulation!Report.losses = T4!Report.losses
      /\ V4!Simulation!Report.reasons = T4!Report.reasons
  BY <1>2, <1>a DEF V4!Simulation!Report, T4!Report, V4!Simulation!Counted, T4!Counted
<1>4. V4!Simulation!ProfitPays
  BY <1>1, <1>2 DEF T4!ReportMatchesExits, T4!ProfitPays, V4!Simulation!ProfitPays
<1>5. QED
  BY <1>1, <1>3, <1>4 DEF T4!ReportMatchesExits, V4!Simulation!ReportMatchesExits

LEMMA ChartFollowsV4 ==
    ASSUME shown = trades, V4!Bar, C4!Bar
    PROVE  shown' = trades'
<1>1. trades' = T4!TradesNext
  BY BarOfV4, T4!BarMakes
<1>2. C4!Simulation!Last = T4!Last /\ (C4!Simulation!Open <=> T4!Open)
  BY DEF C4!Simulation!Last, T4!Last, C4!Simulation!Open, T4!Open
<1>3. \A t, i : C4!Simulation!ExitReason(t, i) = T4!ExitReason(t, i)
  BY Zenon DEF C4!Simulation!ExitReason, T4!ExitReason
<1>4. \A t, r : C4!Simulation!ExitPrice(t, r) = T4!ExitPrice(t, r)
  BY Zenon DEF C4!Simulation!ExitPrice, T4!ExitPrice, C4!Simulation!Candle, T4!Candle
<1>5. \A signal : /\ C4!Simulation!NewTrade(signal) = T4!NewTrade(signal)
                  /\ C4!Simulation!TooTight(signal) <=> T4!TooTight(signal)
  BY DEF C4!Simulation!NewTrade, T4!NewTrade, C4!Simulation!Candle, T4!Candle,
         C4!Simulation!Stop, T4!Stop, C4!Simulation!TooTight, T4!TooTight
<1>6. C4!SignalAt(series, bar) = V4!SignalAt(series, bar)
  BY SignalsOfChartV4
<1>7. shown' = T4!TradesNext
  <2>1. CASE C4!Simulation!Close
    BY <1>2, <1>3, <1>4, <2>1 DEF C4!Simulation!Close, T4!TradesNext
  <2>2. CASE C4!Simulation!Enter
    BY <1>2, <1>5, <1>6, <2>2 DEF C4!Simulation!Enter, T4!TradesNext
  <2>3. CASE C4!Simulation!Hold
    BY <1>2, <1>3, <2>3 DEF C4!Simulation!Hold, T4!TradesNext
  <2>4. CASE C4!Simulation!Skip
    BY <1>2, <1>5, <1>6, <2>4 DEF C4!Simulation!Skip, T4!TradesNext
  <2>5. QED
    BY <2>1, <2>2, <2>3, <2>4 DEF C4!Bar, C4!Simulation!Bar
<1>8. QED
  BY <1>1, <1>7

LEMMA MarksOfV4 ==
    ASSUME T4!IInv, shown = trades, bar = Len(series)
    PROVE  C4!MarksInPicture({shown[k] : k \in C4!Selected}, C4!PlotTrade)
<1>1. Len(series) \in Nat
  BY DEF T4!IInv
<1>2. \A k \in 1 .. Len(shown) : Drawable(shown[k])
  BY T4!TradeFits DEF Drawable
<1>3. \A t \in {shown[k] : k \in C4!Selected} : Drawable(t)
  BY <1>2, SelectedAre
<1>4. QED
  BY <1>1, <1>3, MarksDrawn

-----------------------------------------------------------------------------
(* Version 5. *)
T5 == INSTANCE Simulations_proofs WITH
    SignalAt <- V5!SignalAt, WarmUp <- LEVEL_WINDOW_H,
    MinBars <- LEVEL_WINDOW_H + LongHold + Spare,
    MaxHolding <- LongHold, RiskReward <- 3, MinStop <- 5, TakerFee <- 14

LEMMA ParamsV5 == T5!Params
<1>1. ASSUME NEW at \in T5!Bars, V5!SignalAt(at.of, at.i) # None
      PROVE  V5!SignalAt(at.of, at.i).low \in Int
  <2>1. at.of \in Seq(Candles) /\ at.i \in Nat /\ at.i < Len(at.of)
    BY DEF T5!Bars, T5!Candles, T5!Price, Candles
  <2>2. V5!TriggerAt(at.of, at.i) # None
           => V5!TriggerAt(at.of, at.i).low \in Int
    BY <2>1, LowOfCandle DEF V5!TriggerAt, V5!PinAt, V5!RailsAt, V5!At, V5!Low
  <2>3. /\ V5!TriggerAt(at.of, at.i) # None
        /\ V5!SignalAt(at.of, at.i).low = V5!TriggerAt(at.of, at.i).low
    BY <1>1 DEF V5!SignalAt, V5!Signal
  <2>4. QED
    BY <2>2, <2>3
<1>2. \A signal \in T5!Signals : signal.low \in Int
  BY <1>1, Zenon DEF T5!Signals
<1>3. QED
  BY <1>2, PinBarParams DEF T5!Params

LEMMA BarOfV5 ==
    ASSUME V5!Bar
    PROVE  T5!Bar
  BY Zenon
     DEF V5!Bar, V5!Simulation!Bar, T5!Bar,
         V5!Simulation!Hold, V5!Simulation!Close, V5!Simulation!Enter,
         V5!Simulation!Skip, V5!Simulation!Open, V5!Simulation!Last,
         V5!Simulation!ExitReason, V5!Simulation!ExitPrice,
         V5!Simulation!Candle, V5!Simulation!Stop, V5!Simulation!TooTight,
         V5!Simulation!NewTrade, T5!Hold, T5!Close, T5!Enter, T5!Skip,
         T5!Open, T5!Last, T5!ExitReason, T5!ExitPrice, T5!Candle, T5!Stop,
         T5!TooTight, T5!NewTrade

LEMMA StepV5 ==
    ASSUME T5!IInv
    PROVE  /\ \A candles \in Series : V5!Load(candles) => T5!IInv'
           /\ V5!Bar => T5!IInv'
           /\ UNCHANGED <<series, bar, trades>> => T5!IInv'
<1>1. ASSUME NEW candles \in Series, V5!Load(candles)
      PROVE  T5!IInv'
  <2>1. T5!Load(candles)
    BY <1>1 DEF V5!Load, V5!Simulation!Load, T5!Load
  <2>2. candles \in Seq(T5!Candles)
    BY PinBarParams DEF T5!Candles, T5!Price
  <2>3. QED
    BY <2>1, <2>2, ParamsV5, T5!LoadStep
<1>2. ASSUME V5!Bar PROVE T5!IInv'
  <2>1. T5!Bar
    BY <1>2, BarOfV5
  <2>2. QED
    BY <2>1, ParamsV5, T5!BarStep
<1>3. ASSUME UNCHANGED <<series, bar, trades>> PROVE T5!IInv'
  BY <1>3, T5!Unchanged DEF T5!vars
<1>4. QED
  BY <1>1, <1>2, <1>3

LEMMA SoundV5 ==
    ASSUME T5!IInv
    PROVE  V4!Simulation!TradesSound
<1>1. T5!TradesSound
  BY ParamsV5, T5!InvariantTradesSound
<1>2. QED
  BY <1>1
     DEF T5!TradesSound, V4!Simulation!TradesSound,
         T5!TradesInOrder, V4!Simulation!TradesInOrder,
         T5!HoldingBounded, V4!Simulation!HoldingBounded,
         T5!ExitIsWorst, V4!Simulation!ExitIsWorst

LEMMA ReportV5 ==
    ASSUME T5!IInv
    PROVE  V4!Simulation!ReportMatchesExits
<1>1. T5!ReportMatchesExits
  BY ParamsV5, T5!InvariantReportMatchesExits
<1>2. \A t : V4!Simulation!Wins(t) <=> T5!Wins(t)
  BY DEF V4!Simulation!Wins, T5!Wins
<1>a. \A A : V4!Simulation!Cardinality(A) = T5!Cardinality(A)
  BY DEF V4!Simulation!Cardinality, T5!Cardinality
<1>3. /\ V4!Simulation!Report.wins = T5!Report.wins
      /\ V4!Simulation!Report.losses = T5!Report.losses
      /\ V4!Simulation!Report.reasons = T5!Report.reasons
  BY <1>2, <1>a DEF V4!Simulation!Report, T5!Report, V4!Simulation!Counted, T5!Counted
<1>4. V4!Simulation!ProfitPays
  BY <1>1, <1>2 DEF T5!ReportMatchesExits, T5!ProfitPays, V4!Simulation!ProfitPays
<1>5. QED
  BY <1>1, <1>3, <1>4 DEF T5!ReportMatchesExits, V4!Simulation!ReportMatchesExits

LEMMA ChartFollowsV5 ==
    ASSUME shown = trades, V5!Bar, C5!Bar
    PROVE  shown' = trades'
<1>1. trades' = T5!TradesNext
  BY BarOfV5, T5!BarMakes
<1>2. C5!Simulation!Last = T5!Last /\ (C5!Simulation!Open <=> T5!Open)
  BY DEF C5!Simulation!Last, T5!Last, C5!Simulation!Open, T5!Open
<1>3. \A t, i : C5!Simulation!ExitReason(t, i) = T5!ExitReason(t, i)
  BY Zenon DEF C5!Simulation!ExitReason, T5!ExitReason
<1>4. \A t, r : C5!Simulation!ExitPrice(t, r) = T5!ExitPrice(t, r)
  BY Zenon DEF C5!Simulation!ExitPrice, T5!ExitPrice, C5!Simulation!Candle, T5!Candle
<1>5. \A signal : /\ C5!Simulation!NewTrade(signal) = T5!NewTrade(signal)
                  /\ C5!Simulation!TooTight(signal) <=> T5!TooTight(signal)
  BY DEF C5!Simulation!NewTrade, T5!NewTrade, C5!Simulation!Candle, T5!Candle,
         C5!Simulation!Stop, T5!Stop, C5!Simulation!TooTight, T5!TooTight
<1>6. C5!SignalAt(series, bar) = V5!SignalAt(series, bar)
  BY SignalsOfChartV5
<1>7. shown' = T5!TradesNext
  <2>1. CASE C5!Simulation!Close
    BY <1>2, <1>3, <1>4, <2>1 DEF C5!Simulation!Close, T5!TradesNext
  <2>2. CASE C5!Simulation!Enter
    BY <1>2, <1>5, <1>6, <2>2 DEF C5!Simulation!Enter, T5!TradesNext
  <2>3. CASE C5!Simulation!Hold
    BY <1>2, <1>3, <2>3 DEF C5!Simulation!Hold, T5!TradesNext
  <2>4. CASE C5!Simulation!Skip
    BY <1>2, <1>5, <1>6, <2>4 DEF C5!Simulation!Skip, T5!TradesNext
  <2>5. QED
    BY <2>1, <2>2, <2>3, <2>4 DEF C5!Bar, C5!Simulation!Bar
<1>8. QED
  BY <1>1, <1>7

LEMMA MarksOfV5 ==
    ASSUME T5!IInv, shown = trades, bar = Len(series)
    PROVE  C5!MarksInPicture({shown[k] : k \in C5!Selected}, C5!PlotTrade)
<1>1. Len(series) \in Nat
  BY DEF T5!IInv
<1>2. \A k \in 1 .. Len(shown) : Drawable(shown[k])
  BY T5!TradeFits DEF Drawable
<1>3. \A t \in {shown[k] : k \in C5!Selected} : Drawable(t)
  BY <1>2, SelectedAre
<1>4. QED
  BY <1>1, <1>3, MarksDrawn

-----------------------------------------------------------------------------
(* Version 6. *)
T6 == INSTANCE Simulations_proofs WITH
    SignalAt <- V67!SignalAtV6, WarmUp <- LEVEL_WINDOW_H,
    MinBars <- LEVEL_WINDOW_H + LongHold + Spare,
    MaxHolding <- LongHold, RiskReward <- 3, MinStop <- 5, TakerFee <- 14

LEMMA ParamsV6 == T6!Params
<1>1. ASSUME NEW at \in T6!Bars, V67!SignalAtV6(at.of, at.i) # None
      PROVE  V67!SignalAtV6(at.of, at.i).low \in Int
  <2>1. at.of \in Seq(Candles) /\ at.i \in Nat /\ at.i < Len(at.of)
    BY DEF T6!Bars, T6!Candles, T6!Price, Candles
  <2>2. V67!TriggerAtV6(at.of, at.i) # None
           => V67!TriggerAtV6(at.of, at.i).low \in Int
    BY <2>1, LowOfCandle
       DEF V67!TriggerAtV6, V67!PinAt, V67!RailsAt, V67!At, V67!Low
  <2>3. /\ V67!TriggerAtV6(at.of, at.i) # None
        /\ V67!SignalAtV6(at.of, at.i).low = V67!TriggerAtV6(at.of, at.i).low
    BY <1>1 DEF V67!SignalAtV6, V67!Signal
  <2>4. QED
    BY <2>2, <2>3
<1>2. \A signal \in T6!Signals : signal.low \in Int
  BY <1>1, Zenon DEF T6!Signals
<1>3. QED
  BY <1>2, PinBarParams DEF T6!Params

LEMMA StepV6 ==
    ASSUME T6!IInv
    PROVE  /\ \A candles \in Series : V67!LoadV6(candles) => T6!IInv'
           /\ V67!BarV6 => T6!IInv'
           /\ UNCHANGED <<series, bar, trades>> => T6!IInv'
<1>1. ASSUME NEW candles \in Series, V67!LoadV6(candles)
      PROVE  T6!IInv'
  <2>1. T6!Load(candles)
    BY <1>1 DEF V67!LoadV6, V67!SimulationV6!Load, T6!Load
  <2>2. candles \in Seq(T6!Candles)
    BY PinBarParams DEF T6!Candles, T6!Price
  <2>3. QED
    BY <2>1, <2>2, ParamsV6, T6!LoadStep
<1>2. ASSUME V67!BarV6 PROVE T6!IInv'
  <2>1. T6!Bar
    BY <1>2, Zenon
       DEF V67!BarV6, V67!SimulationV6!Bar, T6!Bar,
           V67!SimulationV6!Hold, V67!SimulationV6!Close,
           V67!SimulationV6!Enter, V67!SimulationV6!Skip, V67!SimulationV6!Open,
           V67!SimulationV6!Last, V67!SimulationV6!ExitReason,
           V67!SimulationV6!ExitPrice, V67!SimulationV6!Candle,
           V67!SimulationV6!Stop, V67!SimulationV6!TooTight,
           V67!SimulationV6!NewTrade, T6!Hold, T6!Close, T6!Enter, T6!Skip,
           T6!Open, T6!Last, T6!ExitReason, T6!ExitPrice, T6!Candle, T6!Stop,
           T6!TooTight, T6!NewTrade
  <2>2. QED
    BY <2>1, ParamsV6, T6!BarStep
<1>3. ASSUME UNCHANGED <<series, bar, trades>> PROVE T6!IInv'
  BY <1>3, T6!Unchanged DEF T6!vars
<1>4. QED
  BY <1>1, <1>2, <1>3

LEMMA SoundV6 ==
    ASSUME T6!IInv
    PROVE  V4!Simulation!TradesSound
<1>1. T6!TradesSound
  BY ParamsV6, T6!InvariantTradesSound
<1>2. QED
  BY <1>1
     DEF T6!TradesSound, V4!Simulation!TradesSound,
         T6!TradesInOrder, V4!Simulation!TradesInOrder,
         T6!HoldingBounded, V4!Simulation!HoldingBounded,
         T6!ExitIsWorst, V4!Simulation!ExitIsWorst

LEMMA ReportV6 ==
    ASSUME T6!IInv
    PROVE  V4!Simulation!ReportMatchesExits
<1>1. T6!ReportMatchesExits
  BY ParamsV6, T6!InvariantReportMatchesExits
<1>2. \A t : V4!Simulation!Wins(t) <=> T6!Wins(t)
  BY DEF V4!Simulation!Wins, T6!Wins
<1>a. \A A : V4!Simulation!Cardinality(A) = T6!Cardinality(A)
  BY DEF V4!Simulation!Cardinality, T6!Cardinality
<1>3. /\ V4!Simulation!Report.wins = T6!Report.wins
      /\ V4!Simulation!Report.losses = T6!Report.losses
      /\ V4!Simulation!Report.reasons = T6!Report.reasons
  BY <1>2, <1>a DEF V4!Simulation!Report, T6!Report, V4!Simulation!Counted, T6!Counted
<1>4. V4!Simulation!ProfitPays
  BY <1>1, <1>2 DEF T6!ReportMatchesExits, T6!ProfitPays, V4!Simulation!ProfitPays
<1>5. QED
  BY <1>1, <1>3, <1>4 DEF T6!ReportMatchesExits, V4!Simulation!ReportMatchesExits

LEMMA MarksOfV6 ==
    ASSUME T6!IInv, bar = Len(series)
    PROVE  C67!MarksInPicture({trades[k] : k \in C67!Selected}, C67!PlotTrade)
<1>1. Len(series) \in Nat
  BY DEF T6!IInv
<1>2. \A k \in 1 .. Len(trades) : Drawable(trades[k])
  BY T6!TradeFits DEF Drawable
<1>3. \A t \in {trades[k] : k \in C67!Selected} : Drawable(t)
  BY <1>2, SelectedAre
<1>4. QED
  BY <1>1, <1>3, MarksDrawn

LEMMA LevelOfV6 ==
    ASSUME T6!IInv, NEW k \in 1 .. Len(trades)
    PROVE  LET level == C67!FindLevelForTradeV6(trades[k])
           IN  /\ level # None
               /\ level.lower = trades[k].signal.lower
               /\ level.upper = trades[k].signal.upper
               /\ level.score = trades[k].signal.score
<1>1. PICK t : t = trades[k]
  OBVIOUS
<1>2. t \in T6!Trade /\ T6!Entered(t)
  BY <1>1, T6!TradeIs
<1>3. t.signal \in T6!Signals /\ t.signal # None
  BY <1>2 DEF T6!Trade, T6!Signals
<1>4. t.signal.low \in Int
  BY <1>3, ParamsV6 DEF T6!Params
<1>5. t.signal = V67!SignalAtV6(series, t.entry) /\ t.stop = t.signal.low * 999
  BY <1>2 DEF T6!Entered, T6!Stop
<1>6. QED
  BY <1>1, <1>3, <1>4, <1>5, ChartedV6

-----------------------------------------------------------------------------
(* Version 7. *)
T7 == INSTANCE Simulations_proofs WITH
    SignalAt <- V67!SignalAtV7, WarmUp <- LEVEL_WINDOW_H,
    MinBars <- LEVEL_WINDOW_H + LongHold + Spare,
    MaxHolding <- LongHold, RiskReward <- 3, MinStop <- 5, TakerFee <- 14

LEMMA ParamsV7 == T7!Params
<1>1. ASSUME NEW at \in T7!Bars, V67!SignalAtV7(at.of, at.i) # None
      PROVE  V67!SignalAtV7(at.of, at.i).low \in Int
  <2>1. at.of \in Seq(Candles) /\ at.i \in Nat /\ at.i < Len(at.of)
    BY DEF T7!Bars, T7!Candles, T7!Price, Candles
  <2>2. V67!TriggerAtV7(at.of, at.i) # None
           => V67!TriggerAtV7(at.of, at.i).low \in Int
    <3>1. \/ V67!TriggerAtV7(at.of, at.i) \in {None, V67!PinAt(at.of, at.i)}
          \/ /\ at.i >= 1
             /\ V67!TriggerAtV7(at.of, at.i) = V67!RailsAt(at.of, at.i)
      BY Zenon DEF V67!TriggerAtV7
    <3>2. QED
      BY <2>1, <3>1, LowOfCandle DEF V67!PinAt, V67!RailsAt, V67!At, V67!Low
  <2>3. /\ V67!TriggerAtV7(at.of, at.i) # None
        /\ V67!SignalAtV7(at.of, at.i).low = V67!TriggerAtV7(at.of, at.i).low
    BY <1>1 DEF V67!SignalAtV7, V67!Signal
  <2>4. QED
    BY <2>2, <2>3
<1>2. \A signal \in T7!Signals : signal.low \in Int
  BY <1>1, Zenon DEF T7!Signals
<1>3. QED
  BY <1>2, PinBarParams DEF T7!Params

LEMMA StepV7 ==
    ASSUME T7!IInv
    PROVE  /\ \A candles \in Series : V67!LoadV7(candles) => T7!IInv'
           /\ V67!BarV7 => T7!IInv'
           /\ UNCHANGED <<series, bar, trades>> => T7!IInv'
<1>1. ASSUME NEW candles \in Series, V67!LoadV7(candles)
      PROVE  T7!IInv'
  <2>1. T7!Load(candles)
    BY <1>1 DEF V67!LoadV7, V67!SimulationV7!Load, T7!Load
  <2>2. candles \in Seq(T7!Candles)
    BY PinBarParams DEF T7!Candles, T7!Price
  <2>3. QED
    BY <2>1, <2>2, ParamsV7, T7!LoadStep
<1>2. ASSUME V67!BarV7 PROVE T7!IInv'
  <2>1. T7!Bar
    BY <1>2, Zenon
       DEF V67!BarV7, V67!SimulationV7!Bar, T7!Bar,
           V67!SimulationV7!Hold, V67!SimulationV7!Close,
           V67!SimulationV7!Enter, V67!SimulationV7!Skip, V67!SimulationV7!Open,
           V67!SimulationV7!Last, V67!SimulationV7!ExitReason,
           V67!SimulationV7!ExitPrice, V67!SimulationV7!Candle,
           V67!SimulationV7!Stop, V67!SimulationV7!TooTight,
           V67!SimulationV7!NewTrade, T7!Hold, T7!Close, T7!Enter, T7!Skip,
           T7!Open, T7!Last, T7!ExitReason, T7!ExitPrice, T7!Candle, T7!Stop,
           T7!TooTight, T7!NewTrade
  <2>2. QED
    BY <2>1, ParamsV7, T7!BarStep
<1>3. ASSUME UNCHANGED <<series, bar, trades>> PROVE T7!IInv'
  BY <1>3, T7!Unchanged DEF T7!vars
<1>4. QED
  BY <1>1, <1>2, <1>3

LEMMA SoundV7 ==
    ASSUME T7!IInv
    PROVE  V4!Simulation!TradesSound
<1>1. T7!TradesSound
  BY ParamsV7, T7!InvariantTradesSound
<1>2. QED
  BY <1>1
     DEF T7!TradesSound, V4!Simulation!TradesSound,
         T7!TradesInOrder, V4!Simulation!TradesInOrder,
         T7!HoldingBounded, V4!Simulation!HoldingBounded,
         T7!ExitIsWorst, V4!Simulation!ExitIsWorst

LEMMA ReportV7 ==
    ASSUME T7!IInv
    PROVE  V4!Simulation!ReportMatchesExits
<1>1. T7!ReportMatchesExits
  BY ParamsV7, T7!InvariantReportMatchesExits
<1>2. \A t : V4!Simulation!Wins(t) <=> T7!Wins(t)
  BY DEF V4!Simulation!Wins, T7!Wins
<1>a. \A A : V4!Simulation!Cardinality(A) = T7!Cardinality(A)
  BY DEF V4!Simulation!Cardinality, T7!Cardinality
<1>3. /\ V4!Simulation!Report.wins = T7!Report.wins
      /\ V4!Simulation!Report.losses = T7!Report.losses
      /\ V4!Simulation!Report.reasons = T7!Report.reasons
  BY <1>2, <1>a DEF V4!Simulation!Report, T7!Report, V4!Simulation!Counted, T7!Counted
<1>4. V4!Simulation!ProfitPays
  BY <1>1, <1>2 DEF T7!ReportMatchesExits, T7!ProfitPays, V4!Simulation!ProfitPays
<1>5. QED
  BY <1>1, <1>3, <1>4 DEF T7!ReportMatchesExits, V4!Simulation!ReportMatchesExits

LEMMA MarksOfV7 ==
    ASSUME T7!IInv, bar = Len(series)
    PROVE  C67!MarksInPicture({trades[k] : k \in C67!Selected}, C67!PlotTrade)
<1>1. Len(series) \in Nat
  BY DEF T7!IInv
<1>2. \A k \in 1 .. Len(trades) : Drawable(trades[k])
  BY T7!TradeFits DEF Drawable
<1>3. \A t \in {trades[k] : k \in C67!Selected} : Drawable(t)
  BY <1>2, SelectedAre
<1>4. QED
  BY <1>1, <1>3, MarksDrawn

LEMMA LevelOfV7 ==
    ASSUME T7!IInv, NEW k \in 1 .. Len(trades)
    PROVE  LET level == C67!FindLevelForTradeV7(trades[k])
           IN  /\ level # None
               /\ level.lower = trades[k].signal.lower
               /\ level.upper = trades[k].signal.upper
               /\ level.score = trades[k].signal.score
<1>1. PICK t : t = trades[k]
  OBVIOUS
<1>2. t \in T7!Trade /\ T7!Entered(t)
  BY <1>1, T7!TradeIs
<1>3. t.signal \in T7!Signals /\ t.signal # None
  BY <1>2 DEF T7!Trade, T7!Signals
<1>4. t.signal.low \in Int
  BY <1>3, ParamsV7 DEF T7!Params
<1>5. t.signal = V67!SignalAtV7(series, t.entry) /\ t.stop = t.signal.low * 999
  BY <1>2 DEF T7!Entered, T7!Stop
<1>6. QED
  BY <1>1, <1>3, <1>4, <1>5, ChartedV7

-----------------------------------------------------------------------------
PinInv ==
    /\ part = "v1" => T1!IInv
    /\ part = "v2" => T2!IInv
    /\ part = "v3" => T3!IInv
    /\ part = "v4" => T4!IInv
    /\ part = "v5" => T5!IInv
    /\ part = "v6" => T6!IInv
    /\ part = "v7" => T7!IInv

(* v1 starts where its window is full, and the levels are those of a series *)
(* that was read.                                                           *)
LevelsInv ==
    /\ part \in {"v1", "v2", "v3", "v4", "v5", "v6", "v7"} => series \in Seq(Candles)
    /\ part = "levels" => series = << >> \/ series \in Series
    /\ part = "v1" /\ series # << >> /\ bar < Len(series) => bar >= LEVEL_WINDOW_H

LEMMA PinInit == Init => PinInv
  BY DEF Init, PinInv, T1!IInv, T2!IInv, T3!IInv, T4!IInv, T5!IInv, T6!IInv, T7!IInv

LEMMA PinStep ==
    ASSUME PinInv, PinBars \/ UNCHANGED <<part, pinVars>>
    PROVE  PinInv'
<1>1. part' = part
  BY DEF PinBars, pinVars
<1>2. ASSUME part = "v1" PROVE T1!IInv'
  <2>1. T1!IInv
    BY <1>2 DEF PinInv
  <2>2. \/ \E candles \in Series : V1!Load(candles)
        \/ V1!Bar
        \/ UNCHANGED <<series, bar, trades>>
    BY <1>2 DEF PinBars, Simulate, Walk, Alone, Both, pinVars
  <2>3. QED
    BY <2>1, <2>2, StepV1
<1>3. ASSUME part = "v2" PROVE T2!IInv'
  <2>1. T2!IInv
    BY <1>3 DEF PinInv
  <2>2. \/ \E candles \in Series : V23!LoadV2(candles)
        \/ V23!BarV2
        \/ UNCHANGED <<series, bar, trades>>
    BY <1>3 DEF PinBars, Simulate, Walk, Alone, Both, pinVars
  <2>3. QED
    BY <2>1, <2>2, StepV2
<1>4. ASSUME part = "v3" PROVE T3!IInv'
  <2>1. T3!IInv
    BY <1>4 DEF PinInv
  <2>2. \/ \E candles \in Series : V23!LoadV3(candles)
        \/ V23!BarV3
        \/ UNCHANGED <<series, bar, trades>>
    BY <1>4 DEF PinBars, Simulate, Walk, Alone, Both, pinVars
  <2>3. QED
    BY <2>1, <2>2, StepV3
<1>5. ASSUME part = "v4" PROVE T4!IInv'
  <2>1. T4!IInv
    BY <1>5 DEF PinInv
  <2>2. \/ \E candles \in Series : V4!Load(candles)
        \/ V4!Bar
        \/ UNCHANGED <<series, bar, trades>>
    BY <1>5 DEF PinBars, Simulate, Walk, Alone, Both, pinVars
  <2>3. QED
    BY <2>1, <2>2, StepV4
<1>6. ASSUME part = "v5" PROVE T5!IInv'
  <2>1. T5!IInv
    BY <1>6 DEF PinInv
  <2>2. \/ \E candles \in Series : V5!Load(candles)
        \/ V5!Bar
        \/ UNCHANGED <<series, bar, trades>>
    BY <1>6 DEF PinBars, Simulate, Walk, Alone, Both, pinVars
  <2>3. QED
    BY <2>1, <2>2, StepV5
<1>7. ASSUME part = "v6" PROVE T6!IInv'
  <2>1. T6!IInv
    BY <1>7 DEF PinInv
  <2>2. \/ \E candles \in Series : V67!LoadV6(candles)
        \/ V67!BarV6
        \/ UNCHANGED <<series, bar, trades>>
    BY <1>7 DEF PinBars, Simulate, Walk, Alone, Both, pinVars
  <2>3. QED
    BY <2>1, <2>2, StepV6
<1>8. ASSUME part = "v7" PROVE T7!IInv'
  <2>1. T7!IInv
    BY <1>8 DEF PinInv
  <2>2. \/ \E candles \in Series : V67!LoadV7(candles)
        \/ V67!BarV7
        \/ UNCHANGED <<series, bar, trades>>
    BY <1>8 DEF PinBars, Simulate, Walk, Alone, Both, pinVars
  <2>3. QED
    BY <2>1, <2>2, StepV7
<1>9. QED
  BY <1>1, <1>2, <1>3, <1>4, <1>5, <1>6, <1>7, <1>8 DEF PinInv

LEMMA LevelsInit == Init => LevelsInv
  BY DEF Init, LevelsInv

LEMMA LevelsStep ==
    ASSUME PinInv, LevelsInv, PinBars \/ UNCHANGED <<part, pinVars>>
    PROVE  LevelsInv'
<1>1. part' = part /\ LEVEL_WINDOW_H \in Nat /\ Series \subseteq Seq(Candles)
  BY PinBarParams DEF PinBars, pinVars, Candles
<1>2. \/ \E candles \in Series : series' = candles /\ series = << >>
      \/ UNCHANGED series
  BY Zenon
     DEF PinBars, pinVars, Simulate, Walk, Alone, Both, V1!Bar, V1!Simulation!Bar,
         V23!BarV2, V23!SimulationV2!Bar, V23!BarV3, V23!SimulationV3!Bar,
         V4!Bar, V4!Simulation!Bar, V5!Bar, V5!Simulation!Bar,
         V67!BarV6, V67!SimulationV6!Bar, V67!BarV7, V67!SimulationV7!Bar,
         V1!Load, V1!Simulation!Load, V23!LoadV2, V23!SimulationV2!Load,
         V23!LoadV3, V23!SimulationV3!Load, V4!Load, V4!Simulation!Load,
         V5!Load, V5!Simulation!Load, V67!LoadV6, V67!SimulationV6!Load,
         V67!LoadV7, V67!SimulationV7!Load
<1>3. ASSUME part = "v1"
      PROVE  series' # << >> /\ bar' < Len(series') => bar' >= LEVEL_WINDOW_H
  <2>1. \/ \E candles \in Series : V1!Load(candles)
        \/ V1!Bar
        \/ UNCHANGED <<series, bar, trades>>
    BY <1>3 DEF PinBars, Simulate, Walk, Alone, Both, pinVars
  <2>2. series \in Seq(Candles) /\ bar \in Nat
    BY <1>3 DEF PinInv, LevelsInv, T1!IInv
  <2>3. series # << >> /\ bar < Len(series) => bar >= LEVEL_WINDOW_H
    BY <1>3 DEF LevelsInv
  <2>4. ASSUME NEW candles \in Series, V1!Load(candles)
        PROVE  bar' < Len(series') => bar' >= LEVEL_WINDOW_H
    <3>1. candles \in Seq(Candles)
      BY <1>1
    <3>2. series' = candles /\ bar' \in {Len(candles), LEVEL_WINDOW_H}
      BY <2>4, Zenon DEF V1!Load, V1!Simulation!Load
    <3>3. QED
      BY <1>1, <3>1, <3>2
  <2>5. ASSUME V1!Bar
        PROVE  bar' >= LEVEL_WINDOW_H
    <3>1. bar < Len(series) /\ bar' = bar + 1
      BY <2>5, Zenon DEF V1!Bar, V1!Simulation!Bar
    <3>2. series # << >>
      BY <2>2, <3>1
    <3>3. QED
      BY <1>1, <2>2, <2>3, <3>1, <3>2
  <2>6. QED
    BY <2>1, <2>3, <2>4, <2>5
<1>4. QED
  BY <1>1, <1>2, <1>3 DEF LevelsInv

(* The levels, when the invariants hold.                                    *)
LEMMA LevelsKnown ==
    ASSUME PinInv, LevelsInv
    PROVE  LevelsSound
<1>1. ASSUME part \in {"v1", "v2", "v3", "v4", "v5", "v6", "v7"}
      PROVE  series \in Seq(Candles) /\ bar \in Nat
  BY <1>1 DEF PinInv, LevelsInv, T1!IInv, T2!IInv, T3!IInv, T4!IInv, T5!IInv, T6!IInv, T7!IInv
<1>2. ASSUME part \in {"v1", "v2", "v3", "v4", "v5", "v6", "v7"}, bar > 0, bar < Len(series)
      PROVE  /\ Agree(series, SubSeq(series, 1, bar + 1), bar)
             /\ bar \in Nat
             /\ part = "v1" => bar >= LEVEL_WINDOW_H
  <2>1. series \in Seq(Candles) /\ bar \in Nat
    BY <1>1, <1>2
  <2>2. \A j \in 1 .. bar + 1 : SubSeq(series, 1, bar + 1)[j] = series[j]
    BY <1>2, <2>1
  <2>3. series # << >>
    BY <1>2, <2>1
  <2>4. QED
    BY <1>2, <2>1, <2>2, <2>3 DEF Agree, LevelsInv
<1>3. LevelsCausal
  <2>1. SUFFICES ASSUME bar > 0, bar < Len(series)
                 PROVE  LET known == SubSeq(series, 1, bar + 1)
                        IN  /\ part = "v1" => V1!SignalAt(known, bar) = V1!SignalAt(series, bar)
                            /\ part = "v3" =>
                                  V23!SignalAtV3(known, bar) = V23!SignalAtV3(series, bar)
                            /\ part = "v4" => V4!SignalAt(known, bar) = V4!SignalAt(series, bar)
                            /\ part = "v5" => V5!SignalAt(known, bar) = V5!SignalAt(series, bar)
                            /\ part = "v6" => V67!SignalAtV6(known, bar) = V67!SignalAtV6(series, bar)
                            /\ part = "v7" => V67!SignalAtV7(known, bar) = V67!SignalAtV7(series, bar)
    BY Zenon DEF LevelsCausal
  <2> DEFINE known == SubSeq(series, 1, bar + 1)
  <2>2. /\ part \in {"v1", "v3", "v4", "v5", "v6", "v7"} => Agree(series, known, bar) /\ bar \in Nat
        /\ part = "v1" => bar >= LEVEL_WINDOW_H
    BY <1>2, <2>1
  <2> HIDE DEF known
  <2>3. part = "v1" => V1!SignalAt(known, bar) = V1!SignalAt(series, bar)
    BY <2>2, CausalV1
  <2>4. part = "v3" => V23!SignalAtV3(known, bar) = V23!SignalAtV3(series, bar)
    BY <2>2, CausalV3
  <2>5. part = "v4" => V4!SignalAt(known, bar) = V4!SignalAt(series, bar)
    BY <2>2, CausalV4
  <2>6. part = "v5" => V5!SignalAt(known, bar) = V5!SignalAt(series, bar)
    BY <2>2, CausalV5
  <2>7. part = "v6" => V67!SignalAtV6(known, bar) = V67!SignalAtV6(series, bar)
    BY <2>2, CausalV6
  <2>8. part = "v7" => V67!SignalAtV7(known, bar) = V67!SignalAtV7(series, bar)
    BY <2>2, CausalV7
  <2>9. QED
    BY <2>3, <2>4, <2>5, <2>6, <2>7, <2>8, Zenon DEF known
<1>4. ASSUME part = "levels", series # << >>
      PROVE  /\ V4!Detector!ClustersAreChains(V4!Clusters(series), series)
             /\ V4!Detector!VisitsAreTouches(series)
  <2>1. series \in Series
    BY <1>4 DEF LevelsInv
  <2>2. series \in Seq(Candles)
    BY <2>1, PinBarParams DEF Candles
  <2>3. Len(series) \in Nat
    BY <2>2
  <2>4. QED
    BY <2>2, <2>3, ClustersChain, VisitsTouch
<1>5. QED
  BY <1>3, <1>4, Zenon DEF LevelsSound

LEMMA PinSound ==
    ASSUME PinInv
    PROVE  TradesSound
<1>1. part = "v1" => V1!Simulation!TradesSound
  BY SoundV1 DEF PinInv
<1>2. part = "v2" => V1!Simulation!TradesSound
  BY SoundV2 DEF PinInv
<1>3. part = "v3" => V1!Simulation!TradesSound
  BY SoundV3 DEF PinInv
<1>4. part = "v4" => V4!Simulation!TradesSound
  BY SoundV4 DEF PinInv
<1>5. part = "v5" => V4!Simulation!TradesSound
  BY SoundV5 DEF PinInv
<1>6. part = "v6" => V4!Simulation!TradesSound
  BY SoundV6 DEF PinInv
<1>7. part = "v7" => V4!Simulation!TradesSound
  BY SoundV7 DEF PinInv
<1>8. QED
  BY <1>1, <1>2, <1>3, <1>4, <1>5, <1>6, <1>7 DEF TradesSound

LEMMA PinReport ==
    ASSUME PinInv
    PROVE  ReportMatchesExits
<1>1. part = "v1" => V1!Simulation!ReportMatchesExits
  BY ReportV1 DEF PinInv
<1>2. part = "v2" => V23!SimulationV2!ReportMatchesExits
  BY ReportV2 DEF PinInv
<1>3. part = "v3" => V23!SimulationV3!ReportMatchesExits
  BY ReportV3 DEF PinInv
<1>4. part = "v4" => V4!Simulation!ReportMatchesExits
  BY ReportV4 DEF PinInv
<1>5. part = "v5" => V4!Simulation!ReportMatchesExits
  BY ReportV5 DEF PinInv
<1>6. part = "v6" => V4!Simulation!ReportMatchesExits
  BY ReportV6 DEF PinInv
<1>7. part = "v7" => V4!Simulation!ReportMatchesExits
  BY ReportV7 DEF PinInv
<1>8. QED
  BY <1>1, <1>2, <1>3, <1>4, <1>5, <1>6, <1>7 DEF ReportMatchesExits

-----------------------------------------------------------------------------
(* The charts follow the backtests, and what they draw is true. *)
LEMMA ChartsInit == Init => ChartsAgree
  BY DEF Init, ChartsAgree

LEMMA ChartsStep ==
    ASSUME ChartsAgree, PinBars \/ UNCHANGED <<part, pinVars>>
    PROVE  ChartsAgree'
<1>1. part' = part
  BY DEF PinBars, pinVars
<1>2. ASSUME part \in {"v3", "v4", "v5"} PROVE shown' = trades'
  <2>1. shown = trades
    BY <1>2 DEF ChartsAgree
  <2>2. CASE UNCHANGED pinVars
    BY <2>1, <2>2 DEF pinVars
  <2>3. CASE \E candles \in Series : Simulate(candles)
    <3>1. UNCHANGED <<trades, shown>>
      BY <1>2, <2>3
         DEF Simulate, Alone, Both, V23!LoadV3, V23!SimulationV3!Load, C3!Load,
             C3!Simulation!Load, V4!Load, V4!Simulation!Load, C4!Load,
             C4!Simulation!Load, V5!Load, V5!Simulation!Load, C5!Load,
             C5!Simulation!Load
    <3>2. QED
      BY <2>1, <3>1
  <2>4. CASE Walk
    <3>1. \/ V23!BarV3 /\ C3!Bar
          \/ V4!Bar /\ C4!Bar
          \/ V5!Bar /\ C5!Bar
      BY <1>2, <2>4 DEF Walk, Alone, Both
    <3>2. QED
      BY <2>1, <3>1, ChartFollowsV3, ChartFollowsV4, ChartFollowsV5
  <2>5. QED
    BY <2>2, <2>3, <2>4 DEF PinBars
<1>3. QED
  BY <1>1, <1>2 DEF ChartsAgree

(* What every version draws can be drawn. *)
LEMMA MarksTrue ==
    ASSUME PinInv, ChartsAgree
    PROVE  TradeMarksInPicture
<1>1. ASSUME part = "v3", bar = Len(series), shown # << >>
      PROVE  C3!MarksInPicture({shown[C3!ChosenTrade]}, C3!PlotTrade)
  BY <1>1, MarksOfV3 DEF PinInv, ChartsAgree
<1>2. ASSUME part = "v4", bar = Len(series)
      PROVE  C4!MarksInPicture({shown[k] : k \in C4!Selected}, C4!PlotTrade)
  BY <1>2, MarksOfV4 DEF PinInv, ChartsAgree
<1>3. ASSUME part = "v5", bar = Len(series)
      PROVE  C5!MarksInPicture({shown[k] : k \in C5!Selected}, C5!PlotTrade)
  BY <1>3, MarksOfV5 DEF PinInv, ChartsAgree
<1>4. ASSUME part = "v6", bar = Len(series)
      PROVE  C67!MarksInPicture({trades[k] : k \in C67!Selected}, C67!PlotTrade)
  BY <1>4, MarksOfV6 DEF PinInv
<1>5. ASSUME part = "v7", bar = Len(series)
      PROVE  C67!MarksInPicture({trades[k] : k \in C67!Selected}, C67!PlotTrade)
  BY <1>5, MarksOfV7 DEF PinInv
<1>6. QED
  BY <1>1, <1>2, <1>3, <1>4, <1>5 DEF TradeMarksInPicture

(* And the level that is drawn is the one that the trade was entered at. *)
LEMMA LevelsTrue ==
    ASSUME PinInv
    PROVE  ChartedLevel
<1>1. ASSUME part = "v6", NEW k \in 1 .. Len(trades)
      PROVE  LET level == C67!FindLevelForTradeV6(trades[k])
             IN  /\ level # None
                 /\ level.lower = trades[k].signal.lower
                 /\ level.upper = trades[k].signal.upper
                 /\ level.score = trades[k].signal.score
  BY <1>1, LevelOfV6 DEF PinInv
<1>2. ASSUME part = "v7", NEW k \in 1 .. Len(trades)
      PROVE  LET level == C67!FindLevelForTradeV7(trades[k])
             IN  /\ level # None
                 /\ level.lower = trades[k].signal.lower
                 /\ level.upper = trades[k].signal.upper
                 /\ level.score = trades[k].signal.score
  BY <1>2, LevelOfV7 DEF PinInv
<1>3. QED
  BY <1>1, <1>2 DEF ChartedLevel

LEMMA PicturesTrue ==
    ASSUME PinInv, ChartsAgree
    PROVE  PicturesAreTrue
<1>1. OpenTradeIsOpen
  <2>1. ASSUME part = "v3", bar = Len(series),
               NEW k \in 1 .. Len(shown), ~IsClosed(shown[k])
        PROVE  C3!CurrentReason(shown[k]) = "open"
    <3>1. T3!IInv /\ shown = trades
      BY <2>1 DEF PinInv, ChartsAgree
    <3>2. QED
      BY <2>1, <3>1, OpenStays DEF IsClosed
  <2>2. QED
    BY <2>1 DEF OpenTradeIsOpen
<1>2. QED
  BY <1>1, MarksTrue, LevelsTrue DEF PicturesAreTrue

-----------------------------------------------------------------------------
(* The parts together: a step of one leaves the others as they are. *)
Inv == PinInv /\ LevelsInv /\ ChartsAgree /\ ScriptsInv

LEMMA InitInv ==
    ASSUME Init
    PROVE  Inv
<1>1. PinInv /\ LevelsInv /\ ChartsAgree
  BY PinInit, LevelsInit, ChartsInit
<1>2. ScriptsInv
  BY ScriptsInitInv DEF Init
<1>3. QED
  BY <1>1, <1>2 DEF Inv

LEMMA StepInv ==
    ASSUME Inv, [Next]_vars
    PROVE  Inv'
<1>1. PinBars \/ UNCHANGED <<part, pinVars>>
  BY DEF Next, RunScripts, MomentumRuns, PaperTrading, PairSelecting, Collecting, vars
<1>2. RunScripts \/ UNCHANGED <<part, scriptVars>>
  BY DEF Next, PinBars, vars
<1>3. QED
  BY <1>1, <1>2, PinStep, LevelsStep, ChartsStep, ScriptsStepInv DEF Inv

LEMMA AlwaysInv == Spec => []Inv
  BY InitInv, StepInv, PTL DEF Spec

(* In every version, whatever its signals and the candles are, the trades   *)
(* are one after the other, none is held longer than its limit, and each    *)
(* ended the first time it could and at the worst (simulate_symbol).        *)
THEOREM TradesAreSound == Spec => []TradesSound
  BY AlwaysInv, PinSound, PTL DEF Inv

(* A profit pays for its fees and a stop loses, whatever MIN_STOP_PCT lets  *)
(* through; so main() counts every profit as a win, no stop as one, and as  *)
(* losses at most the stops, the timeouts and the one trade that the end of *)
(* the data leaves open (simulate_symbol, main).                            *)
THEOREM ReportsMatchExits == Spec => []ReportMatchesExits
  BY AlwaysInv, PinReport, PTL DEF Inv

(* Whatever the candles are, a signal is decided by the bars up to its own, *)
(* in every version but the one that looks ahead; the clusters of the       *)
(* detector are chains of neighbours, of which no two touch; and no touch   *)
(* of the detector is missed by its copies (simulate_symbol,                *)
(* cluster_pivots, analyze_zone).                                           *)
THEOREM LevelsAreSound == Spec => []LevelsSound
  BY AlwaysInv, LevelsKnown, PTL DEF Inv

(* Whatever the statistics of a market are, the pairs that are selected are *)
(* pairwise uncorrelated, the most trending candidate is among them, and    *)
(* none is without history (filter_pairs).                                  *)
THEOREM SelectionIsSound == Spec => []PairsSound
  BY AlwaysInv, PairInvSound, PTL DEF Inv, ScriptsInv

(* Wherever the runs fail or are killed, the whitelist is not there before  *)
(* a run has replaced it, and from then on the whole selection of the last  *)
(* run that did, of one pair at least; and a run that ends by itself has    *)
(* tried to close its session (atomic_json_write, main).                    *)
THEOREM WhitelistStaysWhole == Spec => []WhitelistWhole
  BY AlwaysInv, PairInvSound, PTL DEF Inv, ScriptsInv

(* Whatever the settlements and the signals were, the trades of a symbol    *)
(* are one after the other, none is held too long, each is paid every       *)
(* settlement it was held over, and none is given up for one low rate       *)
(* (simulate_symbol of both scripts).                                       *)
THEOREM PaperTradingIsSound == Spec => []PaperTradesSound
  BY AlwaysInv, PaperInvSound, PTL DEF Inv, ScriptsInv

(* Whatever the settlements, the signals and the costs are: without fees    *)
(* nothing decays and the first position is held at least as long; and the  *)
(* two runs differ by the fees of every trade, and by nothing else, unless  *)
(* a trade was given up for a decay (paper_trade_zero_fee).                 *)
THEOREM FeesAreWhatTheyCost == Spec => []FeesAreTheDifference
  BY AlwaysInv, FeesInvSound, PTL DEF Inv, ScriptsInv

(* Whatever the candles, the windows and the numbers of bars around a trade *)
(* are: a chart shows the trades of its backtest, its marks lie in the      *)
(* picture, the first at the price of the entry and the second no earlier,  *)
(* a trade that is drawn as open is open, and the level that is drawn is    *)
(* the one that the trade was entered at (visualize_trade.py and the        *)
(* charts of the later versions).                                           *)
THEOREM PicturesAreTrueOfTrades == Spec => []PicturesAreTrue
  BY AlwaysInv, PicturesTrue, PTL DEF Inv

(* Whatever the prices and the hours of the coins were, a curve is that of  *)
(* its decisions, pays for every side, and keeps its losses within the      *)
(* stop, and coins without gaps are added up hour by hour                   *)
(* (run_momentum_single, filter_and_align).                                 *)
THEOREM MomentumIsSound == Spec => []MomentumSound
  BY AlwaysInv, MomentumInvSound, PTL DEF Inv, ScriptsInv

(* Whatever polls, cycles and pages fail and whenever the programs are down *)
(* or killed: a candle is stored exactly when a poll saw it, and final      *)
(* exactly when one did in the two hours after its own; the snapshot has    *)
(* the rate stored last for every settlement stored; and a backfilled hour  *)
(* is there exactly when the pages of a run went through it, once, and      *)
(* unfinished only if a run began in it (klines_collector.py,               *)
(* make_research_snapshot.py, backfill_top50.py).                           *)
THEOREM CollectedStaysTrue == Spec => []CollectedIsTrue
  BY AlwaysInv, CollectedSound, PTL DEF Inv
=============================================================================
