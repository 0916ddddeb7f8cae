----------------------------- MODULE MCResearch -----------------------------
(***************************************************************************)
(* The research scripts, each a part of its own that starts in a state of   *)
(* its own: the pin-bar backtests with the scripts that draw their trades,  *)
(* and the other Scripts.                                                   *)
(***************************************************************************)
EXTENDS PinBarChart, Scripts

CONSTANTS Series, ADA, BNB, SOL

V1 == INSTANCE PinBarV1
V23 == INSTANCE PinBarV2V3
V4 == INSTANCE PinBarV4
V5 == INSTANCE PinBarV5
V67 == INSTANCE PinBarV6V7
C3 == INSTANCE PinBarChartV3
C4 == INSTANCE PinBarChartV4
C5 == INSTANCE PinBarChartV5
C67 == INSTANCE PinBarChartV6V7

pinVars == <<series, bar, trades, shown>>

vars == <<part, pinVars, scriptVars>>

-----------------------------------------------------------------------------
K(o, h, l, c) == [o |-> 10 * o, h |-> 10 * h, l |-> 10 * l, c |-> 10 * c]
Pin == K(402, 404, 396, 403)
Doji == K(402, 405, 396, 402)
Fall == K(408, 410, 400, 402)
Rise == K(402, 409, 399, 408)
Flat == K(403, 405, 401, 404)
Spike == K(405, 485, 404, 482)
Drop == K(402, 404, 380, 385)
LongPin == K(468, 472, 397, 470)
TinyPin == [o |-> 4020, h |-> 4020, l |-> 4017, c |-> 4020]

Histories ==
    {<<K(402, 406, 396, 398), K(398, 400, 392, 392), K(392, 398, 391, 396),
       K(396, 400, 388, 392), K(392, 396, 391, 394), K(394, 399, 394, 398),
       K(398, 404, 398, 400), K(400, 410, 396, 406), K(406, 410, 402, 404),
       K(404, 404, 401, 402)>>,
     <<K(403, 405, 393, 399), K(399, 403, 397, 403), K(403, 404, 395, 401),
       K(401, 405, 397, 399), K(399, 407, 395, 403), K(403, 411, 403, 407),
       K(407, 407, 404, 405), K(405, 412, 403, 411), K(411, 413, 409, 409),
       K(409, 410, 401, 407)>>}

Tails == {Pin, TinyPin, Doji, Fall, Spike, Flat} \X {Pin, Rise, Fall, Drop, Spike}
             \X {Flat, Fall, Drop, Spike} \X {Pin, LongPin, Drop, Flat, Spike}
             \X {Pin, Flat}

SmallSeries == {h \o t : h \in Histories, t \in Tails}

(* A coin that is listed at an hour and misses none. *)
Coin(first, closes) ==
    [ts |-> [k \in DOMAIN closes |-> first + k - 1], closes |-> closes]

Steady == <<100, 110, 105, 100, 120, 90, 130>>

Walks == {<<100, p[1], p[2], p[3], p[4], p[5]>> :
              p \in [1 .. 5 -> {0, 60, 100, 130}]}

(* A coin with a missing hour, and one that ended before the other began.   *)
Gap == [ts |-> <<2, 3, 5, 6, 7, 8>>, closes |-> <<100, 90, 80, 130, 130, 60>>]

SmallBooksV1 == {<<Coin(2, w), Coin(1, Steady), Coin(6, <<100, 60, 130, 60>>)>> : w \in Walks}

SmallBooksV2 ==
    {<<Coin(2, w), Coin(1, Steady), Coin(6, <<100, 60, 130, 60>>)>> : w \in Walks}
        \cup {<<Coin(f, Steady), Coin(2, Steady), other>> :
                  f \in {1, 3, 4, 9}, other \in {Gap, Coin(3, Steady)}}

Rates == {-2, 0, 2, 5}

(* For a settlement: the rate announced last, after one that was revised.   *)
Announced(time, rate) ==
    {[next |-> time, received |-> 2 * time - 1, rate |-> 7],
     [next |-> time, received |-> 2 * time, rate |-> rate]}

Snapshots ==
    {UNION {Announced(t, rate[t]) : t \in times}
        \cup {[next |-> None, received |-> 1, rate |-> 5],
              [next |-> 9, received |-> 9, rate |-> 5]} :
        rate \in [2 .. 5 -> Rates], times \in {2 .. 5, {2, 3, 5}, {2, 4}}}

Decisions ==
    {{[at |-> h, delivery_status |-> "sent"] : h \in sent}
         \cup {[at |-> 2, delivery_status |-> "failed"]} :
        sent \in {{1}, {1, 3}, {2, 3, 4}, {1, 2, 5}}}

SmallInputs ==
    [decisions: Decisions, snapshots: Snapshots,
     metrics: {{[at |-> 1, basis |-> 3], [at |-> 4, basis |-> -1]}},
     now: {4, 5}]

Bars == {[p \in {ADA, BNB, SOL} |-> 18], [p \in {ADA, BNB, SOL} |-> 8],
         [p \in {ADA, BNB, SOL} |-> IF p = BNB THEN 17 ELSE 16]}

SmallMarkets ==
    [pairs: {<<ADA, BNB, SOL>>}, active: {{ADA, BNB, SOL}}, liquid: {{ADA, BNB, SOL}, {BNB, SOL}},
     bars: Bars, vr: [{ADA, BNB, SOL} -> {9, 12, 15}],
     trending: {{ADA, BNB, SOL}}, correlated: SUBSET {{ADA, BNB}, {BNB, SOL}, {ADA, SOL}}]
    \cup
    [pairs: {<<ADA, BNB, SOL>>}, active: {{BNB, SOL}}, liquid: {{ADA, BNB}},
     bars: Bars, vr: {[p \in {ADA, BNB, SOL} |-> 12]},
     trending: {{ADA, BNB}, {SOL}}, correlated: {{{ADA, BNB}}}]

SmallLaterMarkets == {m \in SmallMarkets : m.vr[ADA] = 15 /\ m.vr[BNB] = 12 /\ m.bars[SOL] = 18
                                   /\ m.vr[SOL] = 9 /\ {ADA, BNB} \in m.correlated}

Ticker(symbol, next, rate, parses) ==
    [symbol |-> symbol, next |-> next, rate |-> rate, parses |-> parses]

SmallTickerLists ==
    {<<Ticker(ADA, 1, 5, TRUE), Ticker(BNB, 1, 3, TRUE)>>,
     <<Ticker(ADA, 1, -2, TRUE), Ticker(BNB, 2, 3, TRUE)>>,
     <<Ticker(SOL, 1, 5, TRUE), Ticker(BNB, None, 2, TRUE), Ticker(ADA, 1, None, TRUE)>>,
     <<Ticker(BNB, 2, 4, TRUE), Ticker(ADA, 1, 3, FALSE)>>,
     << >>}

SmallExchanges ==
    {[symbols |-> <<ADA, BNB>>, turnover |-> [s \in {ADA, BNB} |-> IF s = ADA THEN a ELSE 5],
      listed |-> [s \in {ADA, BNB} |-> IF s = ADA THEN 3 ELSE 0]] : a \in {0, 3, 5}}

-----------------------------------------------------------------------------
(* Times and bars are counted; prices are positive. *)
ASSUME PinBarParams ==
    /\ LEVEL_WINDOW_H \in Nat /\ LEVEL_STEP_H \in Nat \ {0}
    /\ LEFT_BARS \in Nat /\ RIGHT_BARS \in Nat /\ SETTLE \in Nat
    /\ ATR_PERIOD \in Nat \ {0} /\ COOLDOWN \in Nat
    /\ ANOMALY_LOOKBACK \in Nat /\ LookAheadWarmUp \in Nat
    /\ ShortHold \in Nat \ {0} /\ LongHold \in Nat \ {0}
    /\ BARS_BEFORE_ENTRY \in Nat /\ BARS_AFTER_ENTRY \in Nat
    /\ Series \subseteq Seq([o: Nat \ {0}, h: Nat \ {0}, l: Nat \ {0}, c: Nat \ {0}])

-----------------------------------------------------------------------------
PinBarParts == {"v1", "v2", "v3", "v4", "v5", "v6", "v7", "levels"}

(* Each part starts from nothing, and picks its input in its first step. *)
Init ==
    /\ part \in PinBarParts \cup
          {"m1", "m2", "paper", "pairs", "klines", "funding", "backfill"}
    /\ series = << >> /\ bar = 0 /\ trades = << >> /\ shown = << >>
    /\ ScriptsInit

Alone(A, name) == part = name /\ A /\ UNCHANGED shown
Both(A, B, name) == part = name /\ A /\ B

Simulate(candles) ==
    \/ Alone(V1!Load(candles), "v1") \/ Alone(V23!LoadV2(candles), "v2")
    \/ Both(V23!LoadV3(candles), C3!Load(candles), "v3")
    \/ Both(V4!Load(candles), C4!Load(candles), "v4")
    \/ Both(V5!Load(candles), C5!Load(candles), "v5")
    \/ Alone(V67!LoadV6(candles), "v6") \/ Alone(V67!LoadV7(candles), "v7")
    \/ /\ part = "levels" /\ series' = candles
       /\ shown' = V4!Detector!GerchikLevels(candles) /\ UNCHANGED <<bar, trades>>

Walk ==
    \/ Alone(V1!Bar, "v1") \/ Alone(V23!BarV2, "v2")
    \/ Both(V23!BarV3, C3!Bar, "v3") \/ Both(V4!Bar, C4!Bar, "v4")
    \/ Both(V5!Bar, C5!Bar, "v5")
    \/ Alone(V67!BarV6, "v6") \/ Alone(V67!BarV7, "v7")

PinBars ==
    /\ part \in PinBarParts
    /\ \/ series = << >> /\ \E candles \in Series : Simulate(candles)
       \/ Walk
    /\ UNCHANGED <<part, scriptVars>>

Next == PinBars \/ (RunScripts /\ UNCHANGED pinVars)

Spec == Init /\ [][Next]_vars

-----------------------------------------------------------------------------
(* One position at a time, ended the first time it can and at its worst, in *)
(* every version (see Backtest).                                            *)
TradesSound ==
    /\ part \in {"v1", "v2", "v3"} => V1!Simulation!TradesSound
    /\ part \in {"v4", "v5", "v6", "v7"} => V4!Simulation!TradesSound

(* The win rate of main() agrees with how the trades ended, a profit pays   *)
(* for the fees and a stop does not, whatever MIN_STOP_PCT lets through     *)
(* (see Backtest).                                                          *)
ReportMatchesExits ==
    /\ part = "v1" => V1!Simulation!ReportMatchesExits
    /\ part = "v2" => V23!SimulationV2!ReportMatchesExits
    /\ part = "v3" => V23!SimulationV3!ReportMatchesExits
    /\ part \in {"v4", "v5", "v6", "v7"} => V4!Simulation!ReportMatchesExits

(* A signal is decided by the bars up to its own: with the later ones cut   *)
(* off it is the same, so no version but v2, whose levels come from all of  *)
(* the data, trades on what it cannot know (simulate_symbol).               *)
LevelsCausal ==
    bar > 0 /\ bar < Len(series) =>
        LET known == SubSeq(series, 1, bar + 1)
        IN  /\ part = "v1" => V1!SignalAt(known, bar) = V1!SignalAt(series, bar)
            /\ part = "v3" =>
                  V23!SignalAtV3(known, bar) = V23!SignalAtV3(series, bar)
            /\ part = "v4" => V4!SignalAt(known, bar) = V4!SignalAt(series, bar)
            /\ part = "v5" => V5!SignalAt(known, bar) = V5!SignalAt(series, bar)
            /\ part = "v6" => V67!SignalAtV6(known, bar) = V67!SignalAtV6(series, bar)
            /\ part = "v7" => V67!SignalAtV7(known, bar) = V67!SignalAtV7(series, bar)

(* The levels are known when they are used, their clusters are chains of    *)
(* neighbours, and the copies miss no touch of GerchikLevelDetector (see    *)
(* PinBarLevels).                                                           *)
LevelsSound ==
    /\ LevelsCausal
    /\ part = "levels" /\ series # << >> =>
          /\ V4!Detector!ClustersAreChains(V4!Clusters(series), series)
          /\ V4!Detector!VisitsAreTouches(series)

(* The scripts that draw trades with a copy of the simulation find the same *)
(* trades as the backtest ("должны совпадать с backtest_pin_bar_v5.py",     *)
(* visualize_trades_v5.py:33).                                              *)
ChartsAgree == part \in {"v3", "v4", "v5"} => shown = trades

(* The marks of every picture that is drawn lie on candles within it (see   *)
(* PinBarChart).                                                            *)
TradeMarksInPicture ==
    bar = Len(series) =>
        /\ part = "v3" /\ shown # << >> =>
              C3!MarksInPicture({shown[C3!ChosenTrade]}, C3!PlotTrade)
        /\ part = "v4" =>
              C4!MarksInPicture({shown[k] : k \in C4!Selected}, C4!PlotTrade)
        /\ part = "v5" =>
              C5!MarksInPicture({shown[k] : k \in C5!Selected}, C5!PlotTrade)
        /\ part \in {"v6", "v7"} =>
              C67!MarksInPicture({trades[k] : k \in C67!Selected}, C67!PlotTrade)

(* A trade that the walk left open is still open by its last candle: main() *)
(* of visualize_trade never reports a stop or a profit that find_trades did *)
(* not see, not even on the candle the trade was entered at.                *)
OpenTradeIsOpen ==
    part = "v3" /\ bar = Len(series) =>
        \A k \in 1 .. Len(shown) :
            ~IsClosed(shown[k]) => C3!CurrentReason(shown[k]) = "open"

(* The zone that is drawn for a closed trade is the one it was entered at,  *)
(* though the script searches for it again (find_level_for_trade).          *)
ChartedLevel ==
    \A k \in 1 .. Len(trades) :
        LET t == trades[k]
            Shows(level) == /\ level # None
                            /\ level.lower = t.signal.lower
                            /\ level.upper = t.signal.upper
                            /\ level.score = t.signal.score
        IN  IsClosed(t) =>
                /\ part = "v6" => Shows(C67!FindLevelForTradeV6(t))
                /\ part = "v7" => Shows(C67!FindLevelForTradeV7(t))

(* A picture shows what the backtest did: its trades, where they were       *)
(* entered and left, and the level they were entered at.                    *)
PicturesAreTrue ==
    ChartsAgree /\ TradeMarksInPicture /\ OpenTradeIsOpen /\ ChartedLevel

=============================================================================
