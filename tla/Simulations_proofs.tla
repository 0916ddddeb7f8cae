------------------------- MODULE Simulations_proofs -------------------------
(***************************************************************************)
(* Proofs about the simulations that several scripts have in common, for    *)
(* all their parameters: the trades of simulate_symbol over the bars, for   *)
(* all candles and wherever the signals are.  Research_proofs instantiates  *)
(* them for every version.                                                  *)
(***************************************************************************)
EXTENDS Backtest, FiniteSetTheorems, TLAPS

(* The signals of a version. *)
Bars == {at \in [of: Seq(Candles), i: Nat] : at.i < Len(at.of)}
Signals == {SignalAt(at.of, at.i) : at \in Bars} \ {None}

(* The parameters of a version: whatever else its signals tell, they have a *)
(* whole price, and MIN_STOP_PCT lets no stop through that is so near that  *)
(* RISK_REWARD times its distance does not pay for the fees.                *)
Params ==
    /\ WarmUp \in Nat /\ MaxHolding \in Nat \ {0} /\ RiskReward \in Nat
    /\ MinStop \in Nat /\ TakerFee \in Nat
    /\ 2 * TakerFee < MinStop * RiskReward * 10
    /\ \A signal \in Signals : signal.low \in Int

Trade ==
    [entry: Nat, price: Int, stop: Int, take: Int, signal: Signals,
     exit: Nat, exit_price: Int, reason: {"none", "stop", "take", "timeout"}]

(* What is known of a trade before a bar is looked at. *)
Followed(t, before) ==
    LET until == IF t.reason = "none" THEN before - 1 ELSE t.exit
        Stopped(i) == series[i + 1].l * 1000 <= t.stop
        Taken(i) == series[i + 1].h * 1000 >= t.take
    IN  /\ t.entry <= until /\ until < before /\ before <= Len(series)
        /\ t.reason # "none" => t.entry < until
        /\ IF t.reason = "none" THEN until - t.entry < MaxHolding
                                ELSE until - t.entry <= MaxHolding
        /\ \A i \in t.entry + 1 .. until - 1 : ~Stopped(i) /\ ~Taken(i)
        /\ until > t.entry =>
              /\ Stopped(until) <=> t.reason = "stop"
              /\ t.reason = "take" <=> Taken(until) /\ ~Stopped(until)

(* How a trade was entered: at a signal, at the close of its bar. *)
Entered(t) ==
    /\ t.signal = SignalAt(series, t.entry) /\ t.stop = Stop(t.signal)
    /\ t.price = series[t.entry + 1].c * 1000
    /\ t.take = t.price + (t.price - t.stop) * RiskReward

(* The prices of a trade: entered at that of a candle, with a stop far      *)
(* enough below, and left where its reason says.                            *)
Priced(t) ==
    /\ \E c \in Price :
          /\ t.price = c * 1000
          /\ t.price - t.stop >= c * MinStop
          /\ t.take = t.price + (t.price - t.stop) * RiskReward
    /\ t.reason = "stop" => t.exit_price = t.stop
    /\ t.reason = "take" => t.exit_price = t.take

IInv ==
    /\ series \in Seq(Candles) /\ bar \in Nat
    /\ trades \in Seq(Trade)
    /\ series = << >> => trades = << >>
    /\ \A k \in 1 .. Len(trades) : Followed(trades[k], bar) /\ Priced(trades[k])
    /\ \A k \in 1 .. Len(trades) : Entered(trades[k])
    /\ \A k \in 1 .. Len(trades) - 1 :
          trades[k].reason # "none" /\ trades[k].exit < trades[k + 1].entry

LEMMA LoadStep ==
    ASSUME Params, IInv,
           NEW candles \in Seq(Candles), Load(candles)
    PROVE  IInv'
<1>1. trades = << >> /\ trades' = << >> /\ series' = candles
  BY DEF Load, IInv
<1>2. bar' \in Nat
  BY DEF Load, Params
<1>3. QED
  BY <1>1, <1>2 DEF IInv

(* A closed trade is of the past. *)
LEMMA ClosedStays ==
    ASSUME NEW t \in Trade, bar \in Nat,
           t.reason # "none", Followed(t, bar), bar < Len(series),
           series \in Seq(Candles)
    PROVE  Followed(t, bar + 1)
  BY DEF Followed, Trade

(* The candle of a bar, and why a trade that was open ends on it. *)
LEMMA CandleIs ==
    ASSUME IInv, bar < Len(series)
    PROVE  /\ Candle \in Candles /\ Candle = series[bar + 1]
           /\ Candle.l \in Int /\ Candle.h \in Int /\ Candle.c \in Price
<1>1. Candle \in Candles /\ Candle = series[bar + 1]
  BY DEF IInv, Candle
<1>2. QED
  BY <1>1 DEF Candles, Price

LEMMA ReasonIs ==
    ASSUME IInv, Params, bar < Len(series),
           NEW t \in Trade
    PROVE  LET reason == ExitReason(t, bar)
               Stopped == series[bar + 1].l * 1000 <= t.stop
               Taken == series[bar + 1].h * 1000 >= t.take
           IN  /\ reason \in {"none", "stop", "take", "timeout"}
               /\ reason = "stop" <=> Stopped
               /\ reason = "take" <=> Taken /\ ~Stopped
               /\ reason = "none" => bar - t.entry < MaxHolding
<1>1. series[bar + 1].l \in Int /\ series[bar + 1].h \in Int
  BY CandleIs
<1>2. t.stop \in Int /\ t.take \in Int /\ t.entry \in Nat
  BY DEF Trade
<1>3. bar \in Nat /\ MaxHolding \in Nat
  BY DEF IInv, Params
<1>4. QED
  BY <1>1, <1>2, <1>3 DEF ExitReason

(* An open trade is followed to the next bar, or closed on this one. *)
LEMMA OpenFollowed ==
    ASSUME IInv, Params, bar < Len(series),
           NEW t \in Trade, t.reason = "none", Followed(t, bar),
           NEW u \in Trade, u.entry = t.entry, u.stop = t.stop,
           u.take = t.take, u.reason = ExitReason(t, bar),
           u.reason # "none" => u.exit = bar
    PROVE  Followed(u, bar + 1)
<1>1. t.entry \in Nat /\ bar \in Nat /\ MaxHolding \in Nat /\ Len(series) \in Nat
  BY DEF IInv, Params, Trade
<1>2. /\ u.reason = "stop" <=> series[bar + 1].l * 1000 <= t.stop
      /\ u.reason = "take" <=> /\ series[bar + 1].h * 1000 >= t.take
                               /\ ~(series[bar + 1].l * 1000 <= t.stop)
      /\ u.reason = "none" => bar - t.entry < MaxHolding
  BY ReasonIs
<1>3. /\ t.entry <= bar - 1 /\ bar - 1 - t.entry < MaxHolding
      /\ \A i \in t.entry + 1 .. bar - 1 :
            /\ ~(series[i + 1].l * 1000 <= t.stop)
            /\ ~(series[i + 1].h * 1000 >= t.take)
  BY <1>1 DEF Followed
<1>4. CASE u.reason = "none"
  BY <1>1, <1>2, <1>3, <1>4 DEF Followed
<1>5. CASE u.reason # "none"
  BY <1>1, <1>2, <1>3, <1>5 DEF Followed
<1>6. QED
  BY <1>4, <1>5

(* The invariant of the sequence of trades after a bar. *)
LEMMA BarKeeps ==
    ASSUME IInv, bar < Len(series),
           UNCHANGED series, bar' = bar + 1,
           trades' \in Seq(Trade),
           \A k \in 1 .. Len(trades') :
               /\ Followed(trades'[k], bar + 1) /\ Priced(trades'[k])
               /\ Entered(trades'[k]),
           \A k \in 1 .. Len(trades') - 1 :
               /\ trades'[k].reason # "none"
               /\ trades'[k].exit < trades'[k + 1].entry
    PROVE  IInv'
<1>1. series' \in Seq(Candles) /\ bar' \in Nat /\ series' # << >>
  BY DEF IInv
<1>2. \A k \in 1 .. Len(trades') : Followed(trades[k], bar)'
  BY DEF Followed
<1>a. \A k \in 1 .. Len(trades') : Priced(trades[k])' /\ Entered(trades[k])'
  BY DEF Priced, Entered, Stop
<1>3. QED
  BY <1>1, <1>2, <1>a DEF IInv

(* What the invariant says of a trade. *)
LEMMA TradeIs ==
    ASSUME IInv, NEW k \in 1 .. Len(trades)
    PROVE  /\ trades[k] \in Trade /\ Followed(trades[k], bar)
           /\ Priced(trades[k]) /\ Entered(trades[k])
           /\ k # Len(trades) =>
                 /\ trades[k].reason # "none"
                 /\ trades[k].exit < trades[k + 1].entry
<1>1. trades \in Seq(Trade)
  BY DEF IInv
<1>2. k # Len(trades) => k \in 1 .. Len(trades) - 1
  BY <1>1
<1>3. QED
  BY <1>1, <1>2 DEF IInv

LEMMA KeptTrades ==
    ASSUME IInv, Params, bar < Len(series),
           UNCHANGED series, bar' = bar + 1, Hold \/ Skip
    PROVE  IInv'
<1>1. trades' = trades /\ trades \in Seq(Trade) /\ bar \in Nat
  BY DEF Hold, Skip, IInv
<1>a. \A k \in 1 .. Len(trades) : Priced(trades[k]) /\ Entered(trades[k])
  BY TradeIs
<1>2. ASSUME NEW k \in 1 .. Len(trades)
      PROVE  Followed(trades[k], bar + 1)
  <2>1. trades[k] \in Trade /\ Followed(trades[k], bar)
    BY TradeIs
  <2>2. CASE trades[k].reason # "none"
    BY <1>1, <2>1, <2>2, ClosedStays DEF IInv
  <2>3. CASE trades[k].reason = "none"
    <3>1. k = Len(trades) /\ trades # << >>
      BY <1>1, <2>3, TradeIs
    <3>2. ExitReason(trades[k], bar) = "none"
      BY <2>3, <3>1 DEF Hold, Skip, Open, Last
    <3>3. QED
      BY <2>1, <2>3, <3>2, OpenFollowed
  <2>4. QED
    BY <2>2, <2>3
<1>3. \A k \in 1 .. Len(trades) - 1 :
          /\ trades[k].reason # "none"
          /\ trades[k].exit < trades[k + 1].entry
  BY DEF IInv
<1>4. QED
  BY <1>1, <1>a, <1>2, <1>3, BarKeeps

(* The trades in front of the last one are closed. *)
LEMMA OthersStay ==
    ASSUME IInv, bar < Len(series),
           NEW k \in 1 .. Len(trades), trades[k].reason # "none"
    PROVE  /\ Followed(trades[k], bar + 1) /\ trades[k].exit < bar
           /\ Priced(trades[k]) /\ Entered(trades[k])
<1>1. trades[k] \in Trade /\ Followed(trades[k], bar)
  BY TradeIs
<1>2. bar \in Nat /\ series \in Seq(Candles)
  BY DEF IInv
<1>3. Followed(trades[k], bar + 1)
  BY <1>1, <1>2, ClosedStays
<1>4. trades[k].exit < bar
  BY <1>1 DEF Followed
<1>5. QED
  BY <1>3, <1>4, TradeIs

LEMMA CloseStep ==
    ASSUME IInv, Params, bar < Len(series),
           UNCHANGED series, bar' = bar + 1, Close
    PROVE  IInv'
<1>1. PICK n \in Nat \ {0} : n = Len(trades)
  BY DEF Close, Open, IInv
<1>2. PICK t : t = trades[n]
  OBVIOUS
<1>3. /\ t \in Trade /\ Followed(t, bar) /\ Priced(t) /\ Entered(t)
      /\ t.reason = "none"
  BY <1>1, <1>2, TradeIs DEF Close, Open, Last
<1>4. PICK reason \in {"stop", "take", "timeout"} : reason = ExitReason(t, bar)
  BY <1>1, <1>2, <1>3, ReasonIs DEF Close, Last
<1>5. PICK price \in Int : price = ExitPrice(t, reason)
  BY <1>3, CandleIs DEF ExitPrice, Trade, Price
<1>6. PICK u : u = [t EXCEPT !.exit = bar, !.reason = reason,
                             !.exit_price = price]
  OBVIOUS
<1>7. /\ u \in Trade /\ u.entry = t.entry /\ u.stop = t.stop
      /\ u.take = t.take /\ u.reason = reason /\ u.exit = bar
  BY <1>3, <1>6 DEF IInv, Trade
<1>8. Followed(u, bar + 1)
  BY <1>3, <1>4, <1>7, OpenFollowed
<1>a. Priced(u) /\ Entered(u)
  <2>1. u.price = t.price /\ u.exit_price = price /\ u.signal = t.signal
    BY <1>3, <1>6 DEF Trade
  <2>2. /\ u.reason = "stop" => u.exit_price = u.stop
        /\ u.reason = "take" => u.exit_price = u.take
    BY <1>5, <1>7, <2>1 DEF ExitPrice
  <2>3. QED
    BY <1>3, <1>7, <2>1, <2>2 DEF Priced, Entered
<1>9. trades \in Seq(Trade) /\ trades' = [trades EXCEPT ![n] = u]
  BY <1>1, <1>2, <1>4, <1>5, <1>6 DEF Close, Last, IInv
<1>10. /\ trades' \in Seq(Trade) /\ Len(trades') = n
       /\ trades'[n] = u
       /\ \A k \in 1 .. n - 1 : trades'[k] = trades[k]
  BY <1>1, <1>7, <1>9
<1>11. \A k \in 1 .. n - 1 :
          /\ Followed(trades[k], bar + 1) /\ Priced(trades[k])
          /\ Entered(trades[k]) /\ trades[k].reason # "none"
          /\ trades[k].exit < trades[k + 1].entry
  BY <1>1, TradeIs, OthersStay
<1>12. \A k \in 1 .. n : /\ Followed(trades'[k], bar + 1) /\ Priced(trades'[k])
                        /\ Entered(trades'[k])
  BY <1>8, <1>a, <1>10, <1>11
<1>13. ASSUME NEW k \in 1 .. n - 1
       PROVE  /\ trades'[k].reason # "none"
              /\ trades'[k].exit < trades'[k + 1].entry
  <2>1. trades'[k + 1].entry = trades[k + 1].entry
    BY <1>2, <1>7, <1>10
  <2>2. QED
    BY <1>10, <1>11, <2>1
<1>14. QED
  BY <1>10, <1>12, <1>13, BarKeeps

LEMMA EnterStep ==
    ASSUME IInv, Params, bar < Len(series),
           UNCHANGED series, bar' = bar + 1, Enter
    PROVE  IInv'
<1>1. PICK n \in Nat : n = Len(trades)
  BY DEF IInv
<1>2. trades \in Seq(Trade) /\ bar \in Nat
  BY DEF IInv
<1>3. \A k \in 1 .. n : trades[k].reason # "none"
  BY <1>1, <1>2, TradeIs DEF Enter, Open, Last
<1>4. PICK signal \in Signals :
         /\ signal = SignalAt(series, bar)
         /\ ~TooTight(signal) /\ trades' = Append(trades, NewTrade(signal))
  <2>1. [of |-> series, i |-> bar] \in Bars
    BY DEF Bars, IInv
  <2>2. SignalAt(series, bar) # None
    BY DEF Enter
  <2>3. SignalAt(series, bar) \in Signals
    BY <2>1, <2>2 DEF Signals
  <2>4. QED
    BY <2>3 DEF Enter
<1>5. PICK t : t = NewTrade(signal)
  OBVIOUS
<1>6. t \in Trade /\ t.entry = bar /\ t.reason = "none"
  <2>1. signal.low \in Int /\ RiskReward \in Int /\ Candle.c \in Int
    BY CandleIs DEF Params, Price
  <2>2. Stop(signal) \in Int
    BY <2>1 DEF Stop
  <2>3. QED
    BY <1>2, <1>5, <2>1, <2>2 DEF NewTrade, Trade
<1>7. /\ trades' \in Seq(Trade) /\ Len(trades') = n + 1
      /\ trades'[n + 1] = t /\ \A k \in 1 .. n : trades'[k] = trades[k]
  BY <1>1, <1>2, <1>4, <1>5, <1>6
<1>8. Followed(t, bar + 1)
  <2>1. MaxHolding \in Nat \ {0} /\ Len(series) \in Nat
    BY DEF Params, IInv
  <2>2. QED
    BY <1>2, <1>6, <2>1 DEF Followed
<1>a. Priced(t)
  <2>1. Candle.c \in Price /\ signal.low \in Int
    BY CandleIs DEF Params
  <2>2. /\ t.price = Candle.c * 1000 /\ t.stop = Stop(signal)
        /\ t.take = t.price + (t.price - t.stop) * RiskReward
    BY <1>5 DEF NewTrade
  <2>3. Stop(signal) \in Int /\ MinStop \in Nat
    BY <2>1 DEF Stop, Params
  <2>4. Candle.c * MinStop \in Int
    BY <2>1, <2>3 DEF Price
  <2>5. t.price - t.stop >= Candle.c * MinStop
    BY <1>4, <2>1, <2>2, <2>3, <2>4 DEF TooTight, Price
  <2>6. QED
    BY <1>6, <2>1, <2>2, <2>5 DEF Priced
<1>b. Entered(t)
  BY <1>4, <1>5, <1>6 DEF NewTrade, Entered, Candle
<1>9. \A k \in 1 .. n : /\ Followed(trades[k], bar + 1) /\ trades[k].exit < bar
                       /\ Priced(trades[k]) /\ Entered(trades[k])
  BY <1>1, <1>3, OthersStay
<1>10. \A k \in 1 .. n + 1 : /\ Followed(trades'[k], bar + 1) /\ Priced(trades'[k])
                            /\ Entered(trades'[k])
  BY <1>7, <1>8, <1>a, <1>b, <1>9
<1>11. ASSUME NEW k \in 1 .. n
       PROVE  /\ trades'[k].reason # "none"
              /\ trades'[k].exit < trades'[k + 1].entry
  <2>1. CASE k = n
    BY <1>3, <1>6, <1>7, <1>9, <2>1
  <2>2. CASE k # n
    BY <1>1, <1>3, <1>7, <2>2, TradeIs
  <2>3. QED
    BY <2>1, <2>2
<1>12. QED
  BY <1>7, <1>10, <1>11, BarKeeps

LEMMA BarStep ==
    ASSUME IInv, Params, Bar
    PROVE  IInv'
  BY KeptTrades, CloseStep, EnterStep DEF Bar

(* What a bar makes of the trades is decided by the bars, the trades and    *)
(* the signal.                                                              *)
TradesNext ==
    LET signal == SignalAt(series, bar)
        reason == ExitReason(Last, bar)
    IN  CASE Open /\ reason # "none" ->
                 [trades EXCEPT ![Len(trades)] =
                     [@ EXCEPT !.exit = bar, !.reason = reason,
                               !.exit_price = ExitPrice(Last, reason)]]
          [] ~Open /\ signal # None /\ ~TooTight(signal) ->
                 Append(trades, NewTrade(signal))
          [] OTHER -> trades

LEMMA BarMakes ==
    ASSUME Bar
    PROVE  trades' = TradesNext
<1>1. CASE Close
  BY <1>1 DEF Close, TradesNext
<1>2. CASE Enter
  BY <1>2 DEF Enter, TradesNext
<1>3. CASE Hold
  BY <1>3 DEF Hold, TradesNext
<1>4. CASE Skip
  BY <1>4 DEF Skip, TradesNext
<1>5. QED
  BY <1>1, <1>2, <1>3, <1>4 DEF Bar

(* The invariant is of these variables only. *)
LEMMA Unchanged ==
    ASSUME IInv, UNCHANGED vars
    PROVE  IInv'
  BY DEF vars, IInv, Followed, Priced, Entered, Stop

(* When all bars were looked at, every trade is on candles of the series,   *)
(* and has a profit.                                                        *)
LEMMA TradeFits ==
    ASSUME IInv, bar = Len(series), NEW k \in 1 .. Len(trades)
    PROVE  LET t == trades[k]
           IN  /\ t.entry \in Nat /\ t.entry < Len(series)
               /\ t.reason # "none" =>
                     t.exit \in Nat /\ t.entry < t.exit /\ t.exit < Len(series)
               /\ t.price = series[t.entry + 1].c * 1000
               /\ ((t.exit_price - t.price) * 10) \div (t.price \div 1000) \in Int
<1>1. PICK t : t = trades[k]
  OBVIOUS
<1>2. t \in Trade /\ Followed(t, bar) /\ Entered(t) /\ Priced(t)
  BY <1>1, TradeIs
<1>3. ((t.exit_price - t.price) * 10) \div (t.price \div 1000) \in Int
  <2>1. PICK c \in Nat \ {0} : t.price = c * 1000
    BY <1>2 DEF Priced, Price
  <2>2. t.price \div 1000 = c
    BY <2>1
  <2>3. PICK n \in Int : n = (t.exit_price - t.price) * 10
    BY <1>2 DEF Trade
  <2>4. n \div c \in Int
    BY <2>1, Z3
  <2>5. QED
    BY <2>2, <2>3, <2>4
<1>4. t.entry \in Nat /\ t.exit \in Nat /\ bar \in Nat
  BY <1>2 DEF Trade, IInv
<1>5. /\ t.entry < bar
      /\ t.reason # "none" => t.entry < t.exit /\ t.exit < bar
  BY <1>2, <1>4 DEF Followed
<1>6. t.price = series[t.entry + 1].c * 1000
  BY <1>2 DEF Entered
<1>7. QED
  BY <1>1, <1>3, <1>4, <1>5, <1>6

LEMMA InvariantTradesSound ==
    ASSUME IInv, Params
    PROVE  TradesSound
<1>1. /\ bar \in Nat /\ Len(trades) \in Nat /\ MaxHolding \in Nat
      /\ \A k \in 1 .. Len(trades) :
            trades[k] \in Trade /\ Followed(trades[k], bar)
  BY DEF IInv, Params
<1>2. TradesInOrder
  <2>1. \A k \in 1 .. Len(trades) :
            trades[k].reason # "none" => trades[k].exit > trades[k].entry
    BY <1>1 DEF Followed, Trade
  <2>2. \A k \in 1 .. Len(trades) : k < Len(trades) =>
            /\ trades[k].reason # "none"
            /\ trades[k].exit < trades[k + 1].entry
    BY <1>1, TradeIs
  <2>3. QED
    BY <2>1, <2>2 DEF TradesInOrder
<1>3. HoldingBounded
  BY <1>1 DEF HoldingBounded, Followed, Trade
<1>4. ExitIsWorst
  BY <1>1 DEF ExitIsWorst, Followed
<1>5. QED
  BY <1>2, <1>3, <1>4 DEF TradesSound

(* At a distance that MIN_STOP_PCT lets through, the profit is more than    *)
(* the fees of both sides.                                                  *)
LEMMA FeesPaid ==
    ASSUME Params, NEW c \in Price, NEW d \in Int, d >= c * MinStop
    PROVE  d >= 0 /\ d * RiskReward * 10 > 2 * TakerFee * c
<1> PICK m \in Nat, r \in Nat, f \in Nat :
        m = MinStop /\ r = RiskReward /\ f = TakerFee /\ 2 * f < m * r * 10
  BY DEF Params
<1>1. c \in Nat /\ c > 0
  BY DEF Price
<1>2. c * m \in Nat
  BY <1>1
<1>3. d - c * m \in Nat /\ d \in Nat
  BY <1>2
<1>4. (d - c * m) * r >= 0
  BY <1>3
<1>5. d * r >= c * m * r
  <2>1. (d - c * m) * r = d * r - c * m * r
    BY <1>1
  <2>2. d * r \in Int /\ c * m * r \in Int
    BY <1>2
  <2>3. QED
    BY <1>4, <2>1, <2>2
<1>6. c * m * r * 10 > 2 * f * c
  <2>1. m * r * 10 - 2 * f \in Nat /\ m * r * 10 - 2 * f > 0
    BY <1>1
  <2>2. c * (m * r * 10 - 2 * f) > 0
    BY <1>1, <2>1
  <2>3. c * (m * r * 10 - 2 * f) = c * m * r * 10 - 2 * f * c
    BY <1>1
  <2>4. c * m * r * 10 \in Int /\ 2 * f * c \in Int
    BY <1>1
  <2>5. QED
    BY <2>2, <2>3, <2>4
<1>7. d * r \in Int /\ c * m * r \in Int /\ 2 * f * c \in Int
  BY <1>1
<1>8. QED
  BY <1>3, <1>5, <1>6, <1>7

LEMMA InvariantProfitPays ==
    ASSUME IInv, Params
    PROVE  ProfitPays
<1>1. SUFFICES ASSUME NEW k \in 1 .. Len(trades)
               PROVE  /\ trades[k].reason = "take" => Wins(trades[k])
                      /\ trades[k].reason = "stop" => ~Wins(trades[k])
  BY DEF ProfitPays
<1>2. PICK t : t = trades[k]
  OBVIOUS
<1>3. t \in Trade /\ Priced(t)
  BY <1>2, TradeIs
<1>4. PICK c \in Price :
         /\ t.price = c * 1000 /\ t.price - t.stop >= c * MinStop
         /\ t.take = t.price + (t.price - t.stop) * RiskReward
  BY <1>3 DEF Priced
<1>5. PICK d \in Int : d = t.price - t.stop
  BY <1>3 DEF Trade
<1>6. d >= 0 /\ d * RiskReward * 10 > 2 * TakerFee * c
  BY <1>4, <1>5, FeesPaid
<1>7. t.price \div 1000 = c
  BY <1>4 DEF Price
<1>8. /\ c \in Nat /\ d * RiskReward \in Int /\ TakerFee \in Nat
      /\ TakerFee * c \in Nat /\ t.price \in Int /\ t.stop \in Int
  BY <1>3 DEF Price, Params, Trade
<1>9. ASSUME t.reason = "take" PROVE Wins(t)
  <2>1. t.exit_price - t.price = d * RiskReward
    BY <1>3, <1>4, <1>5, <1>8, <1>9 DEF Priced
  <2>2. QED
    BY <1>6, <1>7, <1>9, <2>1 DEF Wins
<1>10. ASSUME t.reason = "stop" PROVE ~Wins(t)
  <2>1. t.exit_price - t.price = -d
    BY <1>3, <1>5, <1>8, <1>10 DEF Priced
  <2>2. 2 * TakerFee * c >= 0
    BY <1>8
  <2>3. ~((-d) * 10 > 2 * TakerFee * c)
    BY <1>6, <1>8, <2>2
  <2>4. QED
    BY <1>7, <2>1, <2>3 DEF Wins
<1>11. QED
  BY <1>2, <1>9, <1>10

(* Trades that are among others are not more than these. *)
LEMMA CountUnion ==
    ASSUME NEW n \in Nat, NEW A \in SUBSET (1 .. n), NEW B \in SUBSET (1 .. n)
    PROVE  /\ Cardinality(A) \in Nat /\ Cardinality(B) \in Nat
           /\ Cardinality(A \cup B) \in Nat
           /\ Cardinality(A \cup B) <= Cardinality(A) + Cardinality(B)
           /\ A \subseteq B => Cardinality(A) <= Cardinality(B)
<1>1. IsFiniteSet(1 .. n)
  BY FS_Interval
<1>2. IsFiniteSet(A) /\ IsFiniteSet(B)
  BY <1>1, FS_Subset
<1>3. IsFiniteSet(A \cap B) /\ IsFiniteSet(A \cup B)
  BY <1>2, FS_Subset, FS_Union
<1>4. /\ Cardinality(A) \in Nat /\ Cardinality(B) \in Nat
      /\ Cardinality(A \cup B) \in Nat /\ Cardinality(A \cap B) \in Nat
  BY <1>2, <1>3, FS_CardinalityType
<1>5. Cardinality(A \cup B) = Cardinality(A) + Cardinality(B) - Cardinality(A \cap B)
  BY <1>2, FS_Union
<1>6. A \subseteq B => Cardinality(A) <= Cardinality(B)
  BY <1>2, FS_Subset
<1>7. QED
  BY <1>4, <1>5, <1>6

LEMMA InvariantReportMatchesExits ==
    ASSUME IInv, Params
    PROVE  ReportMatchesExits
<1> DEFINE n == Len(trades)
           Of(r) == {k \in 1 .. n : trades[k].reason = r}
           Won == {k \in 1 .. n : Wins(trades[k])}
           Lost == {k \in 1 .. n : ~Wins(trades[k])}
<1>1. n \in Nat
  BY DEF IInv
<1>2. /\ Report.wins = Cardinality(Won) /\ Report.losses = Cardinality(Lost)
      /\ Report.reasons["take"] = Cardinality(Of("take"))
      /\ Report.reasons["stop"] = Cardinality(Of("stop"))
      /\ Report.reasons["timeout"] = Cardinality(Of("timeout"))
  BY DEF Report, Counted
<1>3. \A k \in 1 .. n :
         trades[k].reason \in {"none", "stop", "take", "timeout"}
  BY TradeIs DEF Trade
<1>4. /\ Of("take") \in SUBSET (1 .. n) /\ Of("stop") \in SUBSET (1 .. n)
      /\ Of("timeout") \in SUBSET (1 .. n) /\ Of("none") \in SUBSET (1 .. n)
      /\ Won \in SUBSET (1 .. n) /\ Lost \in SUBSET (1 .. n)
  OBVIOUS
<1>5. /\ Of("take") \subseteq Won
      /\ Won \subseteq Of("take") \cup Of("timeout")
      /\ Lost \subseteq Of("stop") \cup Of("timeout") \cup Of("none")
  <2>1. /\ \A k \in 1 .. n : trades[k].reason = "take" => Wins(trades[k])
        /\ \A k \in 1 .. n : trades[k].reason = "stop" => ~Wins(trades[k])
    BY InvariantProfitPays DEF ProfitPays
  <2>2. \A k \in 1 .. n : trades[k].reason = "none" => ~Wins(trades[k])
    BY DEF Wins
  <2>3. QED
    BY <1>3, <2>1, <2>2
<1>6. Cardinality(Of("none")) <= 1
  <2>1. Of("none") \subseteq {n}
    BY <1>1, TradeIs
  <2>2. IsFiniteSet({n}) /\ Cardinality({n}) = 1
    BY FS_Singleton
  <2>3. QED
    BY <2>1, <2>2, FS_Subset, FS_CardinalityType
<1> HIDE DEF n, Of, Won, Lost
<1>7. /\ Cardinality(Of("take")) <= Cardinality(Won)
      /\ Cardinality(Of("take") \cup Of("timeout"))
            <= Cardinality(Of("take")) + Cardinality(Of("timeout"))
  BY <1>1, <1>4, <1>5, CountUnion
<1>8. Cardinality(Won) <= Cardinality(Of("take") \cup Of("timeout"))
  <2>1. Of("take") \cup Of("timeout") \in SUBSET (1 .. n)
    BY <1>4
  <2>2. QED
    BY <1>1, <1>4, <1>5, <2>1, CountUnion
<1>9. Cardinality(Lost)
         <= Cardinality(Of("stop")) + Cardinality(Of("timeout")) + 1
  <2>1. Of("stop") \cup Of("timeout") \in SUBSET (1 .. n)
    BY <1>4
  <2>2. Of("stop") \cup Of("timeout") \cup Of("none") \in SUBSET (1 .. n)
    BY <1>4
  <2>3. Cardinality(Lost) <= Cardinality(Of("stop") \cup Of("timeout") \cup Of("none"))
    BY <1>1, <1>4, <1>5, <2>2, CountUnion
  <2>4. Cardinality(Of("stop") \cup Of("timeout") \cup Of("none"))
           <= Cardinality(Of("stop") \cup Of("timeout")) + Cardinality(Of("none"))
    BY <1>1, <1>4, <2>1, CountUnion
  <2>5. Cardinality(Of("stop") \cup Of("timeout"))
           <= Cardinality(Of("stop")) + Cardinality(Of("timeout"))
    BY <1>1, <1>4, CountUnion
  <2>6. /\ Cardinality(Lost) \in Nat /\ Cardinality(Of("stop")) \in Nat
        /\ Cardinality(Of("timeout")) \in Nat /\ Cardinality(Of("none")) \in Nat
        /\ Cardinality(Of("stop") \cup Of("timeout")) \in Nat
        /\ Cardinality(Of("stop") \cup Of("timeout") \cup Of("none")) \in Nat
    BY <1>1, <1>4, <2>1, CountUnion
  <2>7. QED
    BY <1>6, <2>3, <2>4, <2>5, <2>6
<1>10. /\ Cardinality(Won) \in Nat /\ Cardinality(Of("take")) \in Nat
       /\ Cardinality(Of("timeout")) \in Nat
       /\ Cardinality(Of("take") \cup Of("timeout")) \in Nat
  BY <1>1, <1>4, CountUnion
<1>11. Cardinality(Won) <= Cardinality(Of("take")) + Cardinality(Of("timeout"))
  BY <1>7, <1>8, <1>10
<1>12. QED
  BY <1>2, <1>7, <1>9, <1>11, InvariantProfitPays DEF ReportMatchesExits

(* One position at a time, none held longer than MAX_HOLDING_H, each ended  *)
(* the first time it could and at its worst, and a report that agrees with  *)
(* how they ended: for every series of candles and wherever the signals are *)
(* (simulate_symbol, main).                                                 *)
THEOREM SoundForAllSignals ==
    ASSUME Params
    PROVE  Spec => [](TradesSound /\ ReportMatchesExits)
<1>1. Init => IInv
  BY DEF Init, IInv
<1>2. IInv /\ [Next]_vars => IInv'
  <2> SUFFICES ASSUME IInv, [Next]_vars PROVE IInv'
    OBVIOUS
  <2>1. CASE Bar
    BY <2>1, BarStep
  <2>2. CASE \E candles \in Seq(Candles) : Load(candles)
    BY <2>2, LoadStep
  <2>3. CASE UNCHANGED vars
    BY <2>3, Unchanged
  <2>4. QED
    BY <2>1, <2>2, <2>3 DEF Next
<1>3. IInv => TradesSound /\ ReportMatchesExits
  BY InvariantTradesSound, InvariantReportMatchesExits
<1>4. QED
  BY <1>1, <1>2, <1>3, PTL DEF Spec
=============================================================================
