------------------------------ MODULE Backtest ------------------------------
(***************************************************************************)
(* simulate_symbol (backtest_pin_bar_v1 .. v7, the charts of v4 and v5) and *)
(* find_trades (visualize_trade): the walk over the bars of a symbol that   *)
(* opens and closes one position at a time, bar by bar; and the figures of  *)
(* main().  A version says where its signals are.                           *)
(*                                                                         *)
(* Prices of candles are whole; those of a trade are in thousandths, for    *)
(* the stop is at 0.999 of the trigger's low.                               *)
(***************************************************************************)
EXTENDS Integers, Sequences, FiniteSets

CONSTANTS
    None,
    SignalAt(_, _),     \* the signal at a bar of a series, or None
    WarmUp,             \* the first bar looked at
    MinBars,            \* a shorter series has no trades
    MaxHolding,         \* MAX_HOLDING_H
    RiskReward,         \* RISK_REWARD
    MinStop,            \* MIN_STOP_PCT, in tenths of a percent
    TakerFee            \* TAKER_FEE, in hundredths of a percent

VARIABLES
    series,             \* the candles of the symbol, << >> before the load
    bar,                \* i
    trades

vars == <<series, bar, trades>>

Init == series = << >> /\ bar = 0 /\ trades = << >>

Load(candles) ==
    /\ series = << >> /\ candles # << >>
    /\ series' = candles
    /\ bar' = IF Len(candles) < MinBars THEN Len(candles) ELSE WarmUp
    /\ UNCHANGED trades

Candle == series[bar + 1]

Last == trades[Len(trades)]

(* position_open. *)
Open == trades # << >> /\ Last.reason = "none"

(* Mutant: the profit is taken first. *)
ExitReasonTakeFirst(t, i) ==
    LET k == series[i + 1]
    IN  CASE k.h * 1000 >= t.take -> "take"
          [] k.h * 1000 < t.take /\ k.l * 1000 <= t.stop -> "stop"
          [] OTHER -> IF i - t.entry >= MaxHolding THEN "timeout" ELSE "none"

(* Mutant: the timeout is a bar late. *)
ExitReasonLater(t, i) ==
    LET k == series[i + 1]
    IN  CASE k.l * 1000 <= t.stop -> "stop"
          [] k.l * 1000 > t.stop /\ k.h * 1000 >= t.take -> "take"
          [] OTHER -> IF i - t.entry > MaxHolding THEN "timeout" ELSE "none"

(* When both the stop and the profit are within a bar, it is the stop. *)
ExitReason(t, i) ==
    LET k == series[i + 1]
    IN  CASE k.l * 1000 <= t.stop -> "stop"
          [] k.l * 1000 > t.stop /\ k.h * 1000 >= t.take -> "take"
          [] OTHER -> IF i - t.entry >= MaxHolding THEN "timeout" ELSE "none"

ExitPrice(t, reason) ==
    CASE reason = "stop" -> t.stop
      [] reason = "take" -> t.take
      [] OTHER -> Candle.c * 1000

Hold ==
    /\ Open /\ ExitReason(Last, bar) = "none"
    /\ UNCHANGED trades

(* close_trade. *)
Close ==
    /\ Open /\ ExitReason(Last, bar) # "none"
    /\ LET reason == ExitReason(Last, bar)
       IN  trades' = [trades EXCEPT ![Len(trades)] =
               [@ EXCEPT !.exit = bar, !.reason = reason,
                         !.exit_price = ExitPrice(Last, reason)]]

(* Mutant: the stop is above the low of the trigger. *)
StopAbove(signal) == signal.low * 1001

Stop(signal) == signal.low * 999

(* Mutant: the stop may be as tight as it likes. *)
NoFloor(signal) == FALSE

(* The stop is so near that the fees would eat the profit. *)
TooTight(signal) == Candle.c * 1000 - Stop(signal) < Candle.c * MinStop

NewTrade(signal) ==
    [entry |-> bar, price |-> Candle.c * 1000, stop |-> Stop(signal),
     take |-> Candle.c * 1000 + (Candle.c * 1000 - Stop(signal)) * RiskReward,
     signal |-> signal, exit |-> 0, exit_price |-> 0, reason |-> "none"]

(* Mutant: a new position may be opened while one is open. *)
EnterAgain ==
    LET signal == SignalAt(series, bar)
    IN  /\ signal # None
        /\ ~TooTight(signal)
        /\ trades' = Append(trades, NewTrade(signal))

Enter ==
    LET signal == SignalAt(series, bar)
    IN  /\ ~Open /\ signal # None
        /\ ~TooTight(signal)
        /\ trades' = Append(trades, NewTrade(signal))

Skip ==
    LET signal == SignalAt(series, bar)
    IN  /\ ~Open
        /\ IF signal = None THEN TRUE ELSE TooTight(signal)
        /\ UNCHANGED trades

Bar ==
    /\ bar < Len(series)
    /\ Hold \/ Close \/ Enter \/ Skip
    /\ bar' = bar + 1 /\ UNCHANGED series

(* Prices are positive. *)
Price == Nat \ {0}
Candles == [o: Price, h: Price, l: Price, c: Price]

Next == Bar \/ \E candles \in Seq(Candles) : Load(candles)

Spec == Init /\ [][Next]_vars

-----------------------------------------------------------------------------
(* Mutant: what was not stopped is a win. *)
WinsUnlessStopped(t) == t.reason # "stop"

(* pnl_pct > 0, after the fees of both sides. *)
Wins(t) ==
    /\ t.reason # "none"
    /\ (t.exit_price - t.price) * 10 > 2 * TakerFee * (t.price \div 1000)

(* The tables of main(): a trade that is still open when the data ends has  *)
(* no profit and counts as a loss.                                          *)
Counted(Which(_)) == Cardinality({k \in 1 .. Len(trades) : Which(trades[k])})

Bands == {50, 60, 70, 80, 90}

Report ==
    [signals |-> Len(trades),
     wins |-> Counted(LAMBDA t : Wins(t)),
     losses |-> Counted(LAMBDA t : ~Wins(t)),
     reasons |-> [r \in {"stop", "take", "timeout", "none"} |->
                     Counted(LAMBDA t : t.reason = r)],
     scores |-> [b \in Bands |->
                     Counted(LAMBDA t : t.signal.score \div 1000 = b \div 10)]]

-----------------------------------------------------------------------------
(* One position at a time: a trade is entered only after the one before has *)
(* ended, on a later bar, so at most the last one is open, whatever the     *)
(* signals are (simulate_symbol).                                           *)
TradesInOrder ==
    \A k \in 1 .. Len(trades) :
        /\ trades[k].reason # "none" => trades[k].exit > trades[k].entry
        /\ k < Len(trades) =>
              /\ trades[k].reason # "none"
              /\ trades[k].exit < trades[k + 1].entry

(* No position is held longer than MAX_HOLDING_H, also when neither stop    *)
(* nor profit is ever reached (simulate_symbol).                            *)
HoldingBounded ==
    \A k \in 1 .. Len(trades) :
        (IF trades[k].reason = "none" THEN bar - 1 ELSE trades[k].exit)
            - trades[k].entry <= MaxHolding

(* A trade ends on the first bar that reaches its stop or its profit, and   *)
(* when a bar reaches both the result is the worse one (simulate_symbol).   *)
ExitIsWorst ==
    \A k \in 1 .. Len(trades) :
        LET t == trades[k]
            until == IF t.reason = "none" THEN bar - 1 ELSE t.exit
            Stopped(i) == series[i + 1].l * 1000 <= t.stop
            Taken(i) == series[i + 1].h * 1000 >= t.take
        IN  /\ \A i \in t.entry + 1 .. until - 1 : ~Stopped(i) /\ ~Taken(i)
            /\ until > t.entry =>
                  /\ Stopped(until) <=> t.reason = "stop"
                  /\ t.reason = "take" <=> Taken(until) /\ ~Stopped(until)

(* Whatever the signals and the candles: one position at a time, none held  *)
(* too long, and each ends the first time it can and at its worst           *)
(* (simulate_symbol).                                                       *)
TradesSound == TradesInOrder /\ HoldingBounded /\ ExitIsWorst

(* A stop loses and a profit pays, the fees included: no stop that          *)
(* MIN_STOP_PCT lets through is so near that the fees eat the profit        *)
(* ("слишком маленький стоп, комиссии съедят", backtest_pin_bar_v1.py:292). *)
ProfitPays ==
    \A k \in 1 .. Len(trades) :
        /\ trades[k].reason = "take" => Wins(trades[k])
        /\ trades[k].reason = "stop" => ~Wins(trades[k])

(* The win rate of main() agrees with the exits: every profit and no stop   *)
(* is a win, only a timeout may be either, and the one trade that the end   *)
(* of the data leaves open, which main() takes for closed ("все сделки      *)
(* закрылись", backtest_pin_bar_v1.py:360), is no win.                      *)
ReportMatchesExits ==
    LET r == Report.reasons
    IN  /\ ProfitPays
        /\ r["take"] <= Report.wins
        /\ Report.wins <= r["take"] + r["timeout"]
        /\ Report.losses <= r["stop"] + r["timeout"] + 1
=============================================================================
