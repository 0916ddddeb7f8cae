----------------------------- MODULE PaperTrade -----------------------------
(***************************************************************************)
(* simulate_symbol and the report of paper_trade: a position for each       *)
(* signal that was sent and does not overlap the position before, through   *)
(* the funding settlements of one symbol; and paper_trade_zero_fee, the     *)
(* same simulation of the same signals with no costs, run after it to tell  *)
(* what the fees cost.                                                      *)
(*                                                                         *)
(* Money is in units of the notional's smallest part; times are hours.      *)
(***************************************************************************)
EXTENDS Integers, Sequences, FiniteSets

CONSTANTS
    None,
    MAX_HOLDING_HOURS,
    LOW_FUNDING_CONSECUTIVE,
    OneTimeCost,        \* load_metrics_at: always its default of 0.0025
    CostsPerSettlement  \* costs_annualized, per settlement

VARIABLES
    costs,              \* of the script that runs: once for a position, and
                        \* per settlement (costs_usd, costs_annualized)
    data,               \* [decisions, snapshots, metrics, now], or None
    todo,               \* the hours of the signals still to simulate
    position,           \* None, or the position that is simulated
    trades, skipped,
    real                \* the trades of paper_trade, or None while it runs

Lowest(S) == CHOOSE x \in S : \A y \in S : x <= y
Highest(S) == CHOOSE x \in S : \A y \in S : y <= x
Distance(x, y) == IF x < y THEN y - x ELSE x - y

(* load_symbol_settlements: of the snapshots before a settlement the last.  *)
RateOf(snapshots, time) ==
    LET of == {s \in snapshots : s.next = time}
    IN  (CHOOSE s \in of : s.received = Highest({r.received : r \in of})).rate

SettlementTimes(snapshots) == {s.next : s \in snapshots} \ {None}

Rate(time) == RateOf(data.snapshots, time)

(* load_metrics_at: the basis of the nearest metrics, 0 without any. *)
BasisAt(metrics, time) ==
    IF metrics = {} THEN 0
    ELSE (CHOOSE m \in metrics : \A other \in metrics :
             Distance(m.at, time) <= Distance(other.at, time)).basis

(* load_signals: the decisions whose alert was sent; they come by time. *)
LoadSignals(input) ==
    {h \in 1 .. input.now : [at |-> h, delivery_status |-> "sent"] \in input.decisions}

(* A run over the data of the database, from nothing. *)
Start(input, charged) ==
    /\ data' = input /\ todo' = LoadSignals(input) /\ costs' = charged
    /\ trades' = << >> /\ skipped' = 0 /\ position' = None

LastExit == IF trades = << >> THEN -1 ELSE trades[Len(trades)].exit

Signal == Lowest(todo)

(* A signal while the position of the one before is still held. *)
Skip ==
    /\ position = None /\ todo # {} /\ Signal < LastExit
    /\ todo' = todo \ {Signal} /\ skipped' = skipped + 1
    /\ UNCHANGED <<costs, data, position, trades>>

Entered(entry) ==
    [entry |-> entry, last |-> entry, count |-> 0, income |-> 0, streak |-> 0]

(* Mutant: a signal during a position opens another. *)
EnterAnyway ==
    /\ position = None /\ todo # {}
    /\ todo' = todo \ {Signal} /\ position' = Entered(Signal)
    /\ UNCHANGED <<costs, data, trades, skipped>>

Enter ==
    /\ position = None /\ todo # {} /\ Signal >= LastExit
    /\ todo' = todo \ {Signal} /\ position' = Entered(Signal)
    /\ UNCHANGED <<costs, data, trades, skipped>>

(* Mutant: a settlement at the hour of the entry counts too. *)
ComingAtEntry ==
    {t \in SettlementTimes(data.snapshots) :
        /\ t > position.last \/ (position.count = 0 /\ t = position.entry)
        /\ t <= data.now}

(* The settlements after the entry that are over and not yet counted. *)
Coming ==
    {t \in SettlementTimes(data.snapshots) : t > position.last /\ t <= data.now}

Settlement == Lowest(Coming)

(* Mutant: an hour too late. *)
HorizonLate == position.entry + MAX_HOLDING_HOURS + 1

Horizon == position.entry + MAX_HOLDING_HOURS

(* Mutant: the round trip is paid for on both sides. *)
CostsTwice == 2 * costs.once

Costs == costs.once

Leave(end, reason, count, income) ==
    /\ trades' = Append(trades,
           [entry |-> position.entry, exit |-> end, reason |-> reason,
            count |-> count, income |-> income,
            net |-> income - Costs + BasisAt(data.metrics, position.entry)
                                   - BasisAt(data.metrics, end)])
    /\ position' = None
    /\ UNCHANGED <<costs, data, todo, skipped>>

(* The next settlement is past the horizon, where the position has ended.   *)
MaxHolding ==
    /\ position # None /\ Coming # {} /\ Settlement > Horizon
    /\ Leave(Horizon, "max_holding", position.count, position.income)

(* Mutant: settlements between low ones do not end their row. *)
StreakKept(rate) ==
    IF rate < costs.settlement THEN position.streak + 1 ELSE position.streak

(* Mutant: a settlement that pays just the costs is low. *)
StreakAtMost(rate) ==
    IF rate <= costs.settlement THEN position.streak + 1 ELSE 0

(* Settlements in a row that pay less than the costs do. *)
Streak(rate) == IF rate < costs.settlement THEN position.streak + 1 ELSE 0

Decayed(rate) == Streak(rate) >= LOW_FUNDING_CONSECUTIVE

LeaveAtSettlement(reason) ==
    Leave(Settlement, reason, position.count + 1,
          position.income + Rate(Settlement))

Settling == position # None /\ Coming # {} /\ Settlement <= Horizon

NegativeFunding ==
    /\ Settling /\ Rate(Settlement) < 0
    /\ LeaveAtSettlement("negative_funding")

FundingDecayed ==
    /\ Settling /\ Rate(Settlement) >= 0 /\ Decayed(Rate(Settlement))
    /\ LeaveAtSettlement("funding_decayed")

Collect ==
    /\ Settling /\ Rate(Settlement) >= 0 /\ ~Decayed(Rate(Settlement))
    /\ position' = [position EXCEPT
           !.last = Settlement, !.count = @ + 1,
           !.income = @ + Rate(Settlement), !.streak = Streak(Rate(Settlement))]
    /\ UNCHANGED <<costs, data, todo, trades, skipped>>

(* No settlement is left: the position is "open" at now, or at the horizon. *)
RunOut ==
    /\ position # None /\ Coming = {}
    /\ Leave(Lowest({data.now, Horizon}), "open", position.count, position.income)

Step ==
    \/ Skip \/ Enter \/ Collect
    \/ MaxHolding \/ NegativeFunding \/ FundingDecayed \/ RunOut

Done == data # None /\ todo = {} /\ position = None

(* print_report: the share of the closed trades that made money. *)
Report ==
    LET closed == SelectSeq(trades, LAMBDA t : t.reason # "open")
    IN  [trades |-> Len(trades), closed |-> Len(closed), skipped |-> skipped,
         winning |-> Len(SelectSeq(closed, LAMBDA t : t.net > 0))]

-----------------------------------------------------------------------------
RealCosts == [once |-> OneTimeCost, settlement |-> CostsPerSettlement]
NoCosts == [once |-> 0, settlement |-> 0]

(* paper_trade, over what the database has ... *)
StartReal(input) == data = None /\ Start(input, RealCosts) /\ UNCHANGED real

(* ... and after it paper_trade_zero_fee, over the same. *)
StartFree ==
    /\ Done /\ real = None
    /\ real' = trades /\ Start(data, NoCosts)

SimulateSymbol == Step /\ UNCHANGED real

(* zero_fee_pnl - real_pnl. *)
PnlDifference ==
    LET sum[k \in 0 .. Len(trades)] ==
            IF k = 0 THEN 0 ELSE sum[k - 1] + trades[k].net - real[k].net
    IN  sum[Len(trades)]

-----------------------------------------------------------------------------
(* One position per symbol at a time: a trade is entered when the one       *)
(* before has ended ("Одна позиция на символ одновременно",                 *)
(* paper_trade.py:6).                                                       *)
OnePositionPerSymbol ==
    \A k \in 1 .. Len(trades) - 1 : trades[k].exit <= trades[k + 1].entry

(* A trade is held at most MAX_HOLDING_HOURS, and never beyond now, however *)
(* the settlements lie (simulate_symbol).                                   *)
HoldingCapped ==
    \A k \in DOMAIN trades :
        /\ trades[k].exit - trades[k].entry <= MAX_HOLDING_HOURS
        /\ trades[k].exit <= data.now

SettledIn(from, to) ==
    {t \in SettlementTimes(data.snapshots) : t > from /\ t <= to}

SumOfRates(times) ==
    LET sum[t \in 0 .. data.now] ==
            IF t = 0 THEN 0
            ELSE LET before == sum[t - 1]
                 IN  IF t \in times THEN before + Rate(t) ELSE before
    IN  sum[data.now]

(* The income of a trade is that of exactly the settlements while it was    *)
(* held, of each the last rate announced before it (simulate_symbol).       *)
IncomeMatchesHolding ==
    \A k \in DOMAIN trades :
        trades[k].income
            = SumOfRates(SettledIn(trades[k].entry, trades[k].exit))

(* Funding has decayed when the last LOW_FUNDING_CONSECUTIVE settlements    *)
(* all paid less than the costs, and not before                             *)
(* ("N сеттлментов подряд", paper_trade.py:10).                             *)
DecayIsPersistent ==
    \A k \in DOMAIN trades :
        LET held == SettledIn(trades[k].entry, trades[k].exit)
            LastLow(t) ==
                LET before == {s \in held : s <= t}
                    row == {s \in before : \A r \in before :
                               r >= s => Rate(r) < costs.settlement}
                IN  Cardinality(row) >= LOW_FUNDING_CONSECUTIVE
        IN  /\ trades[k].reason = "funding_decayed" => LastLow(trades[k].exit)
            /\ \A t \in held : t < trades[k].exit => ~LastLow(t)

(* What the report adds up is what the settlements would have paid: no two  *)
(* positions of a symbol at once, none too long, every settlement of it     *)
(* counted once, and none given up but for a lasting reason                 *)
(* (simulate_symbol).                                                       *)
PaperTradesSound ==
    OnePositionPerSymbol /\ HoldingCapped /\ IncomeMatchesHolding
        /\ DecayIsPersistent

(* Without costs a position is never given up early: the first is held at   *)
(* least as long as with them, and no funding decays (simulate_symbol).     *)
FreeHoldsLonger ==
    /\ \A k \in DOMAIN trades : trades[k].reason # "funding_decayed"
    /\ Done /\ trades # << >> => trades[1].exit >= real[1].exit

(* The difference of the two runs is what the fees cost                     *)
(* ("zero_fee_pnl - real_pnl = вклад комиссий", paper_trade_zero_fee.py:12) *)
(* as long as no real trade was ended by decay, which costs alone can       *)
(* cause: then the trades are the same.                                     *)
FeesAreTheDifference ==
    real # None =>
        /\ FreeHoldsLonger
        /\ Done /\ (\A k \in DOMAIN real : real[k].reason # "funding_decayed")
               => /\ Len(trades) = Len(real)
                  /\ PnlDifference = Len(trades) * OneTimeCost
=============================================================================
