------------------------------ MODULE Momentum ------------------------------
(***************************************************************************)
(* backtest_momentum_v1 and v2: coin after coin and bar after bar, long     *)
(* when the price is above that of LOOKBACK bars before and short when it   *)
(* is not.  v1 takes every coin from its own first bar, without a stop      *)
(* loss; v2 takes the coins with a long history, cut to the period they     *)
(* have in common, with one.                                                *)
(*                                                                         *)
(* Equity is abstracted to what decides it: the position held over each bar *)
(* of the curve and the sides (exits and entries) whose fee is paid by its  *)
(* end.  The run without fees that main() repeats has the same decisions.   *)
(***************************************************************************)
EXTENDS Integers, Sequences

CONSTANTS
    None,
    LOOKBACK,           \* MOMENTUM_LOOKBACK_H (720)
    Enough,             \* bars a coin must have beyond the lookback (100)
    MIN_HISTORY         \* of v2, MIN_HISTORY_H (8760)

VARIABLES
    HasStop,            \* whether it is v2, which has the stop loss
    book,               \* history: what was loaded, coins [ts, closes]
    coins,              \* the coins still to run
    run,                \* the run of the current coin, or None
    results,
    portfolio           \* None until all coins have run

MAX_LOSS == 25          \* percent

Highest(S) == CHOOSE x \in S : \A y \in S : y <= x
Lowest(S) == CHOOSE x \in S : \A y \in S : x <= y

Loading == book = << >>

(* The coins with data enough, by name. *)
LongEnough(list, hours) ==
    LET kept[k \in 0 .. Len(list)] ==
            IF k = 0 THEN << >>
            ELSE IF Len(list[k].closes) >= hours THEN Append(kept[k - 1], list[k])
            ELSE kept[k - 1]
    IN  kept[Len(list)]

(* v1, main: the coins of the database, by name, with data enough. *)
LoadV1(database) ==
    /\ Loading
    /\ book' = database
    /\ coins' = LongEnough(database, LOOKBACK + Enough)
    /\ UNCHANGED <<run, results, portfolio>>

(* The bars of a coin from one time to another; they are in order. *)
Within(coin, from, to) ==
    LET kept == {k \in 1 .. Len(coin.ts) : coin.ts[k] >= from /\ coin.ts[k] <= to}
        Part(list) == IF kept = {} THEN << >>
                      ELSE SubSeq(list, Lowest(kept), Highest(kept))
    IN  [ts |-> Part(coin.ts), closes |-> Part(coin.closes)]

CutTo(coin, n) == [ts |-> SubSeq(coin.ts, 1, n), closes |-> SubSeq(coin.closes, 1, n)]

(* Mutant: the period starts with the oldest coin. *)
StartOldest(firsts) == Lowest(firsts)

(* The common period starts with the youngest coin. *)
CommonStart(firsts) == Highest(firsts)

(* filter_and_align: the period from the youngest coin's start to the       *)
(* earliest end, then all cut to the shortest, whatever bars are missing.   *)
FilterAndAlign(database) ==
    LET old == LongEnough(database, LOOKBACK + MIN_HISTORY)
        from == CommonStart({old[k].ts[1] : k \in 1 .. Len(old)})
        to == Lowest({old[k].ts[Len(old[k].ts)] : k \in 1 .. Len(old)})
        common == LongEnough([k \in 1 .. Len(old) |-> Within(old[k], from, to)],
                             LOOKBACK + Enough)
        shortest == Lowest({Len(common[k].ts) : k \in 1 .. Len(common)})
    IN  IF old = << >> THEN << >>
        ELSE IF from >= to \/ common = << >> THEN << >>
        ELSE [k \in 1 .. Len(common) |-> CutTo(common[k], shortest)]

LoadV2(database) ==
    /\ Loading
    /\ book' = database
    /\ coins' = FilterAndAlign(database)
    /\ UNCHANGED <<run, results, portfolio>>

-----------------------------------------------------------------------------
Sign(x) == IF x > 0 THEN 1 ELSE -1

StartCoin ==
    /\ run = None /\ coins # << >>
    /\ coins' = Tail(coins)
    /\ run' = [coin |-> Head(coins), i |-> LOOKBACK, position |-> 0,
               entry |-> 0, trades |-> 0, stops |-> 0,
               curve |-> <<[held |-> 0, sides |-> 0]>>]
    /\ UNCHANGED <<book, results, portfolio>>

Close(i) == run.coin.closes[i + 1]
Price == Close(run.i)
Sides == run.curve[Len(run.curve)].sides

(* The end of a bar over which a position was held, and the fees it paid.   *)
EndOfBar(held, fees, after) ==
    /\ run' = [after EXCEPT
                  !.i = @ + 1,
                  !.curve = Append(@, [held |-> held, sides |-> Sides + fees])]
    /\ UNCHANGED <<book, coins, results, portfolio>>

Running == run # None /\ run.i < Len(run.coin.closes)

Unpriced == Close(run.i - 1) <= 0 \/ Price <= 0

(* Mutant: the bar is left out of the curve. *)
SkipSilently ==
    /\ Running /\ Unpriced
    /\ run' = [run EXCEPT !.i = @ + 1]
    /\ UNCHANGED <<book, coins, results, portfolio>>

(* The bar adds nothing to the curve, not even to a position that is held.  *)
SkipBar == Running /\ Unpriced /\ EndOfBar(0, 0, run)

(* Mutant: the loss of a short is taken for that of a long. *)
LostLongOnly(price) ==
    HasStop /\ run.position # 0 /\ run.entry > 0
        /\ (price - run.entry) * 100 < -MAX_LOSS * run.entry

(* The position has lost more than MAX_LOSS_PCT at this price. *)
Lost(price) ==
    HasStop /\ run.position # 0 /\ run.entry > 0
        /\ (price - run.entry) * run.position * 100 < -MAX_LOSS * run.entry

StopOut ==
    /\ Running /\ ~Unpriced /\ Lost(Price)
    /\ EndOfBar(run.position, 1,
                [run EXCEPT !.position = 0, !.entry = 0, !.stops = @ + 1])

Target == Sign(Price - Close(run.i - LOOKBACK))

Keep ==
    /\ Running /\ ~Unpriced /\ ~Lost(Price)
    /\ Close(run.i - LOOKBACK) <= 0 \/ Target = run.position
    /\ EndOfBar(run.position, 0, run)

Turned ==
    [run EXCEPT !.position = Target, !.entry = Price, !.trades = @ + 1]

(* Mutant: the position is turned before the bar's return is applied. *)
TurnFirst ==
    /\ Running /\ ~Unpriced /\ ~Lost(Price)
    /\ Close(run.i - LOOKBACK) > 0 /\ Target # run.position
    /\ EndOfBar(Target, IF run.position # 0 THEN 2 ELSE 1, Turned)

(* Mutant: only the entry is paid for. *)
TurnHalfPaid ==
    /\ Running /\ ~Unpriced /\ ~Lost(Price)
    /\ Close(run.i - LOOKBACK) > 0 /\ Target # run.position
    /\ EndOfBar(run.position, 1, Turned)

(* The bar's return goes to the old position; only then is it turned. *)
Turn ==
    /\ Running /\ ~Unpriced /\ ~Lost(Price)
    /\ Close(run.i - LOOKBACK) > 0 /\ Target # run.position
    /\ EndOfBar(run.position, IF run.position # 0 THEN 2 ELSE 1, Turned)

Finish ==
    /\ run # None /\ ~Running
    /\ results' = Append(results, run)
    /\ run' = None
    /\ UNCHANGED <<book, coins, portfolio>>

Lengths == {Len(results[r].curve) : r \in DOMAIN results}

Total(f(_)) ==
    LET sum[r \in 0 .. Len(results)] ==
            IF r = 0 THEN 0 ELSE sum[r - 1] + f(results[r])
    IN  sum[Len(results)]

(* aggregate_portfolio: equal weights, cut to the shortest curve, bar k of  *)
(* one coin with bar k of the others.  hours is what main() annualises by.  *)
Aggregate(hours) ==
    /\ run = None /\ coins = << >> /\ results # << >> /\ portfolio = None
    /\ portfolio' = [length |-> Lowest(Lengths),
                     trades |-> Total(LAMBDA r : r.trades),
                     stops |-> Total(LAMBDA r : r.stops),
                     hours |-> hours]
    /\ UNCHANGED <<book, coins, run, results>>

Bar == SkipBar \/ StopOut \/ Keep \/ Turn

Coin == StartCoin \/ Bar \/ Finish

AggregateV1 == Aggregate(Lowest(Lengths) - 1)

(* main of v2 annualises by the whole common period, warm-up included. *)
AggregateV2 == Aggregate(Len(results[1].coin.ts))

-----------------------------------------------------------------------------
Runs == {results[r] : r \in DOMAIN results} \cup ({run} \ {None})

(* A curve has one point for every bar from the first that has a momentum,  *)
(* also for the bars that are skipped (run_momentum_single).                *)
CurveComplete ==
    \A r \in Runs : Len(r.curve) = r.i - LOOKBACK + 1

(* Every position that was entered is paid for once, and once more when it  *)
(* was left, by a turn or by a stop (run_momentum_single).                  *)
FeesPerTurn ==
    \A r \in Runs :
        r.curve[Len(r.curve)].sides
            = 2 * r.trades - (IF r.position = 0 THEN 0 ELSE 1)

(* What is held over a bar was decided by an earlier one, the last that has *)
(* a price, the price before it and the one to compare with: no bar earns   *)
(* the return that made its own decision (run_momentum_single).             *)
HeldIsYesterdays ==
    \A r \in Runs :
        LET c(i) == r.coin.closes[i + 1]
            Decided(b) == {j \in LOOKBACK .. b - 1 :
                              c(j) > 0 /\ c(j - 1) > 0 /\ c(j - LOOKBACK) > 0}
        IN  \A k \in 2 .. Len(r.curve) :
               LET b == LOOKBACK + k - 2
                   held == r.curve[k].held
               IN  held # 0 =>
                     \E j \in Decided(b) :
                        /\ \A other \in Decided(b) : other <= j
                        /\ held = Sign(c(j) - c(j - LOOKBACK))

(* A position that outlives a bar with a price has lost at most             *)
(* MAX_LOSS_PCT there, long or short ("если позиция теряет > max_loss →     *)
(* выход", backtest_momentum_v2.py:178).                                    *)
LossLimited ==
    HasStop /\ run # None /\ run.position # 0 =>
        LET c(i) == run.coin.closes[i + 1]
            last == run.i - 1
        IN  c(last) > 0 /\ c(last - 1) > 0 =>
               (c(last) - run.entry) * run.position * 100
                   >= -MAX_LOSS * run.entry

Gapless(coin) == \A k \in 1 .. Len(coin.ts) - 1 : coin.ts[k + 1] = coin.ts[k] + 1

(* When no coin of the database misses a bar, the portfolio of v2 adds up   *)
(* bars of the same hour: bar k of every coin has the same time, however    *)
(* the lengths and ends of the coins differ (filter_and_align).             *)
AlignedWithoutGaps ==
    HasStop /\ (\A k \in DOMAIN book : Gapless(book[k])) =>
        \A r, other \in DOMAIN results :
            results[r].coin.ts = results[other].coin.ts

(* The curve of a run is that of its decisions: it is complete, earns no    *)
(* return that made its own decision, pays a fee for every side, and keeps  *)
(* what is lost and what is added up across coins as main() reports it.     *)
MomentumSound ==
    CurveComplete /\ FeesPerTurn /\ HeldIsYesterdays /\ LossLimited
        /\ AlignedWithoutGaps
=============================================================================
