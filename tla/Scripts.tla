------------------------------ MODULE Scripts -------------------------------
(***************************************************************************)
(* The research scripts that are not about pin bars, each a part of its own *)
(* that starts in a state of its own: the momentum backtests, paper         *)
(* trading, the selection of pairs and the collectors.  None and trades     *)
(* are those of PinBarCommon, which all parts share.                        *)
(***************************************************************************)
EXTENDS PinBarCommon

CONSTANTS
    LOOKBACK, Enough, MIN_HISTORY,                          \* Momentum
    MAX_HOLDING_HOURS, LOW_FUNDING_CONSECUTIVE, OneTimeCost,
    CostsPerSettlement,                                     \* PaperTrade
    Q, MIN_CANDLES, MIN_VR, MAX_RUNS,                       \* PairSelection
    SYMBOLS, SYMBOL_MAP, LAST_HOUR, MAX_CYCLES, TOP_N, PAGE, HISTORY,
    MAX_HOUR, MAX_LOOPS                                     \* Collectors

(* What the parts may read. *)
CONSTANTS BooksV1, BooksV2, PaperInputs, Markets, LaterMarkets, TickerLists, Exchanges

VARIABLES
    part,
    book, coins, run, results, portfolio,                   \* Momentum
    costs, data, todo, position, paid, skipped, real,       \* PaperTrade
    market, phase, pairs, whitelist, temp, session, runs,
    latest,                                                 \* PairSelection
    hour, rows, polls,                                      \* Collectors
    attempt, cycle, table, snapshot,
    exchange, now, queue, from, end, stored, pages

Coins == INSTANCE Momentum WITH HasStop <- (part = "m2")
Paper == INSTANCE PaperTrade WITH trades <- paid
Pairs == INSTANCE PairSelection
Collectors == INSTANCE Collectors

momentumVars == <<book, coins, run, results, portfolio>>
paperVars == <<costs, data, todo, position, paid, skipped, real>>
pairVars == <<market, phase, pairs, whitelist, temp, session, runs, latest>>
klineVars == <<hour, rows, polls>>
fundingVars == <<attempt, cycle, table, snapshot>>
fillVars == <<exchange, now, queue, from, end, stored, pages>>

scriptVars == <<momentumVars, paperVars, pairVars, klineVars, fundingVars, fillVars>>

-----------------------------------------------------------------------------
(* A pair is listed once, and has its statistics.  A variance ratio of 1.0, *)
(* 10 tenths, does not pass MIN_VR720.  None is no selection of pairs.      *)
ASSUME SelectionParams ==
    /\ None # {} /\ Q \in Int /\ MIN_VR \in Int /\ 10 <= MIN_VR
    /\ \A m \in Markets \cup LaterMarkets :
          LET listed == {m.pairs[k] : k \in DOMAIN m.pairs}
          IN  /\ m.pairs \in Seq(listed)
              /\ \A chosen \in SUBSET listed : chosen # None
              /\ m.bars \in [listed -> Int] /\ m.vr \in [listed -> Int]
              /\ \A i, j \in 1 .. Len(m.pairs) :
                    m.pairs[i] = m.pairs[j] => i = j

(* A list of tickers has one for a symbol. *)
ASSUME CollectorParams ==
    /\ HISTORY \in Int /\ PAGE \in Int
    /\ \A list \in TickerLists :
          /\ Len(list) \in Nat
          /\ \A i, j \in 1 .. Len(list) : list[i].symbol = list[j].symbol => i = j

(* What a trade and a position of paper trading are made of. *)
PaidTrades ==
    [entry: Nat, exit: Nat, count: Nat, income: Int, net: Int,
     reason: {"max_holding", "negative_funding", "funding_decayed", "open"}]

HeldPositions == [entry: Nat, last: Nat, count: Nat, income: Int, streak: Nat]

(* The snapshots of a symbol are finitely many, their times and those of    *)
(* its metrics whole, and None is neither data, position nor trades.        *)
ASSUME PaperParams ==
    /\ MAX_HOLDING_HOURS \in Nat /\ LOW_FUNDING_CONSECUTIVE \in Nat \ {0}
    /\ OneTimeCost \in Int
    /\ None \notin PaperInputs /\ None \notin HeldPositions
    /\ None \notin Seq(PaidTrades)
    /\ \A input \in PaperInputs :
          /\ input.now \in Nat /\ IsFiniteSet(input.snapshots)
          /\ \A s \in input.snapshots :
                s.next \in Nat \cup {None} /\ s.received \in Int /\ s.rate \in Int
          /\ \A m \in input.metrics : m.at \in Int /\ m.basis \in Int

(* A coin has a time and a close for every bar.  A book is a list of coins. *)
ASSUME MomentumParams ==
    /\ LOOKBACK \in Nat \ {0} /\ Enough \in Nat /\ MIN_HISTORY \in Nat
    /\ \A list \in BooksV1 \cup BooksV2 :
          /\ list \in Seq({list[k] : k \in DOMAIN list})
          /\ \A k \in 1 .. Len(list) :
                /\ list[k].ts \in Seq(Nat) /\ list[k].closes \in Seq(Int)
                /\ Len(list[k].ts) = Len(list[k].closes)

-----------------------------------------------------------------------------
(* Each part starts from nothing, and picks its input in its first step. *)
ScriptsInit ==
    /\ book = << >> /\ coins = << >> /\ run = None /\ results = << >> /\ portfolio = None
    /\ costs = None /\ data = None /\ todo = {} /\ position = None
    /\ paid = << >> /\ skipped = 0 /\ real = None
    /\ Pairs!Init /\ Collectors!Init

MomentumRuns ==
    /\ \/ /\ part = "m1"
          /\ (\E database \in BooksV1 : Coins!LoadV1(database)) \/ Coins!AggregateV1
       \/ /\ part = "m2"
          /\ (\E database \in BooksV2 : Coins!LoadV2(database)) \/ Coins!AggregateV2
       \/ part \in {"m1", "m2"} /\ Coins!Coin
    /\ UNCHANGED <<part, paperVars, pairVars, klineVars, fundingVars, fillVars>>

PaperTrading ==
    /\ part = "paper"
    /\ \/ data = None /\ \E input \in PaperInputs : Paper!StartReal(input)
       \/ Paper!SimulateSymbol \/ Paper!StartFree
    /\ UNCHANGED <<part, momentumVars, pairVars, klineVars, fundingVars, fillVars>>

PairSelecting ==
    /\ part = "pairs"
    /\ \/ /\ phase = "idle"
          /\ \E m \in IF runs = 0 THEN Markets ELSE LaterMarkets : Pairs!Start(m)
       \/ Pairs!Select
    /\ UNCHANGED <<part, momentumVars, paperVars, klineVars, fundingVars, fillVars>>

Collecting ==
    \/ /\ part = "klines" /\ Collectors!CollectKlines
       /\ UNCHANGED <<part, momentumVars, paperVars, pairVars, fundingVars, fillVars>>
    \/ /\ part = "funding"
       /\ Collectors!CollectFunding \/ \E list \in TickerLists : Collectors!Fetch(list)
       /\ UNCHANGED <<part, momentumVars, paperVars, pairVars, klineVars, fillVars>>
    \/ /\ part = "backfill"
       /\ Collectors!Backfill \/ \E e \in Exchanges : Collectors!Start(e)
       /\ UNCHANGED <<part, momentumVars, paperVars, pairVars, klineVars, fundingVars>>

RunScripts == MomentumRuns \/ PaperTrading \/ PairSelecting \/ Collecting

-----------------------------------------------------------------------------
(* The properties of the parts; each is stated and explained in its module. *)
MomentumSound == Coins!MomentumSound
PaperTradesSound == Paper!PaperTradesSound
FeesAreTheDifference == Paper!FeesAreTheDifference
PairsSound == Pairs!PairsSound
WhitelistWhole == Pairs!WhitelistWhole
CollectedIsTrue == Collectors!CollectedIsTrue
=============================================================================
