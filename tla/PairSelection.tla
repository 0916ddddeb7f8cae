---------------------------- MODULE PairSelection ----------------------------
(***************************************************************************)
(* select_pairs_momentum: run after run of the script picks the pairs that  *)
(* are liquid, trending and not correlated, and replaces the whitelist file *)
(* with them.  A run may be killed at any step.                             *)
(*                                                                         *)
(* The statistics of a pair are data of the market: only variance_ratio is  *)
(* modelled by what it does, for its result without history decides.        *)
(***************************************************************************)
EXTENDS Integers, Sequences, FiniteSets

CONSTANTS
    None,
    Q,                  \* the scale of the variance ratio (720 hours)
    MIN_CANDLES,        \* bars a pair must have (500)
    MIN_VR,             \* MIN_VR720, in tenths (10)
    MAX_RUNS            \* bound: runs of the script

VARIABLES
    market,             \* what the exchange would answer in this run
    phase,
    pairs,              \* the pairs that are left; the exchange orders them
    whitelist,          \* the file: None, or what is in it
    temp,               \* the temporary file written last, likewise
    session,            \* the connection to the exchange
    runs
VARIABLE
    latest              \* history: the pairs of the last run that replaced
                        \* the whitelist

vars == <<market, phase, pairs, whitelist, temp, session, runs, latest>>

(* A file with all of these pairs in it, and one that is half written. *)
Whole(list) == [of |-> list, whole |-> TRUE]
Half(list) == [of |-> list, whole |-> FALSE]

Init ==
    /\ market = None /\ phase = "idle" /\ pairs = {}
    /\ whitelist = None /\ temp = None /\ session = "none" /\ runs = 0
    /\ latest = None

(* main, over an exchange that would answer m. *)
Start(m) ==
    /\ phase = "idle" /\ runs < MAX_RUNS
    /\ market' = m /\ phase' = "markets" /\ session' = "open"
    /\ runs' = runs + 1
    /\ UNCHANGED <<pairs, whitelist, temp, latest>>

Go(from, to, left) ==
    /\ phase = from /\ phase' = to /\ pairs' = left
    /\ UNCHANGED <<market, whitelist, temp, session, runs, latest>>

Listed == {market.pairs[k] : k \in DOMAIN market.pairs}

(* get_active_usdt_pairs: no pairs when the markets cannot be loaded. *)
LoadMarkets ==
    \/ Go("markets", "health", Listed \cap market.active)
    \/ Go("markets", "health", {})

(* check_btc_health: not healthy also without candles. *)
CheckBtcHealth ==
    \/ Go("health", "tickers", pairs)
    \/ Go("health", "selected", {})

(* fetch_tickers fails, or the liquid pairs are kept. *)
FetchTickers ==
    \/ Go("tickers", "selected", {})
    \/ Go("tickers", "candles", pairs \cap market.liquid)

(* Mutant: the ratio is estimated from any number of returns. *)
VarianceRatioAlways(n, estimate) == estimate

(* variance_ratio of n returns: 1.0 with fewer than four blocks of them. *)
VarianceRatio(n, estimate) == IF n < 4 * Q THEN 10 ELSE estimate

Vr(p) == VarianceRatio(market.bars[p] - 1, market.vr[p])

(* The trend filters of stage 3; trending stands for Hurst, the volatility  *)
(* and the correlation with BTC.                                            *)
IsCandidate(p) ==
    /\ market.bars[p] >= MIN_CANDLES
    /\ p \in market.trending
    /\ Vr(p) > MIN_VR

(* The candles of a pair that cannot be loaded leave it out.                *)
FetchCandles ==
    /\ phase = "candles"
    /\ \E loaded \in SUBSET market.liquid :
          Go("candles", "candidates", {p \in pairs \cap loaded : IsCandidate(p)})

Correlated(p, q) == {p, q} \in market.correlated

(* Mutant: the more trending of the two is taken out. *)
RejectBetter(p, q, rejected) ==
    IF \/ ~({p, q} \subseteq pairs) \/ {p, q} \cap rejected # {}
       \/ ~Correlated(p, q)
    THEN rejected
    ELSE rejected \cup {IF Vr(p) >= Vr(q) THEN p ELSE q}

(* Of two pairs that are correlated and still in, the less trending goes,   *)
(* of equals the later one.                                                 *)
Reject(p, q, rejected) ==
    IF \/ ~({p, q} \subseteq pairs) \/ {p, q} \cap rejected # {}
       \/ ~Correlated(p, q)
    THEN rejected
    ELSE rejected \cup {IF Vr(p) < Vr(q) THEN p ELSE q}

(* Mutant: a pair is only compared with the one after it. *)
RowOfNext(i, rejected) ==
    IF i < Len(market.pairs)
    THEN Reject(market.pairs[i], market.pairs[i + 1], rejected) ELSE rejected

(* Stage 4: a pair is compared with those that come after it ... *)
Row(i, rejected) ==
    LET n == Len(market.pairs)
        after[j \in 0 .. n] ==
            IF j = 0 THEN rejected
            ELSE IF j <= i THEN after[j - 1]
            ELSE Reject(market.pairs[i], market.pairs[j], after[j - 1])
    IN  after[n]

(* ... pair after pair. *)
Rejected ==
    LET n == Len(market.pairs)
        after[i \in 0 .. n] == IF i = 0 THEN {} ELSE Row(i, after[i - 1])
    IN  after[n]

FilterCorrelated == Go("candidates", "selected", pairs \ Rejected)

-----------------------------------------------------------------------------
Files(from, to, file, tmp) ==
    /\ phase = from /\ phase' = to /\ whitelist' = file /\ temp' = tmp
    /\ UNCHANGED <<market, pairs, session, runs>>

(* Without a pair the whitelist stays as it is. *)
KeepWhitelist ==
    pairs = {} /\ Files("selected", "report", whitelist, temp) /\ UNCHANGED latest

(* Mutant: the file is opened for writing in place. *)
OpenInPlace ==
    pairs # {} /\ Files("selected", "writing", Half(pairs), temp) /\ UNCHANGED latest

(* atomic_json_write: a temporary file of a name of its own is opened ...   *)
OpenTemp ==
    pairs # {} /\ Files("selected", "writing", whitelist, Half(pairs)) /\ UNCHANGED latest

(* ... written and closed ...                                               *)
WriteTemp == Files("writing", "written", whitelist, Whole(temp.of)) /\ UNCHANGED latest

(* ... and takes the place of the whitelist in one step.                    *)
ReplaceWhitelist ==
    Files("written", "report", temp, None) /\ latest' = pairs

(* Each of the three may raise; what was opened is removed, if that works.  *)
WriteFails ==
    /\ UNCHANGED latest
    /\ \/ pairs # {} /\ Files("selected", "failed", whitelist, temp)
       \/ \E at \in {"writing", "written"}, left \in {None, temp} :
             Files(at, "failed", whitelist, left)

(* The report to Telegram; what goes wrong there is swallowed. *)
Report == Go("report", "close", pairs)

(* Mutant: an error skips the closing of the session. *)
FailWithoutClose == Go("failed", "idle", pairs)

(* An error in main() is logged, and the session closed all the same. *)
Fail == Go("failed", "close", pairs)

(* What goes wrong in closing it is logged. *)
CloseSession ==
    /\ phase = "close" /\ phase' = "idle" /\ session' \in {"closed", "not_closed"}
    /\ market' = None /\ pairs' = {}
    /\ UNCHANGED <<whitelist, temp, runs, latest>>

Kill ==
    /\ phase # "idle"
    /\ phase' = "idle" /\ session' = "killed"
    /\ market' = None /\ pairs' = {}
    /\ UNCHANGED <<whitelist, temp, runs, latest>>

Select ==
    \/ LoadMarkets \/ CheckBtcHealth \/ FetchTickers \/ FetchCandles
    \/ FilterCorrelated \/ KeepWhitelist \/ OpenTemp \/ WriteTemp
    \/ ReplaceWhitelist \/ WriteFails \/ Report \/ Fail \/ CloseSession \/ Kill

-----------------------------------------------------------------------------
Chosen == phase = "selected" /\ pairs # {}

(* No two pairs that were selected are correlated, in whatever order the    *)
(* greedy filter met them (filter_pairs).                                   *)
PairwiseUncorrelated ==
    Chosen => \A p, q \in pairs : p # q => ~Correlated(p, q)

(* A pair is taken out for one that is at least as trending, which may go   *)
(* in turn for another: but the most trending candidate is never lost, and  *)
(* where there was a candidate something is selected (filter_pairs).        *)
BestSurvives ==
    phase = "candidates" /\ pairs # {} =>
        \E p \in pairs \ Rejected :
            \A q \in pairs : Vr(q) <= Vr(p)

(* A variance ratio of 1.0 does not pass, so nothing at all is selected     *)
(* without four blocks of returns, which LOOKBACK_1H of 800 candles never   *)
(* gives (variance_ratio, filter_pairs).                                    *)
NothingWithoutHistory ==
    Chosen => \A p \in pairs : market.bars[p] - 1 >= 4 * Q

(* What is selected is worth trading together: no two correlated, the most  *)
(* trending kept, and none whose trend was never measured (filter_pairs).   *)
PairsSound == PairwiseUncorrelated /\ BestSurvives /\ NothingWithoutHistory

(* Whenever the process is killed and whichever write fails, the file is    *)
(* not there, when no run has replaced it yet, or holds the whole selection *)
(* of the last run that did, of one pair at least ("Атомарная запись",      *)
(* select_pairs_momentum.py:57).                                            *)
WhitelistIsLatest ==
    whitelist = IF latest = None THEN None ELSE Whole(latest)

(* ... and a run that ends by itself, with an error or without, has at      *)
(* least tried to close its session (main; what goes wrong there is only    *)
(* logged).                                                                 *)
WhitelistWhole ==
    /\ WhitelistIsLatest /\ latest # {}
    /\ phase = "idle" => session # "open"
=============================================================================
