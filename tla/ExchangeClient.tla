--------------------------- MODULE ExchangeClient ---------------------------
(***************************************************************************)
(* BinanceExchangeClient and BybitExchangeClient (monitor/exchanges): the   *)
(* tasks of a cycle ask for quotes and funding at the same time, and        *)
(* whichever comes first loads the markets, and on Binance the funding      *)
(* intervals, behind a lock.  Every request is retried (utils/retry.py).    *)
(* A step is what one task does between two awaits.                         *)
(***************************************************************************)
EXTENDS Normalizer

CONSTANTS
    Tasks,
    Symbols,            \* perp symbols
    Listed,             \* the symbols the markets know
    MarketInterval,     \* what the market of a symbol says of its interval
    Attempts,           \* max_attempts of the retry policy
    Quotes,             \* the [bid, ask] a ticker or an order book may hold
    FundingPayloads,    \* what a funding response may hold
    FundingInfos,       \* what the funding info endpoint may say: functions
                        \* from Symbols to intervals in seconds or None
    DefaultInterval,    \* default_funding_interval_hours, in seconds
    RequestError        \* ExchangeRequestError is raised

(* The cache when the endpoint gave no interval, or could not be asked. *)
NoIntervals == [s \in Symbols |-> None]

ASSUME ClientParams ==
    /\ Attempts \in Nat \ {0}
    /\ DefaultInterval \in Nat \ {0}
    /\ None \notin FundingInfos \cup {NoIntervals}
    /\ Listed \subseteq Symbols

VARIABLES
    venue,              \* which of the two classes
    markets_queue,      \* _markets_lock: its holder, then those who wait
    loaded,             \* _markets_loaded
    sides,              \* history: the clients whose markets were loaded
    info_queue,         \* _funding_info_lock
    info,               \* _funding_interval_cache, None until
                        \* _funding_info_loaded
    call,               \* what each task is doing
    settled             \* history: the intervals given to a symbol whose
                        \* response did not say

markets == <<markets_queue, loaded, sides>>
funding == <<info_queue, info>>
vars == <<venue, markets, funding, call, settled>>

Kinds == {"time", "spot", "perp", "tickers", "funding"}

Idle == [pc |-> "idle", kind |-> "time", symbol |-> None, attempt |-> 1,
         raw |-> None, result |-> None]

Init ==
    /\ venue \in {"binance", "bybit"}
    /\ markets_queue = << >> /\ loaded = FALSE /\ sides = {}
    /\ info_queue = << >> /\ info = None
    /\ call = [t \in Tasks |-> Idle]
    /\ settled = [s \in Symbols |-> {}]

Holds(queue, t) == queue # << >> /\ Head(queue) = t

Go(t, pc) == call' = [call EXCEPT ![t].pc = pc, ![t].attempt = 1]

Return(t, result) ==
    call' = [call EXCEPT ![t] = [Idle EXCEPT !.result = result]]

-----------------------------------------------------------------------------
(* Every operation starts with _ensure_markets_loaded.  Which symbol it is   *)
(* for matters to the funding only.                                         *)
Call(t, kind, s) ==
    /\ call[t].pc = "idle"
    /\ call' = [call EXCEPT ![t] =
                   [Idle EXCEPT !.pc = "markets", !.kind = kind, !.symbol = s]]
    /\ markets_queue' = Append(markets_queue, t)
    /\ UNCHANGED <<venue, loaded, sides, funding, settled>>

(* Mutant: whoever waits for the lock goes on without it. *)
EnterMarketsUnlocked(t) ==
    /\ call[t].pc = "markets"
    /\ IF loaded
          THEN /\ Go(t, "request")
               /\ markets_queue' = SelectSeq(markets_queue, LAMBDA u : u # t)
          ELSE Go(t, "load_spot") /\ UNCHANGED markets_queue
    /\ UNCHANGED <<venue, loaded, sides, funding, settled>>

EnterMarkets(t) ==
    /\ call[t].pc = "markets" /\ Holds(markets_queue, t)
    /\ IF loaded
          THEN Go(t, "request") /\ markets_queue' = Tail(markets_queue)
          ELSE Go(t, "load_spot") /\ UNCHANGED markets_queue
    /\ UNCHANGED <<venue, loaded, sides, funding, settled>>

(* Mutant: the markets count as loaded once the spot markets are. *)
SpotLoadedSuffices(t) ==
    /\ call[t].pc = "load_spot"
    /\ sides' = sides \cup {"spot"} /\ loaded' = TRUE
    /\ Go(t, "load_futures")
    /\ UNCHANGED <<venue, markets_queue, funding, settled>>

SpotLoaded(t) ==
    /\ call[t].pc = "load_spot"
    /\ sides' = sides \cup {"spot"}
    /\ Go(t, "load_futures")
    /\ UNCHANGED <<venue, markets_queue, loaded, funding, settled>>

FuturesLoaded(t) ==
    /\ call[t].pc = "load_futures"
    /\ sides' = sides \cup {"futures"} /\ loaded' = TRUE
    /\ markets_queue' = Tail(markets_queue)
    /\ Go(t, "request")
    /\ UNCHANGED <<venue, funding, settled>>

(* The phases in which a request is on the wire. *)
OnWire == {"load_spot", "load_futures", "request", "book", "load_info"}

(* retry_async: a retryable error is followed by another attempt. *)
Retry(t) ==
    /\ call[t].pc \in OnWire
    /\ call[t].attempt < Attempts
    /\ call' = [call EXCEPT ![t].attempt = @ + 1]
    /\ UNCHANGED <<venue, markets, funding, settled>>

(* Mutant: the lock is not released. *)
LoadFailsLocked(t) ==
    /\ call[t].pc \in {"load_spot", "load_futures"}
    /\ Return(t, RequestError)
    /\ UNCHANGED <<venue, markets, funding, settled>>

(* The attempts are used up, or the error is not worth another.  The next   *)
(* task in the queue tries to load the markets again.                       *)
LoadFails(t) ==
    /\ call[t].pc \in {"load_spot", "load_futures"}
    /\ markets_queue' = Tail(markets_queue)
    /\ Return(t, RequestError)
    /\ UNCHANGED <<venue, loaded, sides, funding, settled>>

-----------------------------------------------------------------------------
(* A failed quote request surfaces as invalid data, the others as failed    *)
(* requests.                                                                *)
RequestFails(t) ==
    /\ call[t].pc \in {"request", "book"}
    /\ Return(t, IF call[t].kind \in {"spot", "perp"}
                    THEN DataError ELSE RequestError)
    /\ UNCHANGED <<venue, markets, funding, settled>>

FetchTime(t) ==
    /\ call[t].pc = "request" /\ call[t].kind = "time"
    /\ \E timestamp \in {None, 0, 1} :
          Return(t, IF Positive(timestamp) THEN timestamp ELSE DataError)
    /\ UNCHANGED <<venue, markets, funding, settled>>

(* Invalid tickers are left out of the list. *)
FetchTickers(t) ==
    /\ call[t].pc = "request" /\ call[t].kind = "tickers"
    /\ \E raws \in SUBSET Quotes :
          Return(t, {NormalizePerpTicker(q, << >>, 1) : q \in raws}
                        \ {DataError})
    /\ UNCHANGED <<venue, markets, funding, settled>>

(* Binance always asks for the order book, Bybit when a side is missing. *)
NeedsBook(raw) ==
    \/ venue = "binance"
    \/ raw.bid = None \/ raw.ask = None

(* A side of the book replaces the ticker's, unless it is empty. *)
Enrich(raw, book) ==
    [side \in {"bid", "ask"} |->
        IF book[side] = None THEN raw[side] ELSE book[side]]

Normalize(t, raw) ==
    IF call[t].kind = "spot" THEN NormalizeSpotTicker(raw, << >>, 1)
    ELSE NormalizePerpTicker(raw, << >>, 1)

FetchTicker(t) ==
    /\ call[t].pc = "request" /\ call[t].kind \in {"spot", "perp"}
    /\ \E raw \in Quotes :
          IF NeedsBook(raw)
             THEN call' = [call EXCEPT ![t].pc = "book", ![t].attempt = 1,
                                       ![t].raw = raw]
             ELSE Return(t, Normalize(t, raw))
    /\ UNCHANGED <<venue, markets, funding, settled>>

FetchOrderBook(t) ==
    /\ call[t].pc = "book"
    /\ \E book \in Quotes :
          Return(t, Normalize(t, Enrich(call[t].raw, book)))
    /\ UNCHANGED <<venue, markets, funding, settled>>

-----------------------------------------------------------------------------
(* _resolve_funding_interval_hours, but for the await: the response, the    *)
(* market, the cache, the default.                                          *)
NeedsInfo(s, payload) ==
    /\ venue = "binance"
    /\ ParseFundingInterval(payload, << >>) = None
    /\ s \in Listed /\ MarketInterval[s] = None

Resolve(s, payload, cache) ==
    LET own == ParseFundingInterval(payload, << >>)
    IN  CASE own # None -> own
          [] own = None /\ MarketInterval[s] # None -> MarketInterval[s]
          [] own = None /\ MarketInterval[s] = None /\ cache[s] # None ->
                 cache[s]
          [] OTHER -> DefaultInterval

(* The rest of fetch_funding_snapshot. *)
ReturnFunding(t, payload, cache) ==
    LET s == call[t].symbol
        snapshot == NormalizeFunding(payload, << >>,
                                     Resolve(s, payload, cache), TRUE)
        silent == ParseFundingInterval(payload, << >>) = None
    IN  /\ Return(t, snapshot)
        /\ settled' = IF silent /\ snapshot # DataError
              THEN [settled EXCEPT ![s] = @ \cup {snapshot.interval}]
              ELSE settled

FetchFunding(t) ==
    /\ call[t].pc = "request" /\ call[t].kind = "funding"
    /\ \E payload \in FundingPayloads :
          IF NeedsInfo(call[t].symbol, payload)
             THEN /\ call' = [call EXCEPT ![t].pc = "info", ![t].raw = payload]
                  /\ info_queue' = Append(info_queue, t)
                  /\ UNCHANGED settled
             ELSE ReturnFunding(t, payload, NoIntervals) /\ UNCHANGED info_queue
    /\ UNCHANGED <<venue, markets, info>>

(* Mutant: whoever waited for the load loads once more. *)
EnterInfoAgain(t) ==
    /\ call[t].pc = "info" /\ Holds(info_queue, t)
    /\ Go(t, "load_info") /\ UNCHANGED <<info_queue, settled>>
    /\ UNCHANGED <<venue, markets, info>>

EnterInfo(t) ==
    /\ call[t].pc = "info" /\ Holds(info_queue, t)
    /\ IF info = None
          THEN Go(t, "load_info") /\ UNCHANGED <<info_queue, settled>>
          ELSE /\ ReturnFunding(t, call[t].raw, info)
               /\ info_queue' = Tail(info_queue)
    /\ UNCHANGED <<venue, markets, info>>

InfoLoaded(t) ==
    /\ call[t].pc = "load_info"
    /\ info' \in FundingInfos
    /\ info_queue' = Tail(info_queue)
    /\ ReturnFunding(t, call[t].raw, info')
    /\ UNCHANGED <<venue, markets>>

(* Mutant: the next task tries again. *)
InfoFailsForNow(t) ==
    /\ call[t].pc = "load_info"
    /\ info_queue' = Tail(info_queue)
    /\ ReturnFunding(t, call[t].raw, NoIntervals)
    /\ UNCHANGED <<venue, markets, info>>

(* The endpoint is best effort: a failure leaves the cache empty for good. *)
InfoFails(t) ==
    /\ call[t].pc = "load_info"
    /\ info' = NoIntervals
    /\ info_queue' = Tail(info_queue)
    /\ ReturnFunding(t, call[t].raw, NoIntervals)
    /\ UNCHANGED <<venue, markets>>

-----------------------------------------------------------------------------
(* What a call does once it is started. *)
Step(t) ==
    \/ EnterMarkets(t) \/ SpotLoaded(t) \/ FuturesLoaded(t) \/ LoadFails(t)
    \/ Retry(t) \/ RequestFails(t)
    \/ FetchTime(t) \/ FetchTickers(t) \/ FetchTicker(t) \/ FetchOrderBook(t)
    \/ FetchFunding(t) \/ EnterInfo(t) \/ InfoLoaded(t) \/ InfoFails(t)

Next ==
    \/ \E t \in Tasks, kind \in Kinds \ {"funding"} : Call(t, kind, None)
    \/ \E t \in Tasks, s \in Symbols : Call(t, "funding", s)
    \/ \E t \in Tasks : Step(t)

Spec == Init /\ [][Next]_vars

(* ccxt has a timeout, so every attempt ends. *)
FairSpec == Spec /\ \A t \in Tasks : WF_vars(Step(t))

-----------------------------------------------------------------------------
(* What the tasks of a client and its two locks look like. *)
TypeOK ==
    /\ venue \in {"binance", "bybit"}
    /\ markets_queue \in Seq(Tasks) /\ info_queue \in Seq(Tasks)
    /\ loaded \in BOOLEAN /\ sides \subseteq {"spot", "futures"}
    /\ info \in FundingInfos \cup {NoIntervals, None}
    /\ DOMAIN call = Tasks
    /\ \A t \in Tasks :
          /\ DOMAIN call[t] = DOMAIN Idle
          /\ call[t].pc \in OnWire \cup {"idle", "markets", "info"}
          /\ call[t].kind \in Kinds
          /\ call[t].attempt \in 1 .. Attempts

MarketsCell == INSTANCE OnceCell WITH
    queue <- markets_queue, Unset <- None, Values <- {"loaded"},
    value <- IF loaded THEN "loaded" ELSE None

InfoCell == INSTANCE OnceCell WITH
    queue <- info_queue, Unset <- None, value <- info,
    Values <- FundingInfos \cup {NoIntervals}

(* The lazy loads are OnceCells: in the order they asked, one task at a     *)
(* time loads the value, and once it is there it never changes              *)
(* (_ensure_markets_loaded, _load_funding_info_once).                       *)
LoadOnce == MarketsCell!Spec /\ InfoCell!Spec

(* Whatever two tasks do at the same time, the load of the markets and that *)
(* of the funding intervals is only ever under way in the task that holds   *)
(* the lock (_ensure_markets_loaded, _load_funding_info_once).              *)
LoadsAreExclusive ==
    \A t \in Tasks :
        /\ call[t].pc \in {"load_spot", "load_futures"} =>
              Holds(markets_queue, t) /\ ~loaded
        /\ call[t].pc = "load_info" => Holds(info_queue, t) /\ info = None

(* No task asks for a symbol before both the spot and the futures markets   *)
(* are loaded, also when it found the load of another task under way, or    *)
(* failed half-way (fetch_spot_ticker and the other operations).            *)
RequestsHaveMarkets ==
    \A t \in Tasks : call[t].pc \in {"request", "book", "info", "load_info"} =>
        sides = {"spot", "futures"}

(* As long as the responses do not say, a symbol has one funding interval   *)
(* for the life of the process: an annual yield never jumps because another *)
(* source of the interval answered this time, not even when the endpoint    *)
(* failed for the first task that asked (_resolve_funding_interval_hours).  *)
IntervalSettled ==
    \A s \in Symbols : \A x, y \in settled[s] : x = y

(* Every call ends, however many tasks wait for the same load and whether   *)
(* it succeeds or not (_ensure_markets_loaded, retry_async).                *)
CallEnds == \A t \in Tasks : call[t].pc # "idle" ~> call[t].pc = "idle"
=============================================================================
