----------------------------- MODULE Collectors -----------------------------
(***************************************************************************)
(* The programs that fill the research databases: klines_collector, which   *)
(* polls the newest hourly candles; bybit_funding_collector, which polls    *)
(* the tickers, with make_research_snapshot, which reduces them to one row  *)
(* per settlement; and backfill_top50, which loads old candles page by      *)
(* page.  Each has a database of its own.  Times are hours and cycles.      *)
(***************************************************************************)
EXTENDS Integers, Sequences, FiniteSets

CONSTANTS
    None,
    SYMBOLS,            \* of klines_collector
    SYMBOL_MAP,         \* of bybit_funding_collector
    TOP_N,              \* of backfill_top50
    PAGE,               \* candles of a page (1000)
    HISTORY,            \* hours a backfill goes back (HISTORY_DAYS)
    LAST_HOUR, MAX_CYCLES, MAX_HOUR, MAX_LOOPS      \* bounds

VARIABLES
    hour,               \* klines_collector: the hour that is forming
    rows,               \* its table klines: rows [symbol, open_time, final]
    polls               \* history: the hours a symbol was polled at
VARIABLES
    attempt,            \* bybit_funding_collector: of fetch_tickers, 0 between
                        \* the cycles
    cycle,
    table,              \* its table, in the order of received_at_ms
    snapshot            \* funding_settlements_bybit, of the first so many rows
VARIABLES
    exchange,           \* backfill_top50: [symbols, turnover, listed], or None
    now,                \* the hour that is forming
    queue,              \* the symbols still to load
    from,               \* the hour the run began in
    end,                \* where the next page ends
    stored,             \* its table klines
    pages               \* history: for every loop over the pages of a symbol,
                        \* in whatever run, its first hour and where it ended

klineVars == <<hour, rows, polls>>
fundingVars == <<attempt, cycle, table, snapshot>>
fillVars == <<exchange, now, queue, from, end, stored, pages>>

Init ==
    /\ hour = 0 /\ rows = {} /\ polls = {}
    /\ attempt = 0 /\ cycle = 0 /\ table = << >>
    /\ snapshot = [of |-> 0, rows |-> {}]
    /\ exchange = None /\ now = HISTORY + 1 /\ queue = << >> /\ from = 0
    /\ end = 0 /\ stored = {} /\ pages = {}

SameKey(row, other) ==
    row.symbol = other.symbol /\ row.open_time = other.open_time

InsertOrIgnore(old, new) ==
    old \cup {row \in new : \A other \in old : ~SameKey(row, other)}

InsertOrReplace(old, new) ==
    new \cup {row \in old : \A other \in new : ~SameKey(row, other)}

-----------------------------------------------------------------------------
(* klines_collector: every five minutes the newest three candles of each    *)
(* symbol are stored, the one that is still forming included.  The process  *)
(* may be down, or a request fail, for any time.                            *)
NextHour == hour < LAST_HOUR /\ hour' = hour + 1 /\ UNCHANGED <<rows, polls>>

(* fetch_bybit with limit=3; those before hour 0 are left out. *)
Candles(sym) ==
    {[symbol |-> sym, open_time |-> h, final |-> h < hour] :
        h \in {k \in hour - 2 .. hour : k >= 0}}

(* Mutant: INSERT OR IGNORE. *)
StoreOnce(new) == InsertOrIgnore(rows, new)

(* INSERT OR REPLACE. *)
Store(new) == InsertOrReplace(rows, new)

(* One symbol of a cycle; a failed request leaves it to the next cycle.     *)
Poll(sym) ==
    /\ rows' = Store(Candles(sym))
    /\ polls' = polls \cup {[symbol |-> sym, at |-> hour]}
    /\ UNCHANGED hour

CollectKlines == NextHour \/ \E sym \in SYMBOLS : Poll(sym)

-----------------------------------------------------------------------------
(* bybit_funding_collector: the tickers of all symbols in every cycle. *)
ATTEMPTS == 3

Wake ==
    /\ attempt = 0 /\ cycle < MAX_CYCLES
    /\ attempt' = 1 /\ cycle' = cycle + 1
    /\ UNCHANGED <<table, snapshot>>

(* After the third failure the cycle has no tickers. *)
FetchFails ==
    /\ attempt > 0
    /\ attempt' = IF attempt = ATTEMPTS THEN 0 ELSE attempt + 1
    /\ UNCHANGED <<cycle, table, snapshot>>

(* t.get(...) or 0: what the ticker does not name, or names as "", is 0. *)
OrZero(figure) == IF figure = None THEN 0 ELSE figure

(* The row keeps the ticker as it came beside what was read from it. *)
Row(ticker) ==
    [symbol |-> ticker.symbol, received |-> cycle, rate |-> OrZero(ticker.rate),
     next |-> OrZero(ticker.next), payload |-> ticker]

(* store_rows: tickers of other symbols and ones that cannot be parsed are  *)
(* left out, the others stored in one transaction.                          *)
Stored(ticker) == ticker.symbol \in SYMBOL_MAP /\ ticker.parses

StoreRows(tickers) ==
    LET stored_to[k \in 0 .. Len(tickers)] ==
            IF k = 0 THEN table
            ELSE IF Stored(tickers[k])
                 THEN Append(stored_to[k - 1], Row(tickers[k]))
            ELSE stored_to[k - 1]
    IN  stored_to[Len(tickers)]

Fetch(tickers) ==
    /\ attempt > 0
    /\ attempt' = 0 /\ table' = StoreRows(tickers)
    /\ UNCHANGED <<cycle, snapshot>>

Rows == {table[k] : k \in 1 .. Len(table)}

SameSettlement(row, other) == other.symbol = row.symbol /\ other.next = row.next

(* Mutant: ordered by received_at_ms without DESC. *)
IsFirst(row, all) ==
    \A other \in all : SameSettlement(row, other) => row.received <= other.received

(* rn = 1: the last received of its settlement. *)
IsLast(row, all) ==
    \A other \in all : SameSettlement(row, other) => other.received <= row.received

(* make_research_snapshot, funding_settlements_bybit: a row for every time  *)
(* that is not NULL - a settlement that the ticker did not name is 0.       *)
MakeSnapshot ==
    /\ snapshot' = [of |-> Len(table),
           rows |-> {[symbol |-> row.symbol, settle |-> row.next, rate |-> row.rate] :
                        row \in {r \in Rows : IsLast(r, Rows)}}]
    /\ UNCHANGED <<attempt, cycle, table>>

CollectFunding == Wake \/ FetchFails \/ MakeSnapshot

-----------------------------------------------------------------------------
(* backfill_top50: from now back to a target, run after run into one        *)
(* database; a run may be killed at any step.                               *)
Start(e) ==
    /\ exchange = None /\ exchange' = e
    /\ UNCHANGED <<now, queue, from, end, stored, pages>>

Tick ==
    /\ exchange # None /\ now < MAX_HOUR /\ now' = now + 1
    /\ UNCHANGED <<exchange, queue, from, end, stored, pages>>

(* The busiest first, equals in the order of their names. *)
Before(s, t) ==
    LET v == exchange.turnover
        Place(x) == CHOOSE k \in DOMAIN exchange.symbols : exchange.symbols[k] = x
    IN  v[s] > v[t] \/ (v[s] = v[t] /\ Place(s) < Place(t))

(* main: the TOP_N by turnover24h that have any. *)
TopSymbols ==
    LET all == {exchange.symbols[k] : k \in DOMAIN exchange.symbols}
        ranked == [k \in 1 .. Cardinality(all) |->
            CHOOSE s \in all : Cardinality({t \in all : Before(t, s)}) = k - 1]
    IN  SelectSeq(SubSeq(ranked, 1, IF Len(ranked) < TOP_N THEN Len(ranked) ELSE TOP_N),
                  LAMBDA s : exchange.turnover[s] > 0)

(* The symbols and volumes are fetched; when that fails the run is over.    *)
Begin ==
    /\ exchange # None /\ queue = << >> /\ Cardinality(pages) < MAX_LOOPS
    /\ queue' = TopSymbols /\ from' = now /\ end' = now
    /\ UNCHANGED <<exchange, now, stored, pages>>

Sym == Head(queue)
Target == from - HISTORY

(* fetch_batch: the newest PAGE candles up to end that the exchange has.    *)
Batch ==
    {h \in end - PAGE + 1 .. end : h >= exchange.listed[Sym]}

(* Mutant: one candle is left out between the pages. *)
NextEndGap(hours) == (CHOOSE h \in hours : \A k \in hours : h <= k) - 2

(* min(x[0] for x in cs) - 1 *)
NextEnd(hours) == (CHOOSE h \in hours : \A k \in hours : h <= k) - 1

(* A page is committed as it comes, the candle that is forming included.    *)
(* The target is within an hour, which a page may still be asked to end in. *)
Page ==
    /\ queue # << >> /\ end >= Target /\ Batch # {}
    /\ stored' = InsertOrIgnore(stored,
           {[symbol |-> Sym, open_time |-> h, final |-> h < now] : h \in Batch})
    /\ end' = NextEnd(Batch)
    /\ UNCHANGED <<exchange, now, queue, from, pages>>

(* The loop over the pages of a symbol, as far as it has come. *)
Loop == [symbol |-> Sym, from |-> from, end |-> end]

(* No candles: the target is reached, the history is over, or seven         *)
(* requests failed, which looks the same.                                   *)
NextSymbol ==
    /\ queue # << >>
    /\ queue' = Tail(queue) /\ end' = from
    /\ pages' = pages \cup {Loop}
    /\ UNCHANGED <<exchange, now, from, stored>>

(* The process is killed; what is committed stays. *)
Kill ==
    /\ queue # << >> /\ queue' = << >>
    /\ pages' = pages \cup {Loop}
    /\ UNCHANGED <<exchange, now, from, end, stored>>

Backfill == Tick \/ Begin \/ Page \/ NextSymbol \/ Kill

-----------------------------------------------------------------------------
Polled(sym, hours) == \E p \in polls : p.symbol = sym /\ p.at \in hours

(* Of an hour the table has one candle or none.  It is final when a poll    *)
(* succeeded in the two hours after it, whatever was stored while it        *)
(* formed; it stays as it was while it formed when no poll after it came in *)
(* time; and it is missing when none of the three did (klines_collector.py, *)
(* main: limit=3, INSERT OR REPLACE).                                       *)
CandlesAsPolled ==
    \A sym \in SYMBOLS : \A h \in 0 .. hour :
        {row \in rows : row.symbol = sym /\ row.open_time = h} =
            IF Polled(sym, h .. h + 2)
            THEN {[symbol |-> sym, open_time |-> h,
                   final |-> Polled(sym, h + 1 .. h + 2)]}
            ELSE {}

(* The ticker is about the settlement of the snapshot's row s. *)
Announces(ticker, s) ==
    /\ ticker.symbol = s.symbol
    /\ s.settle = IF ticker.next = None THEN 0 ELSE ticker.next

(* The snapshot has a rate for every settlement a ticker was stored for, and *)
(* it is that of the ticker stored last, also when later cycles failed or    *)
(* lacked the symbol.  A rate of 0 may stand for none that was announced,    *)
(* and settlement 0 for all tickers that named none                         *)
(* (bybit_funding_collector.py, store_rows; make_research_snapshot.py).     *)
LastRatePerSettlement ==
    /\ \A k \in 1 .. snapshot.of :
          \E s \in snapshot.rows : Announces(table[k].payload, s)
    /\ \A s \in snapshot.rows :
          \E k \in 1 .. snapshot.of :
             /\ Announces(table[k].payload, s)
             /\ \A j \in k + 1 .. snapshot.of : ~Announces(table[j].payload, s)
             /\ s.rate = IF table[k].payload.rate = None THEN 0
                         ELSE table[k].payload.rate

(* The loops over the pages of a symbol, the present one included. *)
LoopsOf(sym) ==
    {l \in pages \cup (IF queue = << >> THEN {} ELSE {Loop}) : l.symbol = sym}

(* Of a symbol exactly the hours are stored that the loops over its pages   *)
(* went through, each without a gap from the hour its run began in to where *)
(* it ended, as far as the symbol is listed: what is missing lies before    *)
(* the end of a loop that was cut short.  An hour is stored once, and with  *)
(* unfinished values only if it is the one some run began in                *)
(* (backfill_top50.py, main, fetch_batch: INSERT OR IGNORE).                *)
HistoryAsLoaded ==
    exchange # None =>
        \A sym \in DOMAIN exchange.listed :
            LET of == {row \in stored : row.symbol = sym}
            IN  /\ \A h \in 0 .. now :
                      (\E row \in of : row.open_time = h) <=>
                         /\ h >= exchange.listed[sym]
                         /\ \E l \in LoopsOf(sym) : l.end < h /\ h <= l.from
                /\ \A row, other \in of : SameKey(row, other) => row = other
                /\ \A row \in of :
                      ~row.final => \E l \in LoopsOf(sym) : row.open_time = l.from

(* What research reads is what the exchange said at the times it was asked: *)
(* what outages, failures and kills leave out or unfinished is where they   *)
(* say, and nowhere else.                                                   *)
CollectedIsTrue ==
    CandlesAsPolled /\ LastRatePerSettlement /\ HistoryAsLoaded
=============================================================================
