---------------------------- MODULE MCMarketData ----------------------------
(***************************************************************************)
(* Small instances for TLC of what brings market data into the monitor and  *)
(* what is made of it: the exchange client, the payloads it reads, the      *)
(* yield of a position, the selection of the universe and the database.     *)
(* These parts share no state; a behaviour is one of part.                  *)
(***************************************************************************)
EXTENDS ExchangeClient

CONSTANTS
    Instants, Received, Rates,              \* of ExchangePayloads
    Positions, HoursPerYear, FullHaircut, ValueError,   \* of Calculators
    Pools, Params,                          \* of UniverseSelector
    AlertIds, Statuses, Rankings, Retention, MaxTime, MaxCalls  \* of Persistence

VARIABLE part
VARIABLES kind, payload, payload_info, wish, result         \* ExchangePayloads
VARIABLES position, metrics                                 \* Calculators
VARIABLES pool, params, selection                           \* UniverseSelector
VARIABLES now, matches, db, view, script, calls, saved      \* Persistence

reading == <<kind, payload, payload_info, wish, result>>
yield == <<position, metrics>>
choice == <<pool, params, selection>>
storage == <<now, matches, db, view, script, calls, saved>>

-----------------------------------------------------------------------------
Quote(b, a) == [bid |-> b, ask |-> a]
ClientQuotes == {Quote(1, 2), Quote(3, None), Quote(None, 2)}

Interval(n, unit) == [n |-> n, unit |-> unit]
ClientPayloads ==
    {[fundingRate |-> 1], [lastFundingRate |-> 1, interval |-> Interval(4, "h")]}
ClientInfos == {[s \in Symbols |-> x] : x \in {None, 4 * 3600}}
ClientMarkets == [s \in Symbols |-> IF s = "ETH" THEN 3600 ELSE None]

Costs(fee, perp, slip, borrow) ==
    [spot_fee |-> fee, perp_fee |-> perp, slippage_entry |-> slip,
     slippage_exit |-> 1, spread_buffer |-> 0, borrow |-> borrow,
     opportunity |-> 1]

SmallPositions ==
    [holding: 1 .. 4, amortization: 1 .. 4, min_amortization: 1 .. 3,
     rate: {-1, 1}, interval: {1, 2}, include: {TRUE}, haircut: {0, 1, 2},
     mode: {"entry", "zero", "historical_median"},
     spot_ask: {3}, perp_bid: {2, 4},
     costs: {Costs(0, 0, 0, 0), Costs(2, 0, 1, 0), Costs(0, 2, 0, 2)}]

Candidate(n, s, v, i, r) ==
    [name |-> n, spread |-> s, volume |-> v, interest |-> i, rate |-> r]
Candidates(n) ==
    {Candidate(n, 2, 3, 3, 3), Candidate(n, 0, 0, 3, 3),
     Candidate(n, 1, 2, None, 2), Candidate(n, 1, 2, 1, 0)}
        \cup {Candidate(n, 0, v, 3, r) : v, r \in 1 .. 3}
SmallPools ==
    {<<a, b, c>> : a \in Candidates("A"), b \in Candidates("B"),
                   c \in Candidates("C")}
Limits(n, interest, anchors, weight) ==
    [max_active |-> n, max_spread |-> 1, min_volume |-> 1, min_rate |-> 1,
     min_interest |-> interest, anchors |-> anchors,
     weight_funding |-> weight, weight_liquidity |-> 100 - weight]
SmallParams == {Limits(1, 2, {}, 70), Limits(2, None, {"A", "D"}, 100)}

Refreshes == {<<"A", "B">>}

Payloads == INSTANCE ExchangePayloads WITH info <- payload_info
Yield == INSTANCE Calculators
Universe == INSTANCE UniverseSelector
Storage == INSTANCE Persistence

-----------------------------------------------------------------------------
(* What settings, quotes and rates are: amounts in their smallest unit.     *)
Position ==
    [holding: Int, amortization: Int, min_amortization: Int, rate: Int,
     interval: Int, include: BOOLEAN, haircut: Int,
     mode: {"entry", "zero", "historical_median"}, spot_ask: Int, perp_bid: Int,
     costs: [Yield!OneTimeFields \cup Yield!AnnualFields -> Int]]

ASSUME YieldParams ==
    /\ Positions \subseteq Position
    /\ HoursPerYear \in Nat \ {0} /\ FullHaircut \in Nat \ {0}

(* Times are beyond April 1970, so a number of milliseconds is not taken    *)
(* for one of seconds.                                                      *)
ASSUME PayloadParams ==
    /\ None \notin Int /\ Junk \notin Int
    /\ SecondsLimit \in Nat
    /\ \A s \in Instants :
          /\ s \in Nat /\ 0 < s /\ s < SecondsLimit
          /\ s * MsPerSecond \in Nat /\ SecondsLimit <= s * MsPerSecond

Names == STRING

(* A symbol is a candidate once.  The limits are those UniverseSettings and *)
(* UniverseScoreWeights of config/schema.py accept.                         *)
ASSUME SelectorParams ==
    /\ \A candidates \in Pools :
          /\ candidates \in Seq([name: Names, spread: Int, volume: Int,
                                 interest: Int \cup {None}, rate: Int])
          /\ \A i, j \in 1 .. Len(candidates) :
                candidates[i].name = candidates[j].name => i = j
    /\ \A p \in Params :
          /\ p.max_active \in Nat /\ p.max_spread \in Int
          /\ p.min_volume \in Nat /\ p.min_rate \in Nat
          /\ p.weight_funding \in 0 .. 100
          /\ p.weight_liquidity = 100 - p.weight_funding

(* The names of the candidates, and the retention in units of time. *)
ASSUME StorageParams == Rankings \subseteq Seq(Names) /\ Retention \in Nat

-----------------------------------------------------------------------------
MCInit ==
    /\ part \in {"client", "payloads", "yield", "universe", "storage"}
    /\ Init /\ (part # "client" => venue = "bybit")
    /\ Payloads!Init /\ Yield!Init /\ Universe!Init
    /\ Storage!Init /\ (part # "storage" => ~matches)

MCNext ==
    /\ UNCHANGED part
    /\ \/ /\ part = "client" /\ Next
          /\ UNCHANGED <<reading, yield, choice, storage>>
       \/ /\ part = "payloads" /\ kind = "none" /\ Payloads!Next
          /\ UNCHANGED <<vars, yield, choice, storage>>
       \/ /\ part = "yield" /\ position = None /\ Yield!Next
          /\ UNCHANGED <<vars, reading, choice, storage>>
       \/ /\ part = "universe" /\ pool = << >> /\ Universe!Next
          /\ UNCHANGED <<vars, reading, yield, storage>>
       \/ /\ part = "storage" /\ Storage!Next
          /\ UNCHANGED <<vars, reading, yield, choice>>

ClientStep(t) ==
    /\ part = "client" /\ Step(t)
    /\ UNCHANGED <<part, reading, yield, choice, storage>>

MCSpec ==
    /\ MCInit
    /\ [][MCNext]_<<part, vars, reading, yield, choice, storage>>
    /\ \A t \in Tasks : WF_<<part, vars>>(ClientStep(t))

-----------------------------------------------------------------------------
(* The properties of the parts; each is stated and explained in its module. *)
ReadAsGiven == part = "payloads" => Payloads!ReadAsGiven
YieldSound == part = "yield" => Yield!YieldSound
SelectionSound == part = "universe" => Universe!SelectionSound
SavedIsDurable == part = "storage" => Storage!SavedIsDurable
PoolOfOneRefresh == part = "storage" => Storage!PoolOfOneRefresh
RecentAlertFound == part = "storage" => Storage!RecentAlertFound
=============================================================================
