-------------------------- MODULE MarketData_proofs --------------------------
(***************************************************************************)
(* Proofs about the exchange clients, for every number of tasks, symbols    *)
(* and attempts and for everything the exchange may answer; about what the  *)
(* monitor makes of market data; and about the rows it keeps of it, for     *)
(* every payload, position, candidate, retention and failure.               *)
(***************************************************************************)
EXTENDS MCMarketData, Extrema, SequenceTheorems, FiniteSetTheorems

-----------------------------------------------------------------------------
(* The exchange clients. *)
Members(queue) == {queue[i] : i \in 1 .. Len(queue)}

Distinct(queue) ==
    \A i, j \in 1 .. Len(queue) : queue[i] = queue[j] => i = j

(* A lock is held or awaited by the tasks in these phases, each once. *)
Queued(queue, all_calls, phases) ==
    /\ queue \in Seq(Tasks) /\ Distinct(queue)
    /\ Members(queue) = {t \in Tasks : all_calls[t].pc \in phases}

Loading == {"load_spot", "load_futures"}
AtMarkets == {"markets"} \cup Loading
AtInfo == {"info", "load_info"}
Requesting == {"request", "book", "info", "load_info"}
Phases == OnWire \cup {"idle", "markets", "info"}

QueuesOK ==
    /\ Queued(markets_queue, call, AtMarkets)
    /\ Queued(info_queue, call, AtInfo)

(* How far the load of the markets is. *)
MarketsOK ==
    /\ loaded => sides = {"spot", "futures"}
    /\ \A t \in Tasks :
          /\ call[t].pc = "load_futures" => "spot" \in sides
          /\ call[t].pc \in Requesting => loaded

(* The tasks that want the funding intervals, and the interval that a       *)
(* symbol whose responses do not say has, or has not yet.                   *)
Wants(t) ==
    /\ call[t].symbol \in Symbols
    /\ NeedsInfo(call[t].symbol, call[t].raw)

Open(s) == venue = "binance" /\ s \in Listed /\ MarketInterval[s] = None

IntervalOf(s) ==
    IF MarketInterval[s] # None THEN MarketInterval[s]
    ELSE IF Open(s) /\ info[s] # None THEN info[s] ELSE DefaultInterval

IntervalsOK ==
    /\ \A t \in Tasks :
          /\ call[t].pc # "idle" /\ call[t].kind = "funding" =>
                call[t].symbol \in Symbols
          /\ call[t].pc \in {"info", "load_info"} => Wants(t)
    /\ DOMAIN settled = Symbols
    /\ \A s \in Symbols :
          /\ settled[s] \subseteq {IntervalOf(s)}
          /\ Open(s) /\ info = None => settled[s] = {}

IInv == TypeOK /\ QueuesOK /\ LoadsAreExclusive /\ MarketsOK /\ IntervalsOK

-----------------------------------------------------------------------------
(* What becomes of a queue. *)
LEMMA JoinQueue ==
    ASSUME NEW q \in Seq(Tasks), Distinct(q), NEW t \in Tasks, t \notin Members(q)
    PROVE  /\ Append(q, t) \in Seq(Tasks)
           /\ Distinct(Append(q, t))
           /\ Members(Append(q, t)) = Members(q) \cup {t}
<1>1. /\ Append(q, t) \in Seq(Tasks) /\ Len(Append(q, t)) = Len(q) + 1
      /\ Append(q, t)[Len(q) + 1] = t
      /\ \A i \in 1 .. Len(q) : Append(q, t)[i] = q[i]
  OBVIOUS
<1>2. Len(q) \in Nat
  OBVIOUS
<1>3. \A i \in 1 .. Len(q) : q[i] # t
  BY DEF Members
<1>4. Distinct(Append(q, t))
  BY <1>1, <1>2, <1>3 DEF Distinct
<1>5. Members(Append(q, t)) = Members(q) \cup {t}
  BY <1>1, <1>2 DEF Members
<1>6. QED
  BY <1>1, <1>4, <1>5

LEMMA LeaveQueue ==
    ASSUME NEW q \in Seq(Tasks), Distinct(q), q # << >>
    PROVE  /\ Tail(q) \in Seq(Tasks)
           /\ Distinct(Tail(q))
           /\ Members(Tail(q)) = Members(q) \ {Head(q)}
<1>1. /\ Tail(q) \in Seq(Tasks) /\ Len(Tail(q)) = Len(q) - 1
      /\ Len(q) \in Nat \ {0} /\ Head(q) = q[1]
      /\ \A i \in 1 .. Len(q) - 1 : Tail(q)[i] = q[i + 1]
  OBVIOUS
<1>2. Distinct(Tail(q))
  BY <1>1 DEF Distinct
<1>3. Members(Tail(q)) = Members(q) \ {Head(q)}
  <2>1. \A x \in Members(Tail(q)) : x \in Members(q) /\ x # Head(q)
    BY <1>1 DEF Members, Distinct
  <2>2. ASSUME NEW x \in Members(q), x # Head(q)
        PROVE  x \in Members(Tail(q))
    <3>1. PICK i \in 1 .. Len(q) : x = q[i]
      BY DEF Members
    <3>2. i # 1
      BY <3>1, <2>2, <1>1
    <3>3. i - 1 \in 1 .. Len(q) - 1 /\ Tail(q)[i - 1] = x
      BY <3>1, <3>2, <1>1
    <3>4. QED
      BY <3>3, <1>1 DEF Members
  <2>3. QED
    BY <2>1, <2>2
<1>4. QED
  BY <1>1, <1>2, <1>3

LEMMA HolderIsMember ==
    ASSUME NEW q \in Seq(Tasks), NEW t, Holds(q, t)
    PROVE  q # << >> /\ Head(q) = t /\ t \in Members(q)
  BY DEF Holds, Members

(* A queue after task t has gone to phase p: it has joined the queue, left  *)
(* it as its holder, or done neither.                                       *)
Evolves(before, after, t, p, phases) ==
    \/ after = before /\ (call[t].pc \in phases <=> p \in phases)
    \/ after = Append(before, t) /\ call[t].pc \notin phases /\ p \in phases
    \/ after = Tail(before) /\ Holds(before, t) /\ p \notin phases

(* Only the call of task t changes, and it is in phase p now. *)
Moved(t, p) ==
    /\ DOMAIN call' = Tasks /\ DOMAIN call'[t] = DOMAIN Idle
    /\ \A u \in Tasks : u # t => call'[u] = call[u]
    /\ call'[t].pc = p /\ p \in Phases
    /\ call'[t].kind \in Kinds /\ call'[t].attempt \in 1 .. Attempts

LEMMA QueueEvolves ==
    ASSUME NEW before, NEW after, NEW t \in Tasks, NEW p, NEW phases,
           Queued(before, call, phases), Moved(t, p),
           Evolves(before, after, t, p, phases)
    PROVE  Queued(after, call', phases)
<1>1. /\ before \in Seq(Tasks) /\ Distinct(before)
      /\ Members(before) = {u \in Tasks : call[u].pc \in phases}
  BY DEF Queued
<1>2. \A u \in Tasks : call'[u].pc = IF u = t THEN p ELSE call[u].pc
  BY DEF Moved
<1>3. CASE after = before /\ (call[t].pc \in phases <=> p \in phases)
  BY <1>1, <1>2, <1>3 DEF Queued
<1>4. CASE after = Append(before, t) /\ call[t].pc \notin phases /\ p \in phases
  <2>1. /\ after \in Seq(Tasks) /\ Distinct(after)
        /\ Members(after) = Members(before) \cup {t}
    BY <1>1, <1>4, JoinQueue
  <2>2. QED
    BY <1>1, <1>2, <1>4, <2>1 DEF Queued
<1>5. CASE after = Tail(before) /\ Holds(before, t) /\ p \notin phases
  <2>1. /\ after \in Seq(Tasks) /\ Distinct(after)
        /\ Members(after) = Members(before) \ {t}
    BY <1>1, <1>5, LeaveQueue, HolderIsMember
  <2>2. QED
    BY <1>1, <1>2, <1>5, <2>1 DEF Queued
<1>6. QED
  BY <1>3, <1>4, <1>5 DEF Evolves

LEMMA HolderStays ==
    ASSUME NEW q \in Seq(Tasks), NEW u \in Tasks, Holds(q, u), NEW t
    PROVE  Holds(Append(q, t), u)
  BY DEF Holds

(* What a step of t does to the locks keeps their invariants. *)
LEMMA LocksKept ==
    ASSUME IInv, NEW t \in Tasks, NEW p, Moved(t, p),
           Evolves(markets_queue, markets_queue', t, p, AtMarkets),
           Evolves(info_queue, info_queue', t, p, AtInfo),
           loaded' => loaded \/ Holds(markets_queue, t),
           info' = info \/ Holds(info_queue, t),
           p \in Loading => Holds(markets_queue', t) /\ ~loaded',
           p = "load_info" => Holds(info_queue', t) /\ info' = None
    PROVE  QueuesOK' /\ LoadsAreExclusive'
<1>1. Queued(markets_queue', call', AtMarkets)
  BY QueueEvolves DEF IInv, QueuesOK
<1>2. Queued(info_queue', call', AtInfo)
  BY QueueEvolves DEF IInv, QueuesOK
<1>3. \A u \in Tasks : u # t => call'[u] = call[u]
  BY DEF Moved
<1>4. markets_queue \in Seq(Tasks) /\ info_queue \in Seq(Tasks)
  BY DEF IInv, TypeOK
<1>5. ASSUME NEW u \in Tasks, call'[u].pc \in Loading
      PROVE  Holds(markets_queue', u) /\ ~loaded'
  <2>1. CASE u = t
    BY <1>5, <2>1 DEF Moved
  <2>2. CASE u # t
    <3>1. Holds(markets_queue, u) /\ ~loaded
      BY <1>3, <1>5, <2>2 DEF IInv, LoadsAreExclusive, Loading
    <3>2. ~Holds(markets_queue, t)
      BY <3>1, <2>2 DEF Holds
    <3>3. markets_queue' = markets_queue \/ markets_queue' = Append(markets_queue, t)
      BY <3>2 DEF Evolves
    <3>4. Holds(markets_queue', u)
      BY <3>1, <3>3, <1>4, HolderStays
    <3>5. QED
      BY <3>1, <3>2, <3>4
  <2>3. QED
    BY <2>1, <2>2
<1>6. ASSUME NEW u \in Tasks, call'[u].pc = "load_info"
      PROVE  Holds(info_queue', u) /\ info' = None
  <2>1. CASE u = t
    BY <1>6, <2>1 DEF Moved
  <2>2. CASE u # t
    <3>1. Holds(info_queue, u) /\ info = None
      BY <1>3, <1>6, <2>2 DEF IInv, LoadsAreExclusive
    <3>2. ~Holds(info_queue, t)
      BY <3>1, <2>2 DEF Holds
    <3>3. info_queue' = info_queue \/ info_queue' = Append(info_queue, t)
      BY <3>2 DEF Evolves
    <3>4. QED
      BY <3>1, <3>2, <3>3, <1>4, HolderStays
  <2>3. QED
    BY <2>1, <2>2
<1>7. QED
  BY <1>1, <1>2, <1>5, <1>6 DEF QueuesOK, LoadsAreExclusive, Loading

LEMMA TypeKept ==
    ASSUME TypeOK, NEW t \in Tasks, NEW p, Moved(t, p), QueuesOK',
           UNCHANGED venue, loaded' \in BOOLEAN,
           sides' \subseteq {"spot", "futures"},
           info' \in FundingInfos \cup {NoIntervals, None}
    PROVE  TypeOK'
<1>1. markets_queue' \in Seq(Tasks) /\ info_queue' \in Seq(Tasks)
  BY DEF QueuesOK, Queued
<1>2. DOMAIN call' = Tasks
  BY DEF Moved
<1>3. ASSUME NEW u \in Tasks
      PROVE  /\ DOMAIN call'[u] = DOMAIN Idle
             /\ call'[u].pc \in OnWire \cup {"idle", "markets", "info"}
             /\ call'[u].kind \in Kinds
             /\ call'[u].attempt \in 1 .. Attempts
  BY DEF TypeOK, Moved, Phases
<1>4. QED
  BY <1>1, <1>2, <1>3 DEF TypeOK, Idle, NoIntervals

LEMMA MarketsKept ==
    ASSUME IInv, NEW t \in Tasks, NEW p, Moved(t, p),
           sides \subseteq sides', loaded => loaded',
           loaded' => sides' = {"spot", "futures"},
           p = "load_futures" => "spot" \in sides',
           p \in Requesting => loaded'
    PROVE  MarketsOK'
  BY DEF IInv, MarketsOK, Moved

LEMMA IntervalsKept ==
    ASSUME IInv, NEW t \in Tasks, NEW p, Moved(t, p),
           UNCHANGED <<venue, info, settled>>,
           p # "idle" /\ call'[t].kind = "funding" =>
               call'[t].symbol \in Symbols,
           p \in AtInfo => Wants(t)'
    PROVE  IntervalsOK'
<1>1. ASSUME NEW u \in Tasks
      PROVE  /\ call'[u].pc # "idle" /\ call'[u].kind = "funding" =>
                    call'[u].symbol \in Symbols
             /\ call'[u].pc \in {"info", "load_info"} => Wants(u)'
  BY DEF IInv, IntervalsOK, Moved, Wants, NeedsInfo, AtInfo
<1>2. QED
  BY <1>1 DEF IInv, IntervalsOK, IntervalOf, Open

LEMMA GoMoves ==
    ASSUME TypeOK, NEW t \in Tasks, NEW p \in Phases, Go(t, p)
    PROVE  /\ Moved(t, p) /\ call'[t].attempt = 1
           /\ call'[t].kind = call[t].kind
           /\ call'[t].symbol = call[t].symbol /\ call'[t].raw = call[t].raw
  BY ClientParams DEF TypeOK, Go, Moved, Idle

LEMMA ReturnMoves ==
    ASSUME TypeOK, NEW t \in Tasks, NEW outcome, Return(t, outcome)
    PROVE  Moved(t, "idle")
  BY ClientParams DEF TypeOK, Return, Moved, Idle, Phases, Kinds

(* A step that is over and touches no lock. *)
LEMMA Finishes ==
    ASSUME IInv, NEW t \in Tasks, NEW outcome, Return(t, outcome),
           call[t].pc \in {"request", "book"},
           UNCHANGED <<venue, markets, funding>>
    PROVE  /\ TypeOK' /\ QueuesOK' /\ LoadsAreExclusive' /\ MarketsOK'
           /\ UNCHANGED settled => IntervalsOK'
<1>1. Moved(t, "idle")
  BY ReturnMoves DEF IInv
<1>2. UNCHANGED <<markets_queue, loaded, sides, info_queue, info, venue>>
  BY DEF markets, funding
<1>3. /\ Evolves(markets_queue, markets_queue', t, "idle", AtMarkets)
      /\ Evolves(info_queue, info_queue', t, "idle", AtInfo)
  BY <1>2 DEF Evolves, AtMarkets, AtInfo, Loading
<1>4. QueuesOK' /\ LoadsAreExclusive'
  BY <1>1, <1>2, <1>3, LocksKept DEF Loading
<1>5. TypeOK'
  BY <1>1, <1>2, <1>4, TypeKept DEF IInv, TypeOK
<1>6. MarketsOK'
  BY <1>1, <1>2, MarketsKept DEF IInv, MarketsOK, Requesting
<1>7. UNCHANGED settled => IntervalsOK'
  BY <1>1, <1>2, IntervalsKept DEF AtInfo
<1>8. QED
  BY <1>4, <1>5, <1>6, <1>7

LEMMA InitIInv == Init => IInv
<1> SUFFICES ASSUME Init PROVE IInv
  OBVIOUS
<1>1. /\ venue \in {"binance", "bybit"} /\ loaded = FALSE /\ sides = {}
      /\ markets_queue = << >> /\ info_queue = << >> /\ info = None
      /\ settled = [s \in Symbols |-> {}]
      /\ DOMAIN call = Tasks /\ \A t \in Tasks : call[t] = Idle
  BY DEF Init
<1>2. TypeOK
  <2>1. Idle.pc = "idle" /\ Idle.kind \in Kinds /\ Idle.attempt \in 1 .. Attempts
    BY ClientParams DEF Idle, Kinds
  <2>2. markets_queue \in Seq(Tasks) /\ info_queue \in Seq(Tasks)
    BY <1>1
  <2>3. /\ venue \in {"binance", "bybit"} /\ loaded \in BOOLEAN
        /\ sides \subseteq {"spot", "futures"}
        /\ info \in FundingInfos \cup {NoIntervals, None}
    BY <1>1
  <2>4. ASSUME NEW t \in Tasks
        PROVE  /\ DOMAIN call[t] = DOMAIN Idle
               /\ call[t].pc \in OnWire \cup {"idle", "markets", "info"}
               /\ call[t].kind \in Kinds
               /\ call[t].attempt \in 1 .. Attempts
    <3>1. call[t] = Idle
      BY <1>1
    <3>2. QED
      BY <2>1, <3>1
  <2>5. QED
    BY <1>1, <2>2, <2>3, <2>4 DEF TypeOK
<1>3. << >> \in Seq(Tasks) /\ Distinct(<< >>) /\ Members(<< >>) = {}
  BY DEF Distinct, Members
<1>4. \A t \in Tasks : call[t].pc = "idle"
  BY <1>1 DEF Idle
<1>5. QueuesOK
  BY <1>1, <1>3, <1>4 DEF QueuesOK, Queued, AtMarkets, Loading, AtInfo
<1>6. LoadsAreExclusive
  BY <1>4 DEF LoadsAreExclusive
<1>7. MarketsOK
  BY <1>1, <1>4 DEF MarketsOK, Requesting
<1>8. IntervalsOK
  BY <1>1, <1>4 DEF IntervalsOK
<1>9. QED
  BY <1>2, <1>5, <1>6, <1>7, <1>8 DEF IInv

LEMMA CallStep ==
    ASSUME IInv, NEW t \in Tasks, NEW what \in Kinds, NEW s, Call(t, what, s),
           what = "funding" => s \in Symbols
    PROVE  IInv'
<1>1. /\ call[t].pc = "idle" /\ markets_queue' = Append(markets_queue, t)
      /\ call' = [call EXCEPT ![t] =
                     [Idle EXCEPT !.pc = "markets", !.kind = what, !.symbol = s]]
      /\ UNCHANGED <<venue, loaded, sides, info_queue, info, settled>>
  BY DEF Call, funding
<1>2. /\ Moved(t, "markets")
      /\ call'[t].kind = "funding" => call'[t].symbol \in Symbols
  BY <1>1, ClientParams DEF IInv, TypeOK, Moved, Idle, Phases
<1>3. /\ Evolves(markets_queue, markets_queue', t, "markets", AtMarkets)
      /\ Evolves(info_queue, info_queue', t, "markets", AtInfo)
  BY <1>1 DEF Evolves, AtMarkets, AtInfo, Loading
<1>4. QueuesOK' /\ LoadsAreExclusive'
  BY <1>1, <1>2, <1>3, LocksKept DEF Loading
<1>5. TypeOK'
  BY <1>1, <1>2, <1>4, TypeKept DEF IInv, TypeOK
<1>6. MarketsOK'
  BY <1>1, <1>2, MarketsKept DEF IInv, MarketsOK, Requesting
<1>7. IntervalsOK'
  BY <1>1, <1>2, IntervalsKept DEF AtInfo
<1>8. QED
  BY <1>4, <1>5, <1>6, <1>7 DEF IInv

LEMMA EnterMarketsStep ==
    ASSUME IInv, NEW t \in Tasks, EnterMarkets(t)
    PROVE  IInv'
<1>1. /\ call[t].pc = "markets" /\ Holds(markets_queue, t)
      /\ UNCHANGED <<venue, loaded, sides, info_queue, info, settled>>
  BY DEF EnterMarkets, funding
<1>2. CASE loaded
  <2>1. Go(t, "request") /\ markets_queue' = Tail(markets_queue)
    BY <1>2 DEF EnterMarkets
  <2>2. /\ Moved(t, "request") /\ call'[t].kind = call[t].kind
        /\ call'[t].symbol = call[t].symbol
    BY <2>1, GoMoves DEF IInv, Phases, OnWire
  <2>3. /\ Evolves(markets_queue, markets_queue', t, "request", AtMarkets)
        /\ Evolves(info_queue, info_queue', t, "request", AtInfo)
    BY <1>1, <2>1 DEF Evolves, AtMarkets, AtInfo, Loading
  <2>4. QueuesOK' /\ LoadsAreExclusive'
    BY <1>1, <2>2, <2>3, LocksKept DEF Loading
  <2>5. TypeOK'
    BY <1>1, <2>2, <2>4, TypeKept DEF IInv, TypeOK
  <2>6. MarketsOK'
    BY <1>1, <1>2, <2>2, MarketsKept DEF IInv, MarketsOK
  <2>7. call'[t].kind = "funding" => call'[t].symbol \in Symbols
    BY <1>1, <2>2 DEF IInv, IntervalsOK
  <2>8. IntervalsOK'
    BY <1>1, <2>2, <2>7, IntervalsKept DEF AtInfo
  <2>9. QED
    BY <2>4, <2>5, <2>6, <2>8 DEF IInv
<1>3. CASE ~loaded
  <2>1. Go(t, "load_spot") /\ markets_queue' = markets_queue
    BY <1>3 DEF EnterMarkets
  <2>2. /\ Moved(t, "load_spot") /\ call'[t].kind = call[t].kind
        /\ call'[t].symbol = call[t].symbol
    BY <2>1, GoMoves DEF IInv, Phases, OnWire
  <2>3. /\ Evolves(markets_queue, markets_queue', t, "load_spot", AtMarkets)
        /\ Evolves(info_queue, info_queue', t, "load_spot", AtInfo)
    BY <1>1, <2>1 DEF Evolves, AtMarkets, AtInfo, Loading
  <2>4. Holds(markets_queue', t) /\ ~loaded'
    BY <1>1, <1>3, <2>1
  <2>5. QueuesOK' /\ LoadsAreExclusive'
    BY <1>1, <2>2, <2>3, <2>4, LocksKept
  <2>6. TypeOK'
    BY <1>1, <2>2, <2>5, TypeKept DEF IInv, TypeOK
  <2>7. MarketsOK'
    BY <1>1, <2>2, MarketsKept DEF IInv, MarketsOK, Requesting
  <2>8. call'[t].kind = "funding" => call'[t].symbol \in Symbols
    BY <1>1, <2>2 DEF IInv, IntervalsOK
  <2>9. IntervalsOK'
    BY <1>1, <2>2, <2>8, IntervalsKept DEF AtInfo
  <2>10. QED
    BY <2>5, <2>6, <2>7, <2>9 DEF IInv
<1>4. QED
  BY <1>2, <1>3

LEMMA SpotLoadedStep ==
    ASSUME IInv, NEW t \in Tasks, SpotLoaded(t)
    PROVE  IInv'
<1>1. /\ call[t].pc = "load_spot" /\ sides' = sides \cup {"spot"}
      /\ Go(t, "load_futures")
      /\ UNCHANGED <<venue, markets_queue, loaded, info_queue, info, settled>>
  BY DEF SpotLoaded, funding
<1>2. Holds(markets_queue, t) /\ ~loaded
  BY <1>1 DEF IInv, LoadsAreExclusive
<1>3. /\ Moved(t, "load_futures") /\ call'[t].kind = call[t].kind
      /\ call'[t].symbol = call[t].symbol
  BY <1>1, GoMoves DEF IInv, Phases, OnWire
<1>4. /\ Evolves(markets_queue, markets_queue', t, "load_futures", AtMarkets)
      /\ Evolves(info_queue, info_queue', t, "load_futures", AtInfo)
  BY <1>1 DEF Evolves, AtMarkets, AtInfo, Loading
<1>5. Holds(markets_queue', t) /\ ~loaded'
  BY <1>1, <1>2
<1>6. QueuesOK' /\ LoadsAreExclusive'
  BY <1>1, <1>3, <1>4, <1>5, LocksKept
<1>7. TypeOK'
  BY <1>1, <1>3, <1>6, TypeKept DEF IInv, TypeOK
<1>8. MarketsOK'
  BY <1>1, <1>2, <1>3, <1>5, MarketsKept DEF IInv, MarketsOK, Requesting
<1>9. call'[t].kind = "funding" => call'[t].symbol \in Symbols
  BY <1>1, <1>3 DEF IInv, IntervalsOK
<1>10. IntervalsOK'
  BY <1>1, <1>3, <1>9, IntervalsKept DEF AtInfo
<1>11. QED
  BY <1>6, <1>7, <1>8, <1>10 DEF IInv

LEMMA FuturesLoadedStep ==
    ASSUME IInv, NEW t \in Tasks, FuturesLoaded(t)
    PROVE  IInv'
<1>1. /\ call[t].pc = "load_futures" /\ sides' = sides \cup {"futures"}
      /\ loaded' = TRUE /\ markets_queue' = Tail(markets_queue)
      /\ Go(t, "request")
      /\ UNCHANGED <<venue, info_queue, info, settled>>
  BY DEF FuturesLoaded, funding
<1>2. Holds(markets_queue, t) /\ "spot" \in sides
  BY <1>1 DEF IInv, LoadsAreExclusive, MarketsOK
<1>3. /\ Moved(t, "request") /\ call'[t].kind = call[t].kind
      /\ call'[t].symbol = call[t].symbol
  BY <1>1, GoMoves DEF IInv, Phases, OnWire
<1>4. /\ Evolves(markets_queue, markets_queue', t, "request", AtMarkets)
      /\ Evolves(info_queue, info_queue', t, "request", AtInfo)
  BY <1>1, <1>2 DEF Evolves, AtMarkets, AtInfo, Loading
<1>5. QueuesOK' /\ LoadsAreExclusive'
  BY <1>1, <1>2, <1>3, <1>4, LocksKept DEF Loading
<1>6. sides' = {"spot", "futures"}
  BY <1>1, <1>2 DEF IInv, TypeOK
<1>7. TypeOK'
  BY <1>1, <1>3, <1>5, <1>6, TypeKept DEF IInv, TypeOK
<1>8. MarketsOK'
  BY <1>1, <1>3, <1>6, MarketsKept DEF IInv, TypeOK
<1>9. call'[t].kind = "funding" => call'[t].symbol \in Symbols
  BY <1>1, <1>3 DEF IInv, IntervalsOK
<1>10. IntervalsOK'
  BY <1>1, <1>3, <1>9, IntervalsKept DEF AtInfo
<1>11. QED
  BY <1>5, <1>7, <1>8, <1>10 DEF IInv

LEMMA LoadFailsStep ==
    ASSUME IInv, NEW t \in Tasks, LoadFails(t)
    PROVE  IInv'
<1>1. /\ call[t].pc \in Loading /\ markets_queue' = Tail(markets_queue)
      /\ Return(t, RequestError)
      /\ UNCHANGED <<venue, loaded, sides, info_queue, info, settled>>
  BY DEF LoadFails, funding, Loading
<1>2. Holds(markets_queue, t)
  BY <1>1 DEF IInv, LoadsAreExclusive, Loading
<1>3. Moved(t, "idle")
  BY <1>1, ReturnMoves DEF IInv
<1>4. /\ Evolves(markets_queue, markets_queue', t, "idle", AtMarkets)
      /\ Evolves(info_queue, info_queue', t, "idle", AtInfo)
  BY <1>1, <1>2 DEF Evolves, AtMarkets, AtInfo, Loading
<1>5. QueuesOK' /\ LoadsAreExclusive'
  BY <1>1, <1>2, <1>3, <1>4, LocksKept DEF Loading
<1>6. TypeOK'
  BY <1>1, <1>3, <1>5, TypeKept DEF IInv, TypeOK
<1>7. MarketsOK'
  BY <1>1, <1>3, MarketsKept DEF IInv, MarketsOK, Requesting
<1>8. IntervalsOK'
  BY <1>1, <1>3, IntervalsKept DEF AtInfo
<1>9. QED
  BY <1>5, <1>6, <1>7, <1>8 DEF IInv

(* Another attempt changes nothing but the number of the attempt. *)
LEMMA RetryStep ==
    ASSUME IInv, NEW t \in Tasks, Retry(t)
    PROVE  IInv'
<1>1. /\ call[t].attempt < Attempts
      /\ call' = [call EXCEPT ![t].attempt = @ + 1]
      /\ UNCHANGED <<venue, markets_queue, loaded, sides, info_queue, info,
                     settled>>
  BY DEF Retry, markets, funding
<1>2. /\ Moved(t, call[t].pc) /\ call'[t].kind = call[t].kind
      /\ call'[t].symbol = call[t].symbol /\ call'[t].raw = call[t].raw
  BY <1>1, ClientParams DEF IInv, TypeOK, Moved, Idle, Phases
<1>3. /\ Evolves(markets_queue, markets_queue', t, call[t].pc, AtMarkets)
      /\ Evolves(info_queue, info_queue', t, call[t].pc, AtInfo)
  BY <1>1 DEF Evolves
<1>4. /\ call[t].pc \in Loading => Holds(markets_queue', t) /\ ~loaded'
      /\ call[t].pc = "load_info" => Holds(info_queue', t) /\ info' = None
  BY <1>1 DEF IInv, LoadsAreExclusive, Loading
<1>5. QueuesOK' /\ LoadsAreExclusive'
  BY <1>1, <1>2, <1>3, <1>4, LocksKept
<1>6. TypeOK'
  BY <1>1, <1>2, <1>5, TypeKept DEF IInv, TypeOK
<1>7. MarketsOK'
  BY <1>1, <1>2, MarketsKept DEF IInv, MarketsOK
<1>8. /\ call[t].pc # "idle" /\ call'[t].kind = "funding" =>
            call'[t].symbol \in Symbols
      /\ call[t].pc \in AtInfo => Wants(t)'
  BY <1>1, <1>2 DEF IInv, IntervalsOK, AtInfo, Wants, NeedsInfo
<1>9. IntervalsOK'
  BY <1>1, <1>2, <1>8, IntervalsKept
<1>10. QED
  BY <1>5, <1>6, <1>7, <1>9 DEF IInv

LEMMA AnswerStep ==
    ASSUME IInv, NEW t \in Tasks,
           \/ RequestFails(t) \/ FetchTime(t) \/ FetchTickers(t)
           \/ FetchOrderBook(t)
    PROVE  IInv'
<1>1. /\ \E outcome : Return(t, outcome)
      /\ call[t].pc \in {"request", "book"}
      /\ UNCHANGED <<venue, markets, funding, settled>>
  BY DEF RequestFails, FetchTime, FetchTickers, FetchOrderBook
<1>2. PICK outcome : Return(t, outcome)
  BY <1>1
<1>3. QED
  BY <1>1, <1>2, Finishes DEF IInv

LEMMA FetchTickerStep ==
    ASSUME IInv, NEW t \in Tasks, FetchTicker(t)
    PROVE  IInv'
<1>1. /\ call[t].pc = "request" /\ call[t].kind \in {"spot", "perp"}
      /\ UNCHANGED <<venue, markets, funding, settled>>
  BY DEF FetchTicker
<1>2. PICK raw \in Quotes :
          IF NeedsBook(raw)
             THEN call' = [call EXCEPT ![t].pc = "book", ![t].attempt = 1,
                                       ![t].raw = raw]
             ELSE Return(t, Normalize(t, raw))
  BY DEF FetchTicker
<1>3. CASE ~NeedsBook(raw)
  <2>1. \E outcome : Return(t, outcome)
    BY <1>2, <1>3
  <2>2. PICK outcome : Return(t, outcome)
    BY <2>1
  <2>3. QED
    BY <1>1, <2>2, Finishes DEF IInv
<1>4. CASE NeedsBook(raw)
  <2>1. call' = [call EXCEPT ![t].pc = "book", ![t].attempt = 1,
                             ![t].raw = raw]
    BY <1>2, <1>4
  <2>2. UNCHANGED <<markets_queue, loaded, sides, info_queue, info, venue,
                    settled>>
    BY <1>1 DEF markets, funding
  <2>3. Moved(t, "book") /\ call'[t].kind # "funding"
    BY <1>1, <2>1, ClientParams DEF IInv, TypeOK, Moved, Idle, Phases, OnWire
  <2>4. /\ Evolves(markets_queue, markets_queue', t, "book", AtMarkets)
        /\ Evolves(info_queue, info_queue', t, "book", AtInfo)
    BY <1>1, <2>2 DEF Evolves, AtMarkets, AtInfo, Loading
  <2>5. QueuesOK' /\ LoadsAreExclusive'
    BY <2>2, <2>3, <2>4, LocksKept DEF Loading
  <2>6. TypeOK'
    BY <2>2, <2>3, <2>5, TypeKept DEF IInv, TypeOK
  <2>7. MarketsOK'
    BY <1>1, <2>2, <2>3, MarketsKept DEF IInv, MarketsOK, Requesting
  <2>8. IntervalsOK'
    BY <2>2, <2>3, IntervalsKept DEF AtInfo
  <2>9. QED
    BY <2>5, <2>6, <2>7, <2>8 DEF IInv
<1>5. QED
  BY <1>3, <1>4

-----------------------------------------------------------------------------
(* The symbol a task gets a funding snapshot for is given the interval it   *)
(* has from then on.                                                        *)
LEMMA FundingSettles ==
    ASSUME IInv, NEW t \in Tasks, NEW s \in Symbols, s = call[t].symbol,
           NEW response, NEW cache, ReturnFunding(t, response, cache),
           UNCHANGED venue, info' = info \/ info = None,
           ParseFundingInterval(response, << >>) = None =>
               /\ Resolve(s, response, cache) = IntervalOf(s)'
               /\ Open(s) => info' # None
    PROVE  IntervalsOK'
<1>1. Moved(t, "idle")
  <2>1. \E outcome : Return(t, outcome)
    BY DEF ReturnFunding
  <2>2. QED
    BY <2>1, ReturnMoves DEF IInv
<1>2. \A u \in Tasks : call'[u].pc # "idle" => u # t /\ call'[u] = call[u]
  BY <1>1 DEF Moved
<1>3. ASSUME NEW u \in Tasks
      PROVE  /\ call'[u].pc # "idle" /\ call'[u].kind = "funding" =>
                    call'[u].symbol \in Symbols
             /\ call'[u].pc \in {"info", "load_info"} => Wants(u)'
  BY <1>2 DEF IInv, IntervalsOK, Wants, NeedsInfo
<1>4. ASSUME NEW x \in Symbols
      PROVE  /\ settled[x] \subseteq {IntervalOf(x)'}
             /\ Open(x)' <=> Open(x)
             /\ Open(x) /\ info' = None => settled[x] = {}
  BY DEF IInv, IntervalsOK, IntervalOf, Open
<1>5. DOMAIN settled = Symbols
  BY DEF IInv, IntervalsOK
<1>6. \/ settled' = settled
      \/ /\ ParseFundingInterval(response, << >>) = None
         /\ settled' = [settled EXCEPT ![s] =
                            @ \cup {Resolve(s, response, cache)}]
  BY DEF ReturnFunding, NormalizeFunding, SnapshotInterval
<1>7. /\ DOMAIN settled' = Symbols
      /\ \A x \in Symbols :
            /\ settled'[x] \subseteq {IntervalOf(x)'}
            /\ Open(x)' /\ info' = None => settled'[x] = {}
  <2>1. CASE settled' = settled
    BY <1>4, <1>5, <2>1
  <2>2. CASE settled' # settled
    <3>1. /\ settled' = [settled EXCEPT ![s] = @ \cup {IntervalOf(s)'}]
          /\ Open(s) => info' # None
      BY <1>6, <2>2
    <3>2. QED
      BY <1>4, <1>5, <3>1
  <2>3. QED
    BY <2>1, <2>2
<1>8. QED
  BY <1>3, <1>7 DEF IntervalsOK

LEMMA FetchFundingStep ==
    ASSUME IInv, NEW t \in Tasks, FetchFunding(t)
    PROVE  IInv'
<1>1. /\ call[t].pc = "request" /\ call[t].kind = "funding"
      /\ UNCHANGED <<venue, markets, info>>
  BY DEF FetchFunding
<1>2. UNCHANGED <<markets_queue, loaded, sides>>
  BY <1>1 DEF markets
<1>3. call[t].symbol \in Symbols
  BY <1>1 DEF IInv, IntervalsOK
<1>4. PICK response \in FundingPayloads :
          IF NeedsInfo(call[t].symbol, response)
             THEN /\ call' = [call EXCEPT ![t].pc = "info", ![t].raw = response]
                  /\ info_queue' = Append(info_queue, t)
                  /\ UNCHANGED settled
             ELSE ReturnFunding(t, response, NoIntervals) /\ UNCHANGED info_queue
  BY DEF FetchFunding
<1>5. CASE NeedsInfo(call[t].symbol, response)
  <2>1. /\ call' = [call EXCEPT ![t].pc = "info", ![t].raw = response]
        /\ info_queue' = Append(info_queue, t)
        /\ UNCHANGED settled
    BY <1>4, <1>5
  <2>2. /\ Moved(t, "info") /\ call'[t].raw = response
        /\ call'[t].symbol = call[t].symbol
    BY <2>1, ClientParams DEF IInv, TypeOK, Moved, Idle, Phases
  <2>3. /\ Evolves(markets_queue, markets_queue', t, "info", AtMarkets)
        /\ Evolves(info_queue, info_queue', t, "info", AtInfo)
    BY <1>1, <1>2, <2>1 DEF Evolves, AtMarkets, AtInfo, Loading
  <2>4. QueuesOK' /\ LoadsAreExclusive'
    BY <1>1, <1>2, <2>2, <2>3, LocksKept DEF Loading
  <2>5. TypeOK'
    BY <1>1, <1>2, <2>2, <2>4, TypeKept DEF IInv, TypeOK
  <2>6. MarketsOK'
    BY <1>1, <1>2, <2>2, MarketsKept DEF IInv, MarketsOK, Requesting
  <2>7. Wants(t)' /\ call'[t].symbol \in Symbols
    BY <1>1, <1>3, <1>5, <2>2 DEF Wants, NeedsInfo
  <2>8. IntervalsOK'
    BY <1>1, <2>1, <2>2, <2>7, IntervalsKept
  <2>9. QED
    BY <2>4, <2>5, <2>6, <2>8 DEF IInv
<1>6. CASE ~NeedsInfo(call[t].symbol, response)
  <2>1. ReturnFunding(t, response, NoIntervals) /\ UNCHANGED info_queue
    BY <1>4, <1>6
  <2>2. \E outcome : Return(t, outcome)
    BY <2>1 DEF ReturnFunding
  <2>3. PICK outcome : Return(t, outcome)
    BY <2>2
  <2>4. UNCHANGED <<venue, markets, funding>>
    BY <1>1, <2>1 DEF funding
  <2>5. TypeOK' /\ QueuesOK' /\ LoadsAreExclusive' /\ MarketsOK'
    BY <1>1, <2>3, <2>4, Finishes
  <2>6. ASSUME ParseFundingInterval(response, << >>) = None
        PROVE  /\ Resolve(call[t].symbol, response, NoIntervals)
                      = IntervalOf(call[t].symbol)
               /\ ~Open(call[t].symbol)
    BY <1>3, <1>6, <2>6
       DEF NeedsInfo, Resolve, IntervalOf, Open, NoIntervals
  <2>7. \A s \in Symbols : IntervalOf(s)' = IntervalOf(s)
    BY <1>1 DEF IntervalOf, Open
  <2>8. IntervalsOK'
    BY <1>1, <1>3, <2>1, <2>6, <2>7, FundingSettles
  <2>9. QED
    BY <2>5, <2>8 DEF IInv
<1>7. QED
  BY <1>5, <1>6

(* The task that waited for the funding intervals returns with them. *)
LEMMA InfoReturned ==
    ASSUME IInv, NEW t \in Tasks, call[t].pc \in AtInfo, Holds(info_queue, t),
           NEW cache, ReturnFunding(t, call[t].raw, cache),
           info_queue' = Tail(info_queue), UNCHANGED <<venue, markets>>,
           info' = cache, cache \in FundingInfos \cup {NoIntervals},
           info' = info \/ info = None
    PROVE  IInv'
<1>1. UNCHANGED <<venue, markets_queue, loaded, sides>>
  BY DEF markets
<1>2. Moved(t, "idle")
  <2>1. \E outcome : Return(t, outcome)
    BY DEF ReturnFunding
  <2>2. QED
    BY <2>1, ReturnMoves DEF IInv
<1>3. /\ Evolves(markets_queue, markets_queue', t, "idle", AtMarkets)
      /\ Evolves(info_queue, info_queue', t, "idle", AtInfo)
  BY <1>1 DEF Evolves, AtMarkets, AtInfo, Loading
<1>4. QueuesOK' /\ LoadsAreExclusive'
  BY <1>1, <1>2, <1>3, LocksKept DEF Loading
<1>5. TypeOK'
  BY <1>1, <1>2, <1>4, TypeKept DEF IInv, TypeOK
<1>6. MarketsOK'
  BY <1>1, <1>2, MarketsKept DEF IInv, MarketsOK, Requesting
<1>7. Wants(t)
  BY DEF IInv, IntervalsOK, AtInfo
<1>8. info' # None
  BY ClientParams
<1>9. \A s \in Symbols :
          NeedsInfo(s, call[t].raw) =>
              Resolve(s, call[t].raw, cache) = IntervalOf(s)'
  BY <1>1 DEF NeedsInfo, Resolve, IntervalOf, Open
<1>10. PICK s \in Symbols : s = call[t].symbol
  BY <1>7 DEF Wants
<1>11. PICK response : response = call[t].raw
  OBVIOUS
<1>12. /\ ReturnFunding(t, response, cache)
       /\ Resolve(s, response, cache) = IntervalOf(s)'
  BY <1>7, <1>9, <1>10, <1>11 DEF Wants
<1>13. IntervalsOK'
  BY <1>1, <1>8, <1>10, <1>12, FundingSettles
<1>14. QED
  BY <1>4, <1>5, <1>6, <1>13 DEF IInv

LEMMA EnterInfoStep ==
    ASSUME IInv, NEW t \in Tasks, EnterInfo(t)
    PROVE  IInv'
<1>1. /\ call[t].pc = "info" /\ Holds(info_queue, t)
      /\ UNCHANGED <<venue, markets, info>>
  BY DEF EnterInfo
<1>2. UNCHANGED <<markets_queue, loaded, sides>>
  BY <1>1 DEF markets
<1>3. CASE info = None
  <2>1. Go(t, "load_info") /\ UNCHANGED <<info_queue, settled>>
    BY <1>3 DEF EnterInfo
  <2>2. /\ Moved(t, "load_info") /\ call'[t].kind = call[t].kind
        /\ call'[t].symbol = call[t].symbol /\ call'[t].raw = call[t].raw
    BY <2>1, GoMoves DEF IInv, Phases, OnWire
  <2>3. /\ Evolves(markets_queue, markets_queue', t, "load_info", AtMarkets)
        /\ Evolves(info_queue, info_queue', t, "load_info", AtInfo)
    BY <1>1, <1>2, <2>1 DEF Evolves, AtMarkets, AtInfo, Loading
  <2>4. Holds(info_queue', t) /\ info' = None
    BY <1>1, <1>3, <2>1
  <2>5. QueuesOK' /\ LoadsAreExclusive'
    BY <1>1, <1>2, <2>2, <2>3, <2>4, LocksKept DEF Loading
  <2>6. TypeOK'
    BY <1>1, <1>2, <2>2, <2>5, TypeKept DEF IInv, TypeOK
  <2>7. MarketsOK'
    BY <1>1, <1>2, <2>2, MarketsKept DEF IInv, MarketsOK, Requesting
  <2>8. Wants(t)' /\ call'[t].symbol \in Symbols
    BY <1>1, <2>2 DEF IInv, IntervalsOK, Wants, NeedsInfo
  <2>9. IntervalsOK'
    BY <1>1, <2>1, <2>2, <2>8, IntervalsKept
  <2>10. QED
    BY <2>5, <2>6, <2>7, <2>9 DEF IInv
<1>4. CASE info # None
  <2>1. ReturnFunding(t, call[t].raw, info) /\ info_queue' = Tail(info_queue)
    BY <1>4 DEF EnterInfo
  <2>2. info \in FundingInfos \cup {NoIntervals}
    BY <1>4 DEF IInv, TypeOK
  <2>3. QED
    BY <1>1, <2>1, <2>2, InfoReturned DEF AtInfo
<1>5. QED
  BY <1>3, <1>4

LEMMA InfoEndsStep ==
    ASSUME IInv, NEW t \in Tasks, InfoLoaded(t) \/ InfoFails(t)
    PROVE  IInv'
<1>1. /\ call[t].pc \in AtInfo /\ info_queue' = Tail(info_queue)
      /\ UNCHANGED <<venue, markets>>
      /\ info' \in FundingInfos \cup {NoIntervals}
      /\ ReturnFunding(t, call[t].raw, info')
  BY DEF InfoLoaded, InfoFails, AtInfo
<1>2. Holds(info_queue, t) /\ info = None
  BY DEF IInv, LoadsAreExclusive, InfoLoaded, InfoFails
<1>3. PICK cache : cache = info'
  OBVIOUS
<1>4. ReturnFunding(t, call[t].raw, cache) /\ cache \in FundingInfos \cup {NoIntervals}
  BY <1>1, <1>3
<1>5. QED
  BY <1>1, <1>2, <1>3, <1>4, InfoReturned

-----------------------------------------------------------------------------
LEMMA StutterStep ==
    ASSUME IInv, UNCHANGED vars
    PROVE  IInv'
<1>1. UNCHANGED <<venue, markets_queue, loaded, sides, info_queue, info, call,
                  settled>>
  BY DEF vars, markets, funding
<1>2. TypeOK' /\ QueuesOK'
  BY <1>1 DEF IInv, TypeOK, QueuesOK, Queued
<1>3. LoadsAreExclusive' /\ MarketsOK'
  BY <1>1 DEF IInv, LoadsAreExclusive, MarketsOK
<1>4. IntervalsOK'
  BY <1>1 DEF IInv, IntervalsOK, Wants, NeedsInfo, IntervalOf, Open
<1>5. QED
  BY <1>2, <1>3, <1>4 DEF IInv

LEMMA NextIInv == IInv /\ [Next]_vars => IInv'
<1> SUFFICES ASSUME IInv, [Next]_vars PROVE IInv'
  OBVIOUS
<1>1. CASE \E t \in Tasks, what \in Kinds \ {"funding"} : Call(t, what, None)
  BY <1>1, CallStep
<1>2. CASE \E t \in Tasks, s \in Symbols : Call(t, "funding", s)
  BY <1>2, CallStep DEF Kinds
<1>3. ASSUME NEW t \in Tasks, Step(t)
      PROVE  IInv'
  BY <1>3, EnterMarketsStep, SpotLoadedStep, FuturesLoadedStep, LoadFailsStep,
     RetryStep, AnswerStep, FetchTickerStep, FetchFundingStep, EnterInfoStep,
     InfoEndsStep DEF Step
<1>4. CASE UNCHANGED vars
  BY <1>4, StutterStep
<1>5. QED
  BY <1>1, <1>2, <1>3, <1>4 DEF Next

LEMMA AlwaysIInv == Spec => []IInv
  BY InitIInv, NextIInv, PTL DEF Spec

(* The tasks and the locks of a client keep their types                     *)
(* (BinanceExchangeClient, BybitExchangeClient).                            *)
THEOREM TypeCorrect == Spec => []TypeOK
<1>1. IInv => TypeOK
  BY DEF IInv
<1>2. QED
  BY <1>1, AlwaysIInv, PTL

(* For every number of tasks, a load is only under way in the holder of its *)
(* lock (_ensure_markets_loaded, _load_funding_info_once).                  *)
THEOREM LoadsExclude == Spec => []LoadsAreExclusive
<1>1. IInv => LoadsAreExclusive
  BY DEF IInv
<1>2. QED
  BY <1>1, AlwaysIInv, PTL

(* No request is sent before both markets are there, however the loads      *)
(* interleave and fail (_ensure_markets_loaded).                            *)
THEOREM MarketsFirst == Spec => []RequestsHaveMarkets
<1>1. IInv => RequestsHaveMarkets
  BY DEF IInv, MarketsOK, RequestsHaveMarkets, Requesting
<1>2. QED
  BY <1>1, AlwaysIInv, PTL

(* A symbol whose responses do not say has one interval, whatever the       *)
(* endpoint answers and whether it answers                                  *)
(* (_resolve_funding_interval_hours, _load_funding_info_once).              *)
THEOREM OneInterval == Spec => []IntervalSettled
<1>1. IInv => IntervalSettled
  BY DEF IInv, IntervalsOK, IntervalSettled
<1>2. QED
  BY <1>1, AlwaysIInv, PTL

-----------------------------------------------------------------------------
(* The two lazy loads implement OnceCell: whoever asks is not in the queue, *)
(* and whoever publishes or leaves is its head.                             *)
LEMMA IdleAsks ==
    ASSUME IInv, NEW t \in Tasks
    PROVE  /\ call[t].pc \notin AtMarkets =>
                  \A i \in 1 .. Len(markets_queue) : markets_queue[i] # t
           /\ call[t].pc \notin AtInfo =>
                  \A i \in 1 .. Len(info_queue) : info_queue[i] # t
  BY DEF IInv, QueuesOK, Queued, Members

MarketsStep == MarketsCell!Next \/ UNCHANGED MarketsCell!vars
InfoStep == InfoCell!Next \/ UNCHANGED InfoCell!vars

LEMMA MarketsStay ==
    ASSUME UNCHANGED markets
    PROVE  MarketsStep
  BY DEF markets, MarketsStep, MarketsCell!vars

LEMMA InfoStays ==
    ASSUME UNCHANGED funding
    PROVE  InfoStep
  BY DEF funding, InfoStep, InfoCell!vars

LEMMA CallCells ==
    ASSUME IInv, NEW t \in Tasks, NEW what, NEW s, Call(t, what, s)
    PROVE  MarketsStep /\ InfoStep
<1>1. /\ markets_queue' = Append(markets_queue, t) /\ loaded' = loaded
      /\ call[t].pc = "idle" /\ UNCHANGED funding
  BY DEF Call
<1>2. \A i \in 1 .. Len(markets_queue) : markets_queue[i] # t
  BY <1>1, IdleAsks DEF AtMarkets, Loading
<1>3. MarketsCell!Ask(t)
  BY <1>1, <1>2 DEF MarketsCell!Ask
<1>4. MarketsStep
  BY <1>3 DEF MarketsStep, MarketsCell!Next
<1>5. QED
  BY <1>1, <1>4, InfoStays

LEMMA MarketsCellStep ==
    ASSUME IInv, NEW t \in Tasks,
           \/ EnterMarkets(t) \/ SpotLoaded(t) \/ FuturesLoaded(t)
           \/ LoadFails(t)
    PROVE  MarketsStep /\ InfoStep
<1>1. InfoStep
  BY InfoStays DEF EnterMarkets, SpotLoaded, FuturesLoaded, LoadFails
<1>2. \/ UNCHANGED <<markets_queue, loaded>>
      \/ markets_queue' = Tail(markets_queue) /\ UNCHANGED loaded
      \/ markets_queue' = Tail(markets_queue) /\ ~loaded /\ loaded'
  BY DEF IInv, LoadsAreExclusive, EnterMarkets, SpotLoaded, FuturesLoaded,
         LoadFails
<1>3. Holds(markets_queue, t) \/ UNCHANGED <<markets_queue, loaded>>
  BY DEF IInv, LoadsAreExclusive, EnterMarkets, SpotLoaded, FuturesLoaded,
         LoadFails
<1>4. CASE UNCHANGED <<markets_queue, loaded>>
  BY <1>1, <1>4 DEF MarketsStep, MarketsCell!vars
<1>5. CASE /\ markets_queue' = Tail(markets_queue) /\ UNCHANGED loaded
           /\ markets_queue # << >>
  <2>1. MarketsCell!Leave
    BY <1>5 DEF MarketsCell!Leave
  <2>2. QED
    BY <1>1, <2>1 DEF MarketsStep, MarketsCell!Next
<1>6. CASE /\ markets_queue' = Tail(markets_queue) /\ ~loaded /\ loaded'
           /\ markets_queue # << >>
  <2>1. MarketsCell!Publish
    BY <1>6 DEF MarketsCell!Publish
  <2>2. QED
    BY <1>1, <2>1 DEF MarketsStep, MarketsCell!Next
<1>7. QED
  BY <1>2, <1>3, <1>4, <1>5, <1>6 DEF Holds

LEMMA FetchFundingCells ==
    ASSUME IInv, NEW t \in Tasks, FetchFunding(t)
    PROVE  MarketsStep /\ InfoStep
<1>1. UNCHANGED markets /\ UNCHANGED info /\ call[t].pc = "request"
  BY DEF FetchFunding
<1>2. info_queue' = Append(info_queue, t) \/ UNCHANGED info_queue
  BY DEF FetchFunding
<1>3. CASE info_queue' = Append(info_queue, t)
  <2>1. \A i \in 1 .. Len(info_queue) : info_queue[i] # t
    BY <1>1, IdleAsks DEF AtInfo
  <2>2. InfoCell!Ask(t)
    BY <1>1, <1>3, <2>1 DEF InfoCell!Ask
  <2>3. InfoStep
    BY <2>2 DEF InfoStep, InfoCell!Next
  <2>4. QED
    BY <1>1, <2>3, MarketsStay
<1>4. CASE UNCHANGED info_queue
  BY <1>1, <1>4, MarketsStay, InfoStays DEF funding
<1>5. QED
  BY <1>2, <1>3, <1>4

LEMMA InfoCellStep ==
    ASSUME IInv, NEW t \in Tasks,
           EnterInfo(t) \/ InfoLoaded(t) \/ InfoFails(t)
    PROVE  MarketsStep /\ InfoStep
<1>1. UNCHANGED markets /\ Holds(info_queue, t)
  BY DEF IInv, LoadsAreExclusive, EnterInfo, InfoLoaded, InfoFails
<1>2. \/ UNCHANGED <<info_queue, info>>
      \/ info_queue' = Tail(info_queue) /\ UNCHANGED info
      \/ /\ info_queue' = Tail(info_queue) /\ info = None
         /\ info' \in FundingInfos \cup {NoIntervals}
  BY DEF IInv, LoadsAreExclusive, EnterInfo, InfoLoaded, InfoFails
<1>3. info_queue # << >>
  BY <1>1 DEF Holds
<1>4. CASE UNCHANGED <<info_queue, info>>
  BY <1>1, <1>4, MarketsStay, InfoStays DEF funding
<1>5. CASE info_queue' = Tail(info_queue) /\ UNCHANGED info
  <2>1. InfoCell!Leave
    BY <1>3, <1>5 DEF InfoCell!Leave
  <2>2. QED
    BY <1>1, <2>1, MarketsStay DEF InfoStep, InfoCell!Next
<1>6. CASE /\ info_queue' = Tail(info_queue) /\ info = None
           /\ info' \in FundingInfos \cup {NoIntervals}
  <2>1. InfoCell!Publish
    BY <1>3, <1>6 DEF InfoCell!Publish
  <2>2. QED
    BY <1>1, <2>1, MarketsStay DEF InfoStep, InfoCell!Next
<1>7. QED
  BY <1>2, <1>4, <1>5, <1>6

LEMMA NextCells == IInv /\ [Next]_vars => MarketsStep /\ InfoStep
<1> SUFFICES ASSUME IInv, [Next]_vars PROVE MarketsStep /\ InfoStep
  OBVIOUS
<1>1. CASE \E t \in Tasks, what \in Kinds \ {"funding"} : Call(t, what, None)
  BY <1>1, CallCells
<1>2. CASE \E t \in Tasks, s \in Symbols : Call(t, "funding", s)
  BY <1>2, CallCells
<1>3. ASSUME NEW t \in Tasks,
             \/ Retry(t) \/ RequestFails(t) \/ FetchTime(t)
             \/ FetchTickers(t) \/ FetchTicker(t) \/ FetchOrderBook(t)
      PROVE  MarketsStep /\ InfoStep
  <2>1. UNCHANGED markets /\ UNCHANGED funding
    BY <1>3 DEF Retry, RequestFails, FetchTime, FetchTickers, FetchTicker,
                FetchOrderBook
  <2>2. QED
    BY <2>1, MarketsStay, InfoStays
<1>4. ASSUME NEW t \in Tasks, Step(t)
      PROVE  MarketsStep /\ InfoStep
  BY <1>3, <1>4, MarketsCellStep, FetchFundingCells, InfoCellStep DEF Step
<1>5. CASE UNCHANGED vars
  BY <1>5, MarketsStay, InfoStays DEF vars
<1>6. QED
  BY <1>1, <1>2, <1>4, <1>5 DEF Next

(* For every number of tasks and whatever fails, the markets and the        *)
(* funding intervals are loaded by one task at a time, in the order they    *)
(* asked, and only once (_ensure_markets_loaded, _load_funding_info_once).  *)
THEOREM LoadedOnce == Spec => LoadOnce
<1>1. Init => MarketsCell!Init /\ InfoCell!Init
  BY DEF Init, MarketsCell!Init, InfoCell!Init
<1>2. IInv /\ [Next]_vars =>
          /\ [MarketsCell!Next]_(MarketsCell!vars)
          /\ [InfoCell!Next]_(InfoCell!vars)
  BY NextCells DEF MarketsStep, InfoStep
<1>3. QED
  BY <1>1, <1>2, AlwaysIInv, PTL
     DEF Spec, LoadOnce, MarketsCell!Spec, InfoCell!Spec

-----------------------------------------------------------------------------
(* The database. *)

(* The rows that there may be, and the statements about them. *)
StorageRows ==
    [id: Names \cup Nat, table: Storage!Tables, at: Int]
        \cup [id: AlertIds, table: {"alerts"}, at: Int, status: Statuses,
              sent: Int \cup {None}]

Inserts ==
    {stmt \in [op: {"insert"}, table: Storage!Tables, row: StorageRows] :
        stmt.row.table = stmt.table}
Deletes == [op: {"delete"}, table: Storage!Tables, cutoff: Int \cup {None}]
Statements == Inserts \cup Deletes

StorageTypeOK ==
    /\ now \in Int /\ calls \in Nat
    /\ DOMAIN db = Storage!Tables /\ DOMAIN view = Storage!Tables
    /\ script \in Seq(Statements)

(* What is saved is seen by the connection too: a commit does not undo it.  *)
SavedIsSeen ==
    \A r \in saved : r.table \in Storage!Tables /\ r \in db[r.table] /\ r \in view[r.table]

OfOneRefresh(rows) == \A r, s \in rows : r.at = s.at

IsPoolInsert(stmt) == stmt.op = "insert" /\ stmt.table = "active_universe"
IsPoolDelete(stmt) == stmt.op = "delete" /\ stmt.table = "active_universe"

(* The pool is emptied first, and then filled at one time; a script that is *)
(* filling it has emptied it.                                               *)
PoolOK ==
    /\ OfOneRefresh(db.active_universe) /\ OfOneRefresh(view.active_universe)
    /\ \A i \in 1 .. Len(script) :
          /\ IsPoolInsert(script[i]) => script[i].row.at = now
          /\ IsPoolDelete(script[i]) => i = 1 /\ script[i].cutoff = None
    /\ (\E i \in 1 .. Len(script) : IsPoolInsert(script[i]))
            /\ ~IsPoolDelete(script[1]) =>
          \A r \in db.active_universe \cup view.active_universe : r.at = now

StorageInv == StorageTypeOK /\ SavedIsSeen /\ PoolOK

LEMMA InitStorageInv == Storage!Init => StorageInv
<1> SUFFICES ASSUME Storage!Init PROVE StorageInv
  OBVIOUS
<1>1. StorageTypeOK
  BY DEF Storage!Init, StorageTypeOK, Storage!Empty
<1>2. SavedIsSeen
  BY DEF Storage!Init, SavedIsSeen
<1>3. "active_universe" \in Storage!Tables
  BY DEF Storage!Tables, Storage!UniverseTables
<1>4. PoolOK
  BY <1>3 DEF Storage!Init, PoolOK, Storage!Empty, OfOneRefresh
<1>5. QED
  BY <1>1, <1>2, <1>4 DEF StorageInv

(* A method that is started: its statements are sound, and a pool it fills  *)
(* it empties first.                                                        *)
LEMMA StartStep ==
    ASSUME StorageInv, NEW stmts \in Seq(Statements),
           Storage!Start(stmts),
           \A i \in 1 .. Len(stmts) :
              /\ IsPoolInsert(stmts[i]) =>
                    stmts[i].row.at = now /\ IsPoolDelete(stmts[1])
              /\ IsPoolDelete(stmts[i]) => i = 1 /\ stmts[i].cutoff = None
    PROVE  StorageInv'
<1>1. /\ script' = stmts /\ calls' \in Nat
      /\ UNCHANGED <<now, db, view, saved>>
  BY DEF Storage!Start, StorageInv, StorageTypeOK
<1>2. StorageTypeOK'
  BY <1>1 DEF StorageInv, StorageTypeOK, Statements, Inserts, Deletes, StorageRows
<1>3. SavedIsSeen'
  BY <1>1 DEF StorageInv, SavedIsSeen
<1>4. PoolOK'
  BY <1>1 DEF StorageInv, PoolOK, OfOneRefresh, IsPoolInsert, IsPoolDelete
<1>5. QED
  BY <1>2, <1>3, <1>4 DEF StorageInv

(* A method of one statement that does not touch the pool. *)
LEMMA SaveStep ==
    ASSUME StorageInv, NEW stmt \in Statements,
           stmt.table # "active_universe", Storage!Start(<<stmt>>)
    PROVE  StorageInv'
<1>1. <<stmt>> \in Seq(Statements) /\ Len(<<stmt>>) = 1
      /\ <<stmt>>[1] = stmt
  OBVIOUS
<1>2. \A i \in 1 .. Len(<<stmt>>) :
         ~IsPoolInsert(<<stmt>>[i]) /\ ~IsPoolDelete(<<stmt>>[i])
  BY DEF IsPoolInsert, IsPoolDelete
<1>3. QED
  BY <1>1, <1>2, StartStep

LEMMA TablesKnown ==
    /\ Storage!SnapshotTables \subseteq Storage!Tables /\ Storage!CleanedTables \subseteq Storage!Tables
    /\ "alerts" \in Storage!Tables
    /\ "active_universe" \in Storage!Tables /\ "universe_history" \in Storage!Tables
    /\ "active_universe" \notin Storage!CleanedTables
    /\ "active_universe" \notin Storage!SnapshotTables
  BY DEF Storage!Tables, Storage!SnapshotTables, Storage!CleanedTables, Storage!UniverseTables

LEMMA SnapshotStep ==
    ASSUME StorageInv, NEW table \in Storage!SnapshotTables, Storage!Save(table)
    PROVE  StorageInv'
<1> DEFINE row == [id |-> calls, table |-> table, at |-> now]
<1>1. row \in StorageRows /\ row.table = table
  BY TablesKnown DEF StorageInv, StorageTypeOK, StorageRows
<1>2. Storage!Insert(table, row) \in Statements
      /\ Storage!Insert(table, row).table # "active_universe"
  BY <1>1, TablesKnown DEF Storage!Insert, Statements, Inserts
<1>3. Storage!Start(<<Storage!Insert(table, row)>>)
  BY DEF Storage!Save
<1>4. QED
  BY <1>2, <1>3, SaveStep

LEMMA AlertStep ==
    ASSUME StorageInv, NEW id \in AlertIds,
           NEW status \in Statuses, Storage!SaveAlert(id, status)
    PROVE  StorageInv'
<1> DEFINE row == [id |-> id, table |-> "alerts", at |-> now,
                   status |-> status,
                   sent |-> IF status = "sent" THEN now ELSE None]
<1>1. row \in StorageRows /\ row.table = "alerts"
  BY DEF StorageInv, StorageTypeOK, StorageRows
<1>2. Storage!Insert("alerts", row) \in Statements
      /\ Storage!Insert("alerts", row).table # "active_universe"
  BY <1>1, TablesKnown DEF Storage!Insert, Statements, Inserts
<1>3. Storage!Start(<<Storage!Insert("alerts", row)>>)
  BY DEF Storage!SaveAlert
<1>4. QED
  BY <1>2, <1>3, SaveStep

LEMMA CleanupStep ==
    ASSUME StorageInv, Storage!CleanupOldRecords
    PROVE  StorageInv'
<1> DEFINE delete(table) == Storage!DeleteOld(table, now - Retention)
           stmts == <<delete("market_snapshots"), delete("funding_snapshots"),
                      delete("quality_reports"), delete("metrics"),
                      delete("signal_decisions"), delete("alerts")>>
<1>1. \A table \in Storage!CleanedTables :
         /\ delete(table) \in Statements
         /\ ~IsPoolInsert(delete(table)) /\ ~IsPoolDelete(delete(table))
  BY TablesKnown, StorageParams DEF Storage!DeleteOld, Statements, Deletes, StorageInv, StorageTypeOK,
                     IsPoolInsert, IsPoolDelete
<1>2. stmts \in Seq(Statements)
      /\ \A k \in 1 .. Len(stmts) :
            ~IsPoolInsert(stmts[k]) /\ ~IsPoolDelete(stmts[k])
  BY <1>1 DEF Storage!CleanedTables, Storage!SnapshotTables
<1>3. Storage!Start(stmts)
  BY DEF Storage!CleanupOldRecords
<1> HIDE DEF stmts
<1>4. QED
  BY <1>2, <1>3, StartStep

(* A statement followed by two lists of others. *)
LEMMA Concatenated ==
    ASSUME NEW S, NEW x \in S, NEW b \in Seq(S), NEW c \in Seq(S)
    PROVE  /\ <<x>> \o b \o c \in Seq(S)
           /\ (<<x>> \o b \o c)[1] = x
           /\ \A k \in 1 .. Len(<<x>> \o b \o c) : k # 1 =>
                 \/ \E i \in 1 .. Len(b) : (<<x>> \o b \o c)[k] = b[i]
                 \/ \E i \in 1 .. Len(c) : (<<x>> \o b \o c)[k] = c[i]
<1>1. PICK xb \in Seq(S) : xb = <<x>> \o b
  <2>1. <<x>> \o b \in Seq(S)
    OBVIOUS
  <2>2. QED
    BY <2>1, Zenon
<1>2. PICK all \in Seq(S) : all = xb \o c
  <2>1. xb \o c \in Seq(S)
    OBVIOUS
  <2>2. QED
    BY <2>1, Zenon
<1>3. Len(xb) = 1 + Len(b) /\ Len(b) \in Nat /\ xb[1] = x
  BY <1>1
<1>4. \A k \in 2 .. Len(xb) : k - 1 \in 1 .. Len(b) /\ xb[k] = b[k - 1]
  BY <1>1
<1>5. /\ Len(all) = Len(xb) + Len(c) /\ Len(c) \in Nat
      /\ \A k \in 1 .. Len(xb) : all[k] = xb[k]
  BY <1>2
<1>6. \A k \in Len(xb) + 1 .. Len(all) :
         k - Len(xb) \in 1 .. Len(c) /\ all[k] = c[k - Len(xb)]
  BY <1>2
<1>7. all[1] = x
  BY <1>3, <1>5
<1>8. ASSUME NEW k \in 1 .. Len(all), k # 1
      PROVE  \/ \E i \in 1 .. Len(b) : all[k] = b[i]
             \/ \E i \in 1 .. Len(c) : all[k] = c[i]
  <2>1. CASE k \in 2 .. Len(xb)
    <3>1. k \in 1 .. Len(xb)
      BY <1>3, <2>1
    <3>2. all[k] = xb[k]
      BY <1>5, <3>1
    <3>3. k - 1 \in 1 .. Len(b) /\ xb[k] = b[k - 1]
      BY <1>4, <2>1
    <3>4. QED
      BY <3>2, <3>3
  <2>2. CASE k \in Len(xb) + 1 .. Len(all)
    BY <1>6, <2>2
  <2>3. k \in 2 .. Len(xb) \/ k \in Len(xb) + 1 .. Len(all)
    BY <1>3, <1>5, <1>8
  <2>4. QED
    BY <2>1, <2>2, <2>3
<1>9. QED
  BY <1>1, <1>2, <1>7, <1>8

LEMMA PersistStep ==
    ASSUME StorageInv, NEW ranking \in Seq(Names),
           NEW n \in 0 .. Len(ranking), Storage!PersistUniverse(ranking, n)
    PROVE  StorageInv'
<1> DEFINE selected == SubSeq(ranking, 1, n)
           first == Storage!DeleteAll("active_universe")
           refilled == Storage!Rank(selected)
           history == Storage!AppendHistory(ranking)
           stmts == <<first>> \o refilled \o history
<1>1. selected \in Seq(Names)
  OBVIOUS
<1>2. /\ first \in Statements /\ first.cutoff = None
      /\ IsPoolDelete(first) /\ ~IsPoolInsert(first)
  BY TablesKnown DEF Storage!DeleteAll, Statements, Deletes, IsPoolDelete, IsPoolInsert
<1>3. \A name \in Names, table \in Storage!UniverseTables :
         /\ Storage!UniverseRow(table, name) \in StorageRows
         /\ Storage!Insert(table, Storage!UniverseRow(table, name)) \in Statements
         /\ Storage!Insert(table, Storage!UniverseRow(table, name)).row.at = now
         /\ ~IsPoolDelete(Storage!Insert(table, Storage!UniverseRow(table, name)))
  BY DEF Storage!UniverseRow, StorageRows, Storage!Tables, Storage!Insert, Statements, Inserts, StorageInv, StorageTypeOK,
         IsPoolDelete
<1>4. /\ refilled \in Seq(Statements)
      /\ \A k \in 1 .. Len(refilled) :
            ~IsPoolDelete(refilled[k]) /\ refilled[k].row.at = now
  BY <1>1, <1>3 DEF Storage!Rank, Storage!UniverseTables
<1>5. /\ history \in Seq(Statements)
      /\ \A k \in 1 .. Len(history) :
            ~IsPoolDelete(history[k]) /\ history[k].row.at = now
  BY <1>3 DEF Storage!AppendHistory, Storage!UniverseTables
<1> HIDE DEF refilled, history, first
<1>6. /\ stmts \in Seq(Statements)
      /\ stmts[1] = first
      /\ \A k \in 1 .. Len(stmts) : k # 1 =>
            \/ \E i \in 1 .. Len(refilled) : stmts[k] = refilled[i]
            \/ \E i \in 1 .. Len(history) : stmts[k] = history[i]
  BY <1>2, <1>4, <1>5, Concatenated
<1>7. \A k \in 1 .. Len(stmts) : k # 1 =>
         ~IsPoolDelete(stmts[k]) /\ stmts[k].row.at = now
  BY <1>4, <1>5, <1>6
<1>8. Storage!Start(stmts)
  BY DEF Storage!PersistUniverse, Storage!ReplaceActive, first, refilled, history
<1> HIDE DEF stmts
<1>9. QED
  BY <1>2, <1>6, <1>7, <1>8, StartStep

-----------------------------------------------------------------------------
(* What a statement of a script does to the rows. *)
LEMMA EffectKeeps ==
    ASSUME StorageInv, NEW stmt \in Statements
    PROVE  /\ DOMAIN Storage!Effect(stmt) = Storage!Tables
           /\ \A r \in Storage!StillSaved(stmt) : r \in Storage!Effect(stmt)[r.table]
           /\ Storage!StillSaved(stmt) \subseteq saved
<1>1. stmt.table \in Storage!Tables /\ DOMAIN view = Storage!Tables
  BY DEF StorageInv, StorageTypeOK, Statements, Inserts, Deletes
<1>2. Storage!StillSaved(stmt) \subseteq saved
  BY DEF Storage!StillSaved
<1>3. \A r \in saved : r.table \in Storage!Tables /\ r \in view[r.table]
  BY DEF StorageInv, SavedIsSeen
<1>4. CASE stmt.op = "delete"
  BY <1>1, <1>2, <1>3, <1>4 DEF Storage!Effect, Storage!StillSaved
<1>5. CASE stmt.op # "delete"
  BY <1>1, <1>2, <1>3, <1>5 DEF Storage!Effect, Storage!StillSaved
<1>6. QED
  BY <1>4, <1>5

LEMMA AcknowledgedSeen ==
    ASSUME StorageInv, NEW stmt \in Statements
    PROVE  \A r \in Storage!Acknowledged(stmt) :
              r.table \in Storage!Tables /\ r \in Storage!Effect(stmt)[r.table]
<1>1. \A r \in Storage!StillSaved(stmt) : r.table \in Storage!Tables /\ r \in Storage!Effect(stmt)[r.table]
  BY EffectKeeps DEF StorageInv, SavedIsSeen
<1>2. CASE stmt.op = "insert" /\ ~Storage!Ignored(stmt)
  <2>1. /\ stmt.row.table = stmt.table /\ stmt.table \in Storage!Tables
        /\ DOMAIN view = Storage!Tables
    BY <1>2 DEF Statements, Inserts, Deletes, StorageInv, StorageTypeOK
  <2>2. Storage!Effect(stmt) = [view EXCEPT ![stmt.table] = @ \cup {stmt.row}]
    BY <1>2 DEF Storage!Effect
  <2>3. Storage!Acknowledged(stmt) = saved \cup {stmt.row}
        /\ Storage!StillSaved(stmt) = saved
    BY <1>2 DEF Storage!Acknowledged, Storage!StillSaved
  <2>4. QED
    BY <1>1, <2>1, <2>2, <2>3
<1>3. CASE ~(stmt.op = "insert" /\ ~Storage!Ignored(stmt))
  BY <1>1, <1>3 DEF Storage!Acknowledged
<1>4. QED
  BY <1>2, <1>3

(* The pool after a statement: emptied, filled at this time, or as before.  *)
LEMMA EffectOnPool ==
    ASSUME StorageInv, NEW stmt \in Statements
    PROVE  /\ IsPoolDelete(stmt) /\ stmt.cutoff = None =>
                 Storage!Effect(stmt).active_universe = {}
           /\ IsPoolInsert(stmt) =>
                 Storage!Effect(stmt).active_universe
                     = view.active_universe \cup {stmt.row}
           /\ stmt.table # "active_universe" =>
                 Storage!Effect(stmt).active_universe = view.active_universe
<1>1. DOMAIN view = Storage!Tables /\ stmt.table \in Storage!Tables
  BY DEF StorageInv, StorageTypeOK, Statements, Inserts, Deletes
<1>2. IsPoolDelete(stmt) /\ stmt.cutoff = None =>
         Storage!Effect(stmt).active_universe = {}
  BY <1>1, TablesKnown DEF IsPoolDelete, Storage!Effect, Storage!Doomed
<1>3. IsPoolInsert(stmt) =>
         Storage!Effect(stmt).active_universe = view.active_universe \cup {stmt.row}
  BY <1>1, TablesKnown DEF IsPoolInsert, Storage!Effect, Storage!Ignored
<1>4. stmt.table # "active_universe" =>
         Storage!Effect(stmt).active_universe = view.active_universe
  BY <1>1 DEF Storage!Effect
<1>5. QED
  BY <1>2, <1>3, <1>4

(* After the first statement of a script, committed or not, the connection  *)
(* sees a pool of one refresh; of this one, when the script goes on to fill *)
(* it.                                                                      *)
LEMMA PoolAfter ==
    ASSUME StorageInv, script # << >>
    PROVE  LET refilled == Storage!Effect(Head(script)).active_universe
           IN  /\ OfOneRefresh(refilled)
               /\ (\E i \in 2 .. Len(script) : IsPoolInsert(script[i])) =>
                     \A r \in refilled : r.at = now
<1> DEFINE stmt == Head(script)
           refilled == Storage!Effect(stmt).active_universe
<1>1. /\ stmt \in Statements /\ stmt = script[1]
      /\ 1 \in 1 .. Len(script)
  BY DEF StorageInv, StorageTypeOK
<1>2. /\ OfOneRefresh(view.active_universe)
      /\ IsPoolInsert(stmt) => stmt.row.at = now
      /\ IsPoolDelete(stmt) => stmt.cutoff = None
      /\ (\E i \in 1 .. Len(script) : IsPoolInsert(script[i]))
            /\ ~IsPoolDelete(stmt) => \A r \in view.active_universe : r.at = now
  BY <1>1 DEF StorageInv, PoolOK
<1>3. stmt.op \in {"insert", "delete"}
  BY <1>1 DEF Statements, Inserts, Deletes
<1>4. (\E i \in 2 .. Len(script) : IsPoolInsert(script[i])) =>
         \E i \in 1 .. Len(script) : IsPoolInsert(script[i])
  OBVIOUS
<1>5. CASE IsPoolDelete(stmt)
  <2>1. refilled = {}
    BY <1>1, <1>2, <1>5, EffectOnPool
  <2>2. QED
    BY <2>1 DEF OfOneRefresh
<1>6. CASE IsPoolInsert(stmt)
  <2>1. refilled = view.active_universe \cup {stmt.row}
    BY <1>1, <1>6, EffectOnPool
  <2>2. \A r \in refilled : r.at = now
    BY <1>1, <1>2, <1>6, <2>1 DEF IsPoolInsert, IsPoolDelete
  <2>3. QED
    BY <2>2 DEF OfOneRefresh
<1>7. CASE ~IsPoolDelete(stmt) /\ ~IsPoolInsert(stmt)
  <2>1. refilled = view.active_universe
    BY <1>1, <1>3, <1>7, EffectOnPool DEF IsPoolInsert, IsPoolDelete
  <2>2. QED
    BY <1>2, <1>4, <1>7, <2>1
<1>8. QED
  BY <1>5, <1>6, <1>7

LEMMA ExecuteStep ==
    ASSUME StorageInv, Storage!Execute
    PROVE  StorageInv'
<1> DEFINE stmt == Head(script)
<1>1. /\ script # << >> /\ view' = Storage!Effect(stmt) /\ db' = view'
      /\ saved' = Storage!Acknowledged(stmt) /\ script' = Tail(script)
      /\ UNCHANGED <<now, calls>>
  BY DEF Storage!Execute
<1>2. /\ stmt \in Statements /\ script \in Seq(Statements)
      /\ script' \in Seq(Statements)
      /\ Len(script') = Len(script) - 1 /\ Len(script) \in Nat
      /\ \A i \in 1 .. Len(script') :
            i + 1 \in 2 .. Len(script) /\ script'[i] = script[i + 1]
  BY <1>1 DEF StorageInv, StorageTypeOK
<1>3. StorageTypeOK'
  BY <1>1, <1>2, EffectKeeps DEF StorageInv, StorageTypeOK, Statements, Inserts, Deletes,
     StorageRows
<1>4. SavedIsSeen'
  BY <1>1, <1>2, AcknowledgedSeen DEF SavedIsSeen
<1>5. /\ OfOneRefresh(db'.active_universe) /\ OfOneRefresh(view'.active_universe)
      /\ (\E i \in 2 .. Len(script) : IsPoolInsert(script[i])) =>
            \A r \in db'.active_universe \cup view'.active_universe : r.at = now
  BY <1>1, PoolAfter
<1>6. \A i \in 1 .. Len(script') :
         /\ IsPoolInsert(script'[i]) => script'[i].row.at = now
         /\ ~IsPoolDelete(script'[i])
  BY <1>2 DEF StorageInv, PoolOK
<1>7. (\E i \in 1 .. Len(script') : IsPoolInsert(script'[i])) =>
         \A r \in db'.active_universe \cup view'.active_universe : r.at = now
  BY <1>2, <1>5
<1>8. PoolOK'
  BY <1>1, <1>5, <1>6, <1>7 DEF PoolOK, OfOneRefresh, IsPoolInsert, IsPoolDelete
<1>9. QED
  BY <1>3, <1>4, <1>8 DEF StorageInv

LEMMA FailStep ==
    ASSUME StorageInv, Storage!ExecuteFails
    PROVE  StorageInv'
<1> DEFINE stmt == Head(script)
<1>1. /\ script # << >> /\ script' = << >> /\ UNCHANGED <<now, calls, db>>
      /\ \/ UNCHANGED <<view, saved>>
         \/ view' = Storage!Effect(stmt) /\ saved' = Storage!StillSaved(stmt)
  BY DEF Storage!ExecuteFails
<1>2. stmt \in Statements
  BY <1>1 DEF StorageInv, StorageTypeOK
<1>3. /\ DOMAIN view' = Storage!Tables /\ saved' \subseteq saved
      /\ \A r \in saved' : r \in view'[r.table]
  BY <1>1, <1>2, EffectKeeps DEF StorageInv, StorageTypeOK, SavedIsSeen
<1>4. OfOneRefresh(view'.active_universe)
  BY <1>1, PoolAfter DEF StorageInv, PoolOK
<1>5. StorageTypeOK'
  BY <1>1, <1>3 DEF StorageInv, StorageTypeOK, Statements, Inserts, Deletes, StorageRows
<1>6. SavedIsSeen'
  BY <1>1, <1>3 DEF StorageInv, SavedIsSeen
<1>7. PoolOK'
  BY <1>1, <1>4 DEF StorageInv, PoolOK, OfOneRefresh
<1>8. QED
  BY <1>5, <1>6, <1>7 DEF StorageInv

LEMMA NextStorageInv ==
    ASSUME StorageInv, [Storage!Next]_(Storage!vars)
    PROVE  StorageInv'
<1>1. CASE Storage!Execute
  BY <1>1, ExecuteStep
<1>2. CASE Storage!ExecuteFails
  BY <1>2, FailStep
<1>3. CASE Storage!SaveMarketSnapshot \/ Storage!SaveFundingSnapshot \/ Storage!SaveQualityReport
              \/ Storage!SaveMetrics \/ Storage!SaveSignalDecision
  BY <1>3, SnapshotStep DEF Storage!SnapshotTables, Storage!SaveMarketSnapshot,
     Storage!SaveFundingSnapshot, Storage!SaveQualityReport, Storage!SaveMetrics, Storage!SaveSignalDecision
<1>4. CASE \E id \in AlertIds, status \in Statuses : Storage!SaveAlert(id, status)
  BY <1>4, AlertStep
<1>5. CASE Storage!CleanupOldRecords
  BY <1>5, StorageParams, CleanupStep
<1>6. CASE \E ranking \in Rankings : \E n \in 0 .. Len(ranking) :
              Storage!PersistUniverse(ranking, n)
  BY <1>6, StorageParams, PersistStep DEF Names
<1>7. CASE Storage!Tick
  <2>1. script = << >> /\ now' = now + 1
        /\ UNCHANGED <<db, view, script, calls, saved>>
    BY <1>7 DEF Storage!Tick
  <2>2. StorageTypeOK'
    BY <2>1 DEF StorageInv, StorageTypeOK, Statements, Inserts, Deletes, StorageRows
  <2>3. SavedIsSeen' /\ PoolOK'
    BY <2>1 DEF StorageInv, SavedIsSeen, PoolOK, OfOneRefresh
  <2>4. QED
    BY <2>2, <2>3 DEF StorageInv
<1>8. CASE Storage!Crash
  <2>1. view' = db /\ script' = << >> /\ UNCHANGED <<now, db, calls, saved>>
    BY <1>8 DEF Storage!Crash
  <2>2. StorageTypeOK'
    BY <2>1 DEF StorageInv, StorageTypeOK, Statements, Inserts, Deletes, StorageRows
  <2>3. SavedIsSeen' /\ PoolOK'
    BY <2>1 DEF StorageInv, SavedIsSeen, PoolOK, OfOneRefresh
  <2>4. QED
    BY <2>2, <2>3 DEF StorageInv
<1>9. CASE UNCHANGED Storage!vars
  <2>1. StorageTypeOK'
    BY <1>9 DEF Storage!vars, StorageInv, StorageTypeOK, Statements, Inserts, Deletes, StorageRows
  <2>2. SavedIsSeen' /\ PoolOK'
    BY <1>9 DEF Storage!vars, StorageInv, SavedIsSeen, PoolOK, OfOneRefresh, IsPoolInsert,
       IsPoolDelete
  <2>3. QED
    BY <2>1, <2>2 DEF StorageInv
<1>10. QED
  BY <1>1, <1>2, <1>3, <1>4, <1>5, <1>6, <1>7, <1>8, <1>9 DEF Storage!Next

-----------------------------------------------------------------------------
(* The sent alerts of a table, or of a statement yet to be executed, are no *)
(* later than now.                                                          *)
Past(row) == row.status = "sent" => row.sent \in Int /\ row.sent <= now

IsAlertInsert(stmt) == stmt.op = "insert" /\ stmt.table = "alerts"

SentIsPast ==
    /\ \A r \in db.alerts \cup view.alerts : Past(r)
    /\ \A i \in 1 .. Len(script) : IsAlertInsert(script[i]) => Past(script[i].row)

LEMMA InitSentIsPast == Storage!Init => SentIsPast
  BY TablesKnown DEF Storage!Init, Storage!Empty, SentIsPast

LEMMA StartPast ==
    ASSUME SentIsPast, NEW stmts, Storage!Start(stmts),
           \A i \in 1 .. Len(stmts) : IsAlertInsert(stmts[i]) => Past(stmts[i].row)
    PROVE  SentIsPast'
  BY DEF SentIsPast, Storage!Start, Past, IsAlertInsert

(* Nothing but an alert that is inserted comes to the alerts. *)
LEMMA EffectOnAlerts ==
    ASSUME StorageInv, SentIsPast, script # << >>
    PROVE  \A r \in Storage!Effect(Head(script)).alerts : Past(r)
<1> DEFINE stmt == Head(script)
<1>1. stmt \in Statements /\ stmt = script[1] /\ 1 \in 1 .. Len(script)
  BY DEF StorageInv, StorageTypeOK
<1>2. DOMAIN view = Storage!Tables /\ stmt.table \in Storage!Tables
  BY <1>1 DEF StorageInv, StorageTypeOK, Statements, Inserts, Deletes
<1>3. \A r \in view.alerts : Past(r)
  BY DEF SentIsPast
<1>4. CASE stmt.op = "delete"
  BY <1>2, <1>3, <1>4, TablesKnown DEF Storage!Effect
<1>5. CASE stmt.op # "delete"
  <2>1. stmt.op = "insert"
    BY <1>1, <1>5 DEF Statements, Inserts, Deletes
  <2>2. stmt.table = "alerts" => Past(stmt.row)
    BY <1>1, <2>1 DEF SentIsPast, IsAlertInsert
  <2>3. Storage!Effect(stmt) = view
           \/ Storage!Effect(stmt) = [view EXCEPT ![stmt.table] = @ \cup {stmt.row}]
    BY <1>5 DEF Storage!Effect
  <2>4. QED
    BY <1>2, <1>3, <2>2, <2>3, TablesKnown
<1>6. QED
  BY <1>4, <1>5

LEMMA PersistPast ==
    ASSUME SentIsPast, NEW ranking \in Seq(Names),
           NEW n \in 0 .. Len(ranking), Storage!PersistUniverse(ranking, n)
    PROVE  SentIsPast'
<1> DEFINE selected == SubSeq(ranking, 1, n)
           first == Storage!DeleteAll("active_universe")
           refilled == Storage!Rank(selected)
           history == Storage!AppendHistory(ranking)
           stmts == <<first>> \o refilled \o history
           row == [id: Names, table: Storage!UniverseTables, at: {now}]
           Others == [op: {"insert"}, table: Storage!UniverseTables, row: row]
                        \cup {first}
<1>1. selected \in Seq(Names)
  OBVIOUS
<1>2. first \in Others /\ ~IsAlertInsert(first)
  BY DEF Storage!DeleteAll, IsAlertInsert
<1>3. \A stmt \in Others : ~IsAlertInsert(stmt)
  BY <1>2 DEF IsAlertInsert, Storage!UniverseTables
<1>4. \A name \in Names, table \in Storage!UniverseTables :
         Storage!Insert(table, Storage!UniverseRow(table, name)) \in Others
  BY DEF Storage!UniverseRow, Storage!Insert
<1> HIDE DEF Others, first
<1>5. refilled \in Seq(Others)
  BY <1>1, <1>4 DEF Storage!Rank, Storage!UniverseTables
<1>6. history \in Seq(Others)
  BY <1>4 DEF Storage!AppendHistory, Storage!UniverseTables
<1> HIDE DEF refilled, history
<1>7. stmts \in Seq(Others)
  BY <1>2, <1>5, <1>6, Concatenated
<1>8. Storage!Start(stmts)
  BY DEF Storage!PersistUniverse, Storage!ReplaceActive, first, refilled, history
<1> HIDE DEF stmts
<1>9. \A i \in 1 .. Len(stmts) : stmts[i] \in Others
  BY <1>7, ElementOfSeq
<1>10. QED
  BY <1>3, <1>8, <1>9, StartPast

LEMMA NextSentIsPast ==
    ASSUME StorageInv, SentIsPast, [Storage!Next]_(Storage!vars)
    PROVE  SentIsPast'
<1>1. CASE Storage!Execute
  <2>1. /\ script # << >> /\ now' = now /\ script' = Tail(script)
        /\ view' = Storage!Effect(Head(script)) /\ db' = view'
    BY <1>1 DEF Storage!Execute
  <2>2. \A i \in 1 .. Len(script') : i + 1 \in 1 .. Len(script) /\ script'[i] = script[i + 1]
    BY <2>1 DEF StorageInv, StorageTypeOK
  <2>3. \A r \in view'.alerts : Past(r)
    BY <2>1, EffectOnAlerts
  <2>4. \A i \in 1 .. Len(script') : IsAlertInsert(script'[i]) => Past(script'[i].row)
    BY <2>2 DEF SentIsPast
  <2>5. QED
    BY <2>1, <2>3, <2>4 DEF SentIsPast, Past, IsAlertInsert
<1>2. CASE Storage!ExecuteFails
  <2>1. /\ script # << >> /\ now' = now /\ script' = << >> /\ db' = db
        /\ view' = view \/ view' = Storage!Effect(Head(script))
    BY <1>2 DEF Storage!ExecuteFails
  <2>2. \A r \in view'.alerts : Past(r)
    BY <2>1, EffectOnAlerts DEF SentIsPast
  <2>3. QED
    BY <2>1, <2>2 DEF SentIsPast, Past
<1>3. ASSUME NEW table \in Storage!SnapshotTables, Storage!Save(table)
      PROVE  SentIsPast'
  <2> DEFINE stmt == Storage!Insert(table, [id |-> calls, table |-> table, at |-> now])
  <2>1. ~IsAlertInsert(stmt)
    BY DEF Storage!Insert, IsAlertInsert, Storage!SnapshotTables
  <2> HIDE DEF stmt
  <2>2. \A i \in 1 .. Len(<<stmt>>) : <<stmt>>[i] = stmt
    OBVIOUS
  <2>3. Storage!Start(<<stmt>>)
    BY <1>3 DEF Storage!Save, stmt
  <2>4. QED
    BY <2>1, <2>2, <2>3, StartPast
<1>4. ASSUME NEW id \in AlertIds, NEW status \in Statuses, Storage!SaveAlert(id, status)
      PROVE  SentIsPast'
  <2> DEFINE row == [id |-> id, table |-> "alerts", at |-> now, status |-> status,
                     sent |-> IF status = "sent" THEN now ELSE None]
             stmt == Storage!Insert("alerts", row)
  <2>1. now \in Int
    BY DEF StorageInv, StorageTypeOK
  <2>2. stmt.row = row /\ Past(row)
    BY <2>1 DEF Past, Storage!Insert
  <2>3. Storage!Start(<<stmt>>)
    BY <1>4 DEF Storage!SaveAlert
  <2> HIDE DEF row, stmt
  <2>4. \A i \in 1 .. Len(<<stmt>>) : <<stmt>>[i] = stmt
    OBVIOUS
  <2>5. QED
    BY <2>2, <2>3, <2>4, StartPast
<1>5. CASE Storage!CleanupOldRecords
  <2> DEFINE delete(table) == Storage!DeleteOld(table, now - Retention)
             stmts == <<delete("market_snapshots"), delete("funding_snapshots"),
                        delete("quality_reports"), delete("metrics"),
                        delete("signal_decisions"), delete("alerts")>>
  <2>1. \A table : ~IsAlertInsert(delete(table))
    BY DEF Storage!DeleteOld, IsAlertInsert
  <2> HIDE DEF delete
  <2>2. \A i \in 1 .. Len(stmts) : ~IsAlertInsert(stmts[i])
    BY <2>1
  <2>3. Storage!Start(stmts)
    BY <1>5 DEF Storage!CleanupOldRecords, delete
  <2> HIDE DEF stmts
  <2>4. QED
    BY <2>2, <2>3, StartPast
<1>6. CASE \E ranking \in Rankings : \E n \in 0 .. Len(ranking) :
              Storage!PersistUniverse(ranking, n)
  BY <1>6, StorageParams, PersistPast DEF Names
<1>7. CASE Storage!Tick
  <2>1. script = << >> /\ now' = now + 1 /\ now \in Int
        /\ UNCHANGED <<db, view, script>>
    BY <1>7 DEF Storage!Tick, StorageInv, StorageTypeOK
  <2>2. \A r : Past(r) => Past(r)'
    BY <2>1 DEF Past
  <2>3. QED
    BY <2>1, <2>2 DEF SentIsPast
<1>8. CASE Storage!Crash
  BY <1>8 DEF Storage!Crash, SentIsPast, Past
<1>9. CASE UNCHANGED Storage!vars
  BY <1>9 DEF Storage!vars, SentIsPast, Past, IsAlertInsert
<1>10. QED
  BY <1>1, <1>2, <1>3, <1>4, <1>5, <1>6, <1>7, <1>8, <1>9
     DEF Storage!Next, Storage!SnapshotTables, Storage!SaveMarketSnapshot,
         Storage!SaveFundingSnapshot, Storage!SaveQualityReport,
         Storage!SaveMetrics, Storage!SaveSignalDecision

(* The largest of the sent times there are is at least that of a saved      *)
(* alert, so its age is less than the window too.                           *)
LEMMA RecentFound == StorageInv /\ SentIsPast => Storage!RecentAlertFound
<1> SUFFICES ASSUME StorageInv, SentIsPast,
                    NEW r \in saved, NEW window \in 1 .. Retention,
                    r.table = "alerts", r.status = "sent", now - r.sent < window
             PROVE  Storage!WasRecentAlert(window)
  BY DEF Storage!RecentAlertFound
<1> DEFINE sents == Storage!LastSent
<1>1. r \in view.alerts
  BY DEF StorageInv, SavedIsSeen
<1>2. /\ now \in Int /\ Retention \in Nat
      /\ \A a \in view.alerts : a.status = "sent" => a.sent \in Int /\ a.sent <= now
  BY StorageParams DEF StorageInv, StorageTypeOK, SentIsPast, Past
<1>3. sents \in SUBSET Int /\ (\A x \in sents : x <= now) /\ r.sent \in sents
  BY <1>1, <1>2 DEF Storage!LastSent
<1> HIDE DEF sents
<1>4. PICK sent \in sents : \A other \in sents : other <= sent
  BY <1>2, <1>3, Greatest
<1>5. r.sent <= sent /\ r.sent \in Int /\ sent \in Int
  BY <1>3, <1>4
<1>6. now - sent < window /\ window > 0
  BY <1>2, <1>5
<1>7. QED
  BY <1>4, <1>6 DEF Storage!WasRecentAlert, sents

-----------------------------------------------------------------------------
(* The yield of a position. *)

LEMMA ProductNat == ASSUME NEW x \in Nat, NEW y \in Nat PROVE x * y \in Nat
  OBVIOUS

LEMMA ProductPositive ==
    ASSUME NEW x \in Nat \ {0}, NEW y \in Nat \ {0} PROVE x * y \in Nat \ {0}
  OBVIOUS

LEMMA ProductMonotone ==
    ASSUME NEW x \in Int, NEW y \in Int, NEW k \in Nat, x <= y
    PROVE  k * x <= k * y
  OBVIOUS

LEMMA ProductStrict ==
    ASSUME NEW x \in Int, NEW y \in Int, NEW k \in Nat \ {0}, x < y
    PROVE  k * x < k * y
  OBVIOUS

(* The yield of a year, from a rate of r per i hours, a convergence of      *)
(* cn/cd, one-time costs o and costs of b a year, when the position is held *)
(* for h hours and the one-time costs are spread over a: it is at most that *)
(* of the horizon, annualized, both times their denominators.               *)
LEMMA AnnualBelowHorizon ==
    ASSUME NEW o \in Nat, NEW b \in Nat, NEW H \in Nat \ {0},
           NEW a \in Nat \ {0}, NEW h \in Nat \ {0}, a <= h,
           NEW r \in Int, NEW i \in Nat \ {0}, NEW cn \in Int, NEW cd \in Nat \ {0}
    PROVE  ((r * H * (cd * h) + (cn * H) * i) * a - (o * H + b * a) * (i * (cd * h)))
               * (((i * cd) * H) * h)
             <= (((r * h * cd + cn * i) * H - (o * H + b * h) * (i * cd)) * H)
                    * ((i * (cd * h)) * a)
<1> DEFINE Q == ((i * cd) * h) * H
           year == (r * H * (cd * h) + (cn * H) * i) * a
                       - (o * H + b * a) * (i * (cd * h))
           horizon == ((r * h * cd + cn * i) * H - (o * H + b * h) * (i * cd)) * a
           gap == ((o * H) * (i * cd)) * (h - a)
<1>1. horizon - year = gap
  OBVIOUS
<1>2. gap \in Nat
  <2>1. (o * H) * (i * cd) \in Nat
    BY ProductNat
  <2>2. h - a \in Nat
    OBVIOUS
  <2>3. QED
    BY <2>1, <2>2, ProductNat
<1>3. year \in Int /\ horizon \in Int
  OBVIOUS
<1>4. Q \in Nat
  <2>1. (i * cd) * h \in Nat
    BY ProductNat
  <2>2. QED
    BY <2>1, ProductNat
<1>5. Q * year <= Q * horizon
  <2> HIDE DEF year, horizon, Q, gap
  <2>1. year <= horizon
    BY <1>1, <1>2, <1>3
  <2>2. QED
    BY <1>3, <1>4, <2>1, ProductMonotone
<1>6. Q * year =
        ((r * H * (cd * h) + (cn * H) * i) * a - (o * H + b * a) * (i * (cd * h)))
            * (((i * cd) * H) * h)
  OBVIOUS
<1>7. Q * horizon =
        (((r * h * cd + cn * i) * H - (o * H + b * h) * (i * cd)) * H)
            * ((i * (cd * h)) * a)
  OBVIOUS
<1> HIDE DEF year, horizon, Q
<1>8. QED
  BY <1>5, <1>6, <1>7

(* Larger costs of the same denominator leave less. *)
LEMMA DearerLeavesLess ==
    ASSUME NEW n \in Int, NEW d \in Nat \ {0}, NEW k \in Int, NEW l \in Int,
           NEW e \in Nat \ {0}, k < l
    PROVE  ~Yield!AtMost(Yield!Minus(<<n, d>>, <<k, e>>), Yield!Minus(<<n, d>>, <<l, e>>))
<1> DEFINE less == n * e - l * d
           more == n * e - k * d
           denominator == d * e
<1>1. less \in Int /\ more \in Int
  OBVIOUS
<1>2. denominator \in Nat \ {0}
  BY ProductPositive
<1>3. d * k < d * l
  BY ProductStrict
<1>4. less < more
  <2>1. d * k = k * d /\ d * l = l * d /\ n * e \in Int /\ k * d \in Int /\ l * d \in Int
    OBVIOUS
  <2> DEFINE ne == n * e  kd == k * d  ld == l * d
  <2>2. kd < ld /\ ne \in Int /\ kd \in Int /\ ld \in Int
    BY <1>3, <2>1
  <2> HIDE DEF ne, kd, ld
  <2>3. ne - ld < ne - kd
    BY <2>2
  <2>4. QED
    BY <2>3 DEF ne, kd, ld
<1>5. /\ Yield!Minus(<<n, d>>, <<k, e>>) = <<more, denominator>>
      /\ Yield!Minus(<<n, d>>, <<l, e>>) = <<less, denominator>>
  BY DEF Yield!Minus
<1> HIDE DEF less, more, denominator
<1>6. denominator * less < denominator * more
  BY <1>1, <1>2, <1>4, ProductStrict
<1>7. ~(more * denominator <= less * denominator)
  BY <1>1, <1>2, <1>6
<1>8. QED
  BY <1>5, <1>7 DEF Yield!AtMost

CostFields == Yield!OneTimeFields \cup Yield!AnnualFields

(* What the settings make of the hours. *)
LEMMA HoursAre ==
    ASSUME NEW p \in Position, Yield!ValidSettings(p)
    PROVE  /\ Yield!Horizon(p) = p.holding /\ p.holding \in Nat \ {0}
           /\ Yield!Amortization(p) \in p.min_amortization .. p.holding
           /\ p.min_amortization \in Nat \ {0}
<1>1. /\ p.holding \in Int /\ p.amortization \in Int /\ p.min_amortization \in Int
      /\ p.min_amortization > 0 /\ p.holding >= p.min_amortization
      /\ p.amortization >= p.min_amortization
  BY DEF Position, Yield!ValidSettings
<1>2. Yield!Horizon(p) = p.holding
  BY <1>1 DEF Yield!Horizon, Yield!EffectiveHolding
<1>3. Yield!Amortization(p) =
         IF p.amortization > p.holding THEN p.holding ELSE p.amortization
  BY <1>1, <1>2 DEF Yield!Amortization, Yield!EffectiveAmortization, Yield!Horizon
<1>4. QED
  BY <1>1, <1>2, <1>3

LEMMA CostsAre ==
    ASSUME NEW c \in [CostFields -> Nat]
    PROVE  /\ Yield!OneTimeCosts(c) \in Nat
           /\ Yield!OneTimeCosts(c) =
                 2 * c.spot_fee + 2 * c.perp_fee
                     + (c.slippage_entry + c.slippage_exit) + c.spread_buffer
           /\ c.borrow \in Nat /\ c.opportunity \in Nat
           /\ \A f \in CostFields : c[f] \in Nat
<1>1. /\ c.spot_fee \in Nat /\ c.perp_fee \in Nat /\ c.slippage_entry \in Nat
      /\ c.slippage_exit \in Nat /\ c.spread_buffer \in Nat
      /\ c.borrow \in Nat /\ c.opportunity \in Nat
  BY DEF CostFields, Yield!OneTimeFields, Yield!AnnualFields
<1>2. QED
  BY <1>1 DEF Yield!OneTimeCosts, Yield!RoundTripFees, Yield!SlippageRoundTrip

(* The costs of the horizon and of the year. *)
LEMMA CostMetricsAre ==
    ASSUME NEW c \in [CostFields -> Nat], NEW h \in Nat \ {0}, NEW a \in Nat \ {0}
    PROVE  LET m == Yield!CostMetrics(c, h, a)
               o == Yield!OneTimeCosts(c)
               b == c.borrow + c.opportunity
           IN  /\ m.horizon = <<o * HoursPerYear + b * h, HoursPerYear>>
               /\ m.annualized = <<o * HoursPerYear + b * a, a>>
               /\ m.amortization = a
<1>1. Yield!ValidCosts(c, h, a)
  BY CostsAre DEF Yield!ValidCosts, CostFields
<1> DEFINE o == 2 * c.spot_fee + 2 * c.perp_fee
                    + (c.slippage_entry + c.slippage_exit) + c.spread_buffer
<1>2. /\ o = Yield!OneTimeCosts(c) /\ o \in Nat
      /\ c.borrow \in Nat /\ c.opportunity \in Nat /\ HoursPerYear \in Nat
  BY CostsAre, YieldParams
<1>3. Yield!CostMetrics(c, h, a) =
         [horizon |-> <<o * HoursPerYear + c.borrow * h + c.opportunity * h, HoursPerYear>>,
          annualized |-> <<o * HoursPerYear + (c.borrow + c.opportunity) * a, a>>,
          amortization |-> a]
  BY <1>1 DEF Yield!CostMetrics
<1> HIDE DEF o
<1>4. o * HoursPerYear + c.borrow * h + c.opportunity * h
         = o * HoursPerYear + (c.borrow + c.opportunity) * h
  BY <1>2
<1>5. QED
  BY <1>2, <1>3, <1>4

(* Funding is r per i hours: counted over the horizon and over the year.    *)
LEMMA FundingIs ==
    ASSUME NEW p \in Position, NEW h \in Nat \ {0}
    PROVE  \E r \in Int, i \in Nat \ {0} :
              Yield!FundingYield(p.rate, p.interval, h)
                  = [annual |-> <<r * HoursPerYear, i>>, horizon |-> <<r * h, i>>,
                     holding |-> h]
<1>1. p.rate \in Int /\ p.interval \in Int /\ HoursPerYear \in Nat /\ ~(h < 0) /\ ~(h <= 0)
  BY YieldParams DEF Position
<1>2. CASE p.interval <= 0
  <2>1. Yield!FundingYield(p.rate, p.interval, h)
           = [annual |-> <<0, 1>>, horizon |-> <<0, 1>>, holding |-> h]
    BY <1>1, <1>2
       DEF Yield!FundingYield, Yield!FundingAnnual, Yield!FundingHorizon, Yield!Whole
  <2>2. 0 * HoursPerYear = 0 /\ 0 * h = 0 /\ 0 \in Int /\ 1 \in Nat \ {0}
    BY <1>1
  <2>3. QED
    BY <2>1, <2>2
<1>3. CASE ~(p.interval <= 0)
  <2>1. Yield!FundingYield(p.rate, p.interval, h)
           = [annual |-> <<p.rate * HoursPerYear, p.interval>>,
              horizon |-> <<p.rate * h, p.interval>>, holding |-> h]
    BY <1>1, <1>3
       DEF Yield!FundingYield, Yield!FundingAnnual, Yield!FundingHorizon
  <2>2. p.interval \in Nat \ {0}
    BY <1>1, <1>3
  <2>3. QED
    BY <1>1, <2>1, <2>2
<1>4. QED
  BY <1>2, <1>3

Fraction == Int \X (Nat \ {0})

LEMMA ConvergenceIs ==
    ASSUME NEW p \in Position, Yield!ValidSettings(p)
    PROVE  Yield!BasisConvergence(p.include, p.haircut,
                                  Yield!BasisEntry(p.spot_ask, p.perp_bid),
                                  p.mode, None) \in Fraction
<1> DEFINE entry == Yield!BasisEntry(p.spot_ask, p.perp_bid)
           exit == Yield!ExpectedExitBasis(p.mode, entry, None)
<1>1. /\ p.haircut \in 0 .. FullHaircut /\ FullHaircut \in Nat \ {0}
      /\ p.spot_ask \in Int /\ p.perp_bid \in Int
      /\ p.mode \in {"entry", "zero", "historical_median"}
  BY YieldParams DEF Position, Yield!ValidSettings
<1>2. <<0, 1>> \in Fraction
  BY DEF Fraction
<1>3. entry \in Fraction
  BY <1>1, <1>2 DEF Yield!BasisEntry, Yield!Whole, Fraction
<1>4. exit \in Fraction
  BY <1>1, <1>2, <1>3 DEF Yield!ExpectedExitBasis, Yield!Whole
<1> HIDE DEF entry, exit
<1>5. Yield!Over(Yield!Times(Yield!Minus(entry, exit), p.haircut), FullHaircut) \in Fraction
  <2>1. PICK en \in Int, ed \in Nat \ {0} : entry = <<en, ed>>
    BY <1>3 DEF Fraction
  <2>2. PICK xn \in Int, xd \in Nat \ {0} : exit = <<xn, xd>>
    BY <1>4 DEF Fraction
  <2>3. ed * xd \in Nat \ {0}
    BY ProductPositive
  <2>4. (ed * xd) * FullHaircut \in Nat \ {0}
    BY <1>1, <2>3, ProductPositive
  <2>5. (en * xd - xn * ed) * p.haircut \in Int
    BY <1>1
  <2>6. Yield!Over(Yield!Times(Yield!Minus(entry, exit), p.haircut), FullHaircut)
           = <<(en * xd - xn * ed) * p.haircut, (ed * xd) * FullHaircut>>
    BY <2>1, <2>2 DEF Yield!Over, Yield!Times, Yield!Minus
  <2>7. QED
    BY <2>4, <2>5, <2>6 DEF Fraction
<1>6. QED
  BY <1>1, <1>2, <1>5 DEF Yield!BasisConvergence, Yield!Whole, entry, exit

(* The yields of a position p that costs c: the costs come off what the     *)
(* funding, r over i, and the convergence, cn over cd, bring.               *)
YieldsLess(p, c, r, i, cn, cd) ==
    LET m == Yield!Metrics([p EXCEPT !.costs = c])
        h == p.holding
        a == Yield!Amortization(p)
        o == Yield!OneTimeCosts(c)
        b == c.borrow + c.opportunity
    IN  /\ m.funding.holding = h
        /\ m.costs = Yield!CostMetrics(c, h, a)
        /\ m.net.horizon =
              Yield!Minus(<<r * h * cd + cn * i, i * cd>>,
                          <<o * HoursPerYear + b * h, HoursPerYear>>)
        /\ m.net.annual =
              Yield!Minus(<<r * HoursPerYear * (cd * h) + (cn * HoursPerYear) * i,
                            i * (cd * h)>>,
                          <<o * HoursPerYear + b * a, a>>)

(* What the funding and the convergence bring does not depend on the costs. *)
LEMMA MetricsAre ==
    ASSUME NEW p \in Position, Yield!ValidSettings(p)
    PROVE  \E r \in Int, i \in Nat \ {0}, cn \in Int, cd \in Nat \ {0} :
              \A c \in [CostFields -> Nat] : YieldsLess(p, c, r, i, cn, cd)
<1> DEFINE h == p.holding
           a == Yield!Amortization(p)
           convergence == Yield!BasisConvergence(p.include, p.haircut,
                              Yield!BasisEntry(p.spot_ask, p.perp_bid), p.mode, None)
<1>1. /\ Yield!Horizon(p) = h /\ h \in Nat \ {0} /\ a \in Nat \ {0}
  <2>1. /\ Yield!Horizon(p) = p.holding /\ p.holding \in Nat \ {0}
        /\ a \in p.min_amortization .. p.holding
        /\ p.min_amortization \in Nat \ {0}
    BY HoursAre
  <2> HIDE DEF a
  <2>2. QED
    BY <2>1
<1> HIDE DEF a
<1>2. PICK r \in Int, i \in Nat \ {0} :
         Yield!FundingYield(p.rate, p.interval, h)
             = [annual |-> <<r * HoursPerYear, i>>, horizon |-> <<r * h, i>>, holding |-> h]
  BY <1>1, FundingIs
<1>3. PICK cn \in Int, cd \in Nat \ {0} : convergence = <<cn, cd>>
  BY ConvergenceIs DEF Fraction
<1>4. ASSUME NEW c \in [CostFields -> Nat]
      PROVE  YieldsLess(p, c, r, i, cn, cd)
  <2> DEFINE q == [p EXCEPT !.costs = c]
             m == Yield!Metrics(q)
             gains == Yield!FundingYield(p.rate, p.interval, h)
             costs == Yield!CostMetrics(c, h, a)
  <2>1. /\ q.costs = c /\ q.rate = p.rate /\ q.interval = p.interval
        /\ q.include = p.include /\ q.haircut = p.haircut /\ q.mode = p.mode
        /\ q.spot_ask = p.spot_ask /\ q.perp_bid = p.perp_bid
        /\ q.holding = p.holding /\ q.amortization = p.amortization
        /\ q.min_amortization = p.min_amortization
    BY DEF Position
  <2>2. Yield!Horizon(q) = h /\ Yield!Amortization(q) = a
    BY <1>1, <2>1 DEF Yield!Horizon, Yield!Amortization, a
  <2> HIDE DEF q
  <2>3. m = [funding |-> gains, costs |-> costs,
             net |-> Yield!NetYield(gains, costs, convergence)]
    BY <2>1, <2>2 DEF Yield!Metrics
  <2>4. /\ gains.holding = h /\ gains.horizon = <<r * h, i>>
        /\ gains.annual = <<r * HoursPerYear, i>> /\ h > 0
    BY <1>1, <1>2
  <2>5. /\ costs.horizon = <<Yield!OneTimeCosts(c) * HoursPerYear + (c.borrow + c.opportunity) * h, HoursPerYear>>
        /\ costs.annualized = <<Yield!OneTimeCosts(c) * HoursPerYear + (c.borrow + c.opportunity) * a, a>>
    BY <1>1, CostMetricsAre
  <2> HIDE DEF gains, costs, convergence
  <2>6. m.net.horizon = Yield!Minus(Yield!Plus(<<r * h, i>>, <<cn, cd>>), costs.horizon)
    BY <1>3, <2>3, <2>4 DEF Yield!NetYield
  <2>7. m.net.annual =
           Yield!Minus(Yield!Plus(<<r * HoursPerYear, i>>,
                                  Yield!Over(Yield!Times(<<cn, cd>>, HoursPerYear), h)),
                       costs.annualized)
    BY <1>3, <2>3, <2>4 DEF Yield!NetYield
  <2>8. Yield!Plus(<<r * h, i>>, <<cn, cd>>) = <<r * h * cd + cn * i, i * cd>>
    BY DEF Yield!Plus
  <2>9. Yield!Plus(<<r * HoursPerYear, i>>,
                   Yield!Over(Yield!Times(<<cn, cd>>, HoursPerYear), h))
           = <<r * HoursPerYear * (cd * h) + (cn * HoursPerYear) * i, i * (cd * h)>>
    BY DEF Yield!Plus, Yield!Over, Yield!Times
  <2>10. m.funding.holding = h /\ m.costs = costs
    BY <2>3, <2>4
  <2> HIDE DEF m
  <2>11. QED
    BY <2>5, <2>6, <2>7, <2>8, <2>9, <2>10 DEF m, q, costs, a, YieldsLess
<1>5. QED
  BY <1>4
(* The position has settings that were accepted, and the metrics are its.   *)
YieldInv ==
    position = None \/
        /\ position \in Position /\ Yield!ValidSettings(position)
        /\ metrics = Yield!Metrics(position)

LEMMA InitYieldInv == Yield!Init => YieldInv
  BY DEF Yield!Init, YieldInv

LEMMA NextYieldInv == YieldInv /\ [Yield!Next]_(Yield!vars) => YieldInv'
<1> SUFFICES ASSUME YieldInv, [Yield!Next]_(Yield!vars) PROVE YieldInv'
  OBVIOUS
<1>1. CASE Yield!Next
  <2>1. PICK p \in Positions : Yield!ValidSettings(p) /\ position' = p
                                  /\ metrics' = Yield!Metrics(p)
    BY <1>1 DEF Yield!Next, Yield!Calculate
  <2>2. p \in Position
    BY YieldParams
  <2>3. QED
    BY <2>1, <2>2 DEF YieldInv
<1>2. CASE UNCHANGED Yield!vars
  BY <1>2 DEF YieldInv, Yield!vars
<1>3. QED
  BY <1>1, <1>2

(* The costs of accepted settings, and how to write a position with others. *)
LEMMA CostsOf ==
    ASSUME NEW p \in Position, Yield!ValidSettings(p)
    PROVE  /\ p.costs \in [CostFields -> Nat]
           /\ p = [p EXCEPT !.costs = p.costs]
<1>1. p.costs \in [CostFields -> Int]
  BY DEF Position, CostFields
<1>2. \A f \in CostFields : p.costs[f] >= 0
  BY DEF Yield!ValidSettings, CostFields
<1>3. p.costs \in [CostFields -> Nat]
  BY <1>1, <1>2
<1>4. p = [p EXCEPT !.costs = p.costs]
  BY DEF Position
<1>5. QED
  BY <1>3, <1>4

(* One more of any one cost is more over the horizon and over the year.     *)
LEMMA OneMoreIsMore ==
    ASSUME NEW c \in [CostFields -> Nat], NEW f \in CostFields,
           NEW n \in Nat \ {0}
    PROVE  LET d == [c EXCEPT ![f] = @ + 1]
           IN  /\ d \in [CostFields -> Nat]
               /\ Yield!OneTimeCosts(c) * HoursPerYear + (c.borrow + c.opportunity) * n
                     < Yield!OneTimeCosts(d) * HoursPerYear + (d.borrow + d.opportunity) * n
<1> DEFINE d == [c EXCEPT ![f] = @ + 1]
           o == Yield!OneTimeCosts(c)
           b == c.borrow + c.opportunity
           u == Yield!OneTimeCosts(d)
           v == d.borrow + d.opportunity
<1>1. d \in [CostFields -> Nat]
  BY CostsAre
<1>2. /\ o = 2 * c.spot_fee + 2 * c.perp_fee
               + (c.slippage_entry + c.slippage_exit) + c.spread_buffer
      /\ u = 2 * d.spot_fee + 2 * d.perp_fee
               + (d.slippage_entry + d.slippage_exit) + d.spread_buffer
      /\ o \in Nat /\ b \in Nat /\ u \in Nat /\ v \in Nat
  <2>1. \A e \in [CostFields -> Nat] :
           /\ Yield!OneTimeCosts(e) \in Nat /\ e.borrow + e.opportunity \in Nat
           /\ Yield!OneTimeCosts(e) =
                 2 * e.spot_fee + 2 * e.perp_fee
                     + (e.slippage_entry + e.slippage_exit) + e.spread_buffer
    BY CostsAre
  <2> HIDE DEF d
  <2>2. QED
    BY <1>1, <2>1
<1>3. \A g \in CostFields : d[g] = IF g = f THEN c[g] + 1 ELSE c[g]
  OBVIOUS
<1>4. \A g \in CostFields : c[g] \in Nat
  OBVIOUS
<1>5. \/ o < u /\ b = v
      \/ o = u /\ b < v
  <2> HIDE DEF d
  <2>1. /\ d.spot_fee = IF "spot_fee" = f THEN c.spot_fee + 1 ELSE c.spot_fee
        /\ d.perp_fee = IF "perp_fee" = f THEN c.perp_fee + 1 ELSE c.perp_fee
        /\ d.slippage_entry =
              IF "slippage_entry" = f THEN c.slippage_entry + 1 ELSE c.slippage_entry
        /\ d.slippage_exit =
              IF "slippage_exit" = f THEN c.slippage_exit + 1 ELSE c.slippage_exit
        /\ d.spread_buffer =
              IF "spread_buffer" = f THEN c.spread_buffer + 1 ELSE c.spread_buffer
        /\ d.borrow = IF "borrow" = f THEN c.borrow + 1 ELSE c.borrow
        /\ d.opportunity = IF "opportunity" = f THEN c.opportunity + 1 ELSE c.opportunity
    BY <1>3 DEF CostFields, Yield!OneTimeFields, Yield!AnnualFields
  <2>2. /\ c.spot_fee \in Nat /\ c.perp_fee \in Nat /\ c.slippage_entry \in Nat
        /\ c.slippage_exit \in Nat /\ c.spread_buffer \in Nat
        /\ c.borrow \in Nat /\ c.opportunity \in Nat
    BY <1>4 DEF CostFields, Yield!OneTimeFields, Yield!AnnualFields
  <2>3. f \in {"spot_fee", "perp_fee", "slippage_entry", "slippage_exit",
               "spread_buffer", "borrow", "opportunity"}
    BY DEF CostFields, Yield!OneTimeFields, Yield!AnnualFields
  <2> HIDE DEF o, u
  <2>4. QED
    BY <1>2, <2>1, <2>2, <2>3
<1> HIDE DEF o, b, u, v, d
<1>6. o * HoursPerYear + b * n < u * HoursPerYear + v * n
  <2>1. HoursPerYear \in Nat \ {0}
    BY YieldParams
  <2>2. CASE o < u /\ b = v
    <3>1. HoursPerYear * o < HoursPerYear * u
      BY <1>2, <2>1, <2>2, ProductStrict
    <3>2. QED
      BY <1>2, <2>1, <2>2, <3>1
  <2>3. CASE o = u /\ b < v
    <3>1. n * b < n * v
      BY <1>2, <2>3, ProductStrict
    <3>2. QED
      BY <1>2, <2>1, <2>3, <3>1
  <2>4. QED
    BY <1>5, <2>2, <2>3
<1>7. QED
  BY <1>1, <1>6 DEF o, b, u, v, d

LEMMA EveryCost ==
    ASSUME NEW p \in Position, Yield!ValidSettings(p), NEW f \in CostFields
    PROVE  LET dearer == Yield!Metrics([p EXCEPT !.costs[f] = @ + 1])
           IN  /\ ~Yield!AtMost(Yield!Metrics(p).net.horizon, dearer.net.horizon)
               /\ ~Yield!AtMost(Yield!Metrics(p).net.annual, dearer.net.annual)
<1> DEFINE h == p.holding
           a == Yield!Amortization(p)
           c == p.costs
           d == [c EXCEPT ![f] = @ + 1]
           o == Yield!OneTimeCosts(c)
           b == c.borrow + c.opportunity
           u == Yield!OneTimeCosts(d)
           v == d.borrow + d.opportunity
<1>1. h \in Nat \ {0} /\ a \in Nat \ {0} /\ HoursPerYear \in Nat \ {0}
  <2>1. /\ p.holding \in Nat \ {0} /\ a \in p.min_amortization .. p.holding
        /\ p.min_amortization \in Nat \ {0}
    BY HoursAre
  <2> HIDE DEF a
  <2>2. QED
    BY <2>1, YieldParams
<1>2. c \in [CostFields -> Nat] /\ p = [p EXCEPT !.costs = c]
  BY CostsOf
<1>3. [p EXCEPT !.costs[f] = @ + 1] = [p EXCEPT !.costs = d]
  BY DEF Position
<1>4. PICK r \in Int, i \in Nat \ {0}, cn \in Int, cd \in Nat \ {0} :
         \A e \in [CostFields -> Nat] : YieldsLess(p, e, r, i, cn, cd)
  BY MetricsAre
<1> HIDE DEF c, a, h
<1>5. /\ d \in [CostFields -> Nat]
      /\ o * HoursPerYear + b * h < u * HoursPerYear + v * h
      /\ o * HoursPerYear + b * a < u * HoursPerYear + v * a
  BY <1>1, <1>2, OneMoreIsMore
<1>6. /\ o * HoursPerYear + b * h \in Int /\ u * HoursPerYear + v * h \in Int
      /\ o * HoursPerYear + b * a \in Int /\ u * HoursPerYear + v * a \in Int
  <2>1. \A e \in [CostFields -> Nat] :
           Yield!OneTimeCosts(e) \in Nat /\ e.borrow + e.opportunity \in Nat
    BY CostsAre
  <2> HIDE DEF d
  <2>2. o \in Nat /\ b \in Nat /\ u \in Nat /\ v \in Nat
    BY <1>2, <1>5, <2>1
  <2> HIDE DEF o, b, u, v
  <2>3. QED
    BY <1>1, <2>2
<1>7. YieldsLess(p, c, r, i, cn, cd) /\ YieldsLess(p, d, r, i, cn, cd)
  BY <1>2, <1>4, <1>5
<1> DEFINE was == Yield!Metrics(p)
           dearer == Yield!Metrics([p EXCEPT !.costs = d])
           horizon == r * h * cd + cn * i
           year == r * HoursPerYear * (cd * h) + (cn * HoursPerYear) * i
<1> HIDE DEF d
<1>8. /\ was.net.horizon =
            Yield!Minus(<<horizon, i * cd>>, <<o * HoursPerYear + b * h, HoursPerYear>>)
      /\ was.net.annual =
            Yield!Minus(<<year, i * (cd * h)>>, <<o * HoursPerYear + b * a, a>>)
  BY <1>2, <1>7 DEF YieldsLess, h, a
<1>9. /\ dearer.net.horizon =
            Yield!Minus(<<horizon, i * cd>>, <<u * HoursPerYear + v * h, HoursPerYear>>)
      /\ dearer.net.annual =
            Yield!Minus(<<year, i * (cd * h)>>, <<u * HoursPerYear + v * a, a>>)
  BY <1>7 DEF YieldsLess, h, a
<1>10. horizon \in Int /\ year \in Int /\ i * cd \in Nat \ {0} /\ i * (cd * h) \in Nat \ {0}
  <2>1. i * cd \in Nat \ {0} /\ cd * h \in Nat \ {0}
    BY <1>1, ProductPositive
  <2>2. i * (cd * h) \in Nat \ {0}
    BY <2>1, ProductPositive
  <2>3. QED
    BY <1>1, <2>1, <2>2
<1> HIDE DEF horizon, year, was, dearer, o, b, u, v
<1>11. ~Yield!AtMost(was.net.horizon, dearer.net.horizon)
  BY <1>1, <1>5, <1>6, <1>8, <1>9, <1>10, DearerLeavesLess
<1>12. ~Yield!AtMost(was.net.annual, dearer.net.annual)
  BY <1>1, <1>5, <1>6, <1>8, <1>9, <1>10, DearerLeavesLess
<1>13. QED
  BY <1>3, <1>11, <1>12 DEF was, dearer

LEMMA AnnualAndHours ==
    ASSUME NEW p \in Position, Yield!ValidSettings(p)
    PROVE  LET m == Yield!Metrics(p)
               h == p.holding
               a == Yield!Amortization(p)
           IN  /\ m.funding.holding = h /\ m.costs = Yield!CostMetrics(p.costs, h, a)
               /\ Yield!AtMost(m.net.annual,
                               Yield!NetAnnualFromHorizon(m.net.horizon, h))
<1> DEFINE h == p.holding
           a == Yield!Amortization(p)
           c == p.costs
           o == Yield!OneTimeCosts(c)
           b == c.borrow + c.opportunity
           m == Yield!Metrics(p)
           H == HoursPerYear
<1>1. h \in Nat \ {0} /\ a \in Nat \ {0} /\ H \in Nat \ {0} /\ a <= h
  <2>1. /\ p.holding \in Nat \ {0} /\ a \in p.min_amortization .. p.holding
        /\ p.min_amortization \in Nat \ {0}
    BY HoursAre
  <2> HIDE DEF a
  <2>2. QED
    BY <2>1, YieldParams
<1>2. c \in [CostFields -> Nat] /\ p = [p EXCEPT !.costs = c]
  BY CostsOf
<1>3. PICK r \in Int, i \in Nat \ {0}, cn \in Int, cd \in Nat \ {0} :
         \A e \in [CostFields -> Nat] : YieldsLess(p, e, r, i, cn, cd)
  BY MetricsAre
<1>4. YieldsLess(p, c, r, i, cn, cd)
  BY <1>2, <1>3
<1>5. o \in Nat /\ b \in Nat
  BY <1>2, CostsAre
<1> HIDE DEF c, a, h, o, b
<1>6. /\ m.funding.holding = h /\ m.costs = Yield!CostMetrics(c, h, a)
      /\ m.net.horizon =
            Yield!Minus(<<r * h * cd + cn * i, i * cd>>, <<o * H + b * h, H>>)
      /\ m.net.annual =
            Yield!Minus(<<r * H * (cd * h) + (cn * H) * i, i * (cd * h)>>,
                        <<o * H + b * a, a>>)
  BY <1>2, <1>4 DEF YieldsLess, h, a, o, b
<1>7. m.net.annual =
         <<(r * H * (cd * h) + (cn * H) * i) * a - (o * H + b * a) * (i * (cd * h)),
           (i * (cd * h)) * a>>
  BY <1>6 DEF Yield!Minus
<1>8. Yield!NetAnnualFromHorizon(m.net.horizon, h) =
         <<((r * h * cd + cn * i) * H - (o * H + b * h) * (i * cd)) * H,
           ((i * cd) * H) * h>>
  BY <1>6 DEF Yield!Minus, Yield!NetAnnualFromHorizon, Yield!Over, Yield!Times
<1> HIDE DEF m, H
<1>9. ((r * H * (cd * h) + (cn * H) * i) * a - (o * H + b * a) * (i * (cd * h)))
         * (((i * cd) * H) * h)
       <= (((r * h * cd + cn * i) * H - (o * H + b * h) * (i * cd)) * H)
              * ((i * (cd * h)) * a)
  BY <1>1, <1>5, AnnualBelowHorizon
<1>10. Yield!AtMost(m.net.annual, Yield!NetAnnualFromHorizon(m.net.horizon, h))
  BY <1>7, <1>8, <1>9 DEF Yield!AtMost
<1>11. QED
  BY <1>6, <1>10 DEF h, a, c, m

(* The one-piece figures and the helpers', as fractions. *)
LEMMA HelpersEqual ==
    ASSUME NEW c \in [CostFields -> Nat], NEW h \in Nat \ {0}, NEW a \in Nat \ {0}
    PROVE  /\ Yield!Same(Yield!CostMetrics(c, h, a).horizon, Yield!TotalCostsHorizon(c, h))
           /\ Yield!Same(Yield!CostMetrics(c, h, a).annualized,
                         Yield!TotalCostsAnnualized(c, a))
<1> DEFINE o == Yield!OneTimeCosts(c)
           b == c.borrow
           e == c.opportunity
           H == HoursPerYear
           m == Yield!CostMetrics(c, h, a)
<1>1. /\ o \in Int /\ b \in Int /\ e \in Int /\ H \in Int
  BY CostsAre, YieldParams
<1>2. m.horizon = <<o * H + (b + e) * h, H>> /\ m.annualized = <<o * H + (b + e) * a, a>>
  BY CostMetricsAre
<1>3. Yield!TotalCostsHorizon(c, h)
         = <<o * (H * H) + (b * h * H + e * h * H) * 1, 1 * (H * H)>>
  BY DEF Yield!TotalCostsHorizon, Yield!CostHorizon, Yield!Plus, Yield!Whole
<1>4. Yield!TotalCostsAnnualized(c, a) = <<o * H * 1 + (b + e) * a, a * 1>>
  BY DEF Yield!TotalCostsAnnualized, Yield!OneTimeCostsAnnualized, Yield!Plus, Yield!Whole
<1> HIDE DEF o, b, e, H, m
<1>5. (o * H + (b + e) * h) * (1 * (H * H)) = (o * (H * H) + (b * h * H + e * h * H) * 1) * H
  BY <1>1
<1>6. (o * H + (b + e) * a) * (a * 1) = (o * H * 1 + (b + e) * a) * a
  BY <1>1
<1>7. /\ (o * H + (b + e) * h) * (1 * (H * H)) \in Int
      /\ (o * H + (b + e) * a) * (a * 1) \in Int
  BY <1>1
<1>8. Yield!Same(m.horizon, Yield!TotalCostsHorizon(c, h))
  BY <1>2, <1>3, <1>5, <1>7 DEF Yield!Same, Yield!AtMost
<1>9. Yield!Same(m.annualized, Yield!TotalCostsAnnualized(c, a))
  BY <1>2, <1>4, <1>6, <1>7 DEF Yield!Same, Yield!AtMost
<1>10. QED
  BY <1>8, <1>9 DEF m

LEMMA YieldIsSound == YieldInv => Yield!YieldSound
<1> SUFFICES ASSUME YieldInv, position # None PROVE Yield!YieldSound
  BY DEF Yield!YieldSound, Yield!AmortizationWithinHorizon, Yield!AnnualNotRosier,
         Yield!HelpersAgree, Yield!EveryCostCounts
<1> DEFINE p == position
           h == p.holding
           a == Yield!Amortization(p)
<1>1. p \in Position /\ Yield!ValidSettings(p) /\ metrics = Yield!Metrics(p)
  BY DEF YieldInv
<1>2. /\ Yield!Horizon(p) = h /\ h \in Nat \ {0} /\ a \in p.min_amortization .. h
      /\ p.min_amortization \in Nat \ {0} /\ a \in Nat \ {0}
  <2>1. /\ Yield!Horizon(p) = h /\ h \in Nat \ {0} /\ a \in p.min_amortization .. h
        /\ p.min_amortization \in Nat \ {0}
    BY <1>1, HoursAre
  <2> HIDE DEF a, h
  <2>2. QED
    BY <2>1
<1>3. /\ metrics.funding.holding = h /\ metrics.costs = Yield!CostMetrics(p.costs, h, a)
      /\ Yield!AtMost(metrics.net.annual,
                      Yield!NetAnnualFromHorizon(metrics.net.horizon, h))
  BY <1>1, AnnualAndHours
<1>4. p.costs \in [CostFields -> Nat]
  BY <1>1, CostsOf
<1> HIDE DEF a, h
<1>5. metrics.costs.amortization = a
  BY <1>2, <1>3, <1>4, CostMetricsAre
<1>6. Yield!AmortizationWithinHorizon
  BY <1>2, <1>3, <1>5 DEF Yield!AmortizationWithinHorizon
<1>7. Yield!AnnualNotRosier
  BY <1>3 DEF Yield!AnnualNotRosier
<1>8. Yield!HelpersAgree
  BY <1>2, <1>3, <1>4, HelpersEqual DEF Yield!HelpersAgree, a
<1>9. Yield!EveryCostCounts
  BY <1>1, EveryCost DEF Yield!EveryCostCounts, CostFields
<1>10. QED
  BY <1>6, <1>7, <1>8, <1>9 DEF Yield!YieldSound
-----------------------------------------------------------------------------
(* The payloads. *)

Stamps == {s * MsPerSecond : s \in Instants}

(* Whatever form a time has, it is read as one of the instants, or not.     *)
LEMMA TimeRead ==
    ASSUME NEW v \in Payloads!Times
    PROVE  Payloads!ParseTimestamp(v) \in Stamps \cup {None}
<1>1. CASE v \in {None, Junk}
  BY <1>1 DEF Payloads!ParseTimestamp
<1>2. CASE v \notin {None, Junk}
  <2>1. v \in {[n |-> s, unit |-> ""] : s \in Instants}
                 \cup [n: Stamps, unit: {"", "iso"}] \cup {[n |-> 0, unit |-> ""]}
    BY <1>2 DEF Payloads!Times, Stamps
  <2>2. CASE v \in {[n |-> s, unit |-> ""] : s \in Instants}
    <3>1. PICK s \in Instants : v = [n |-> s, unit |-> ""]
      BY <2>2
    <3>2. s \in Nat /\ 0 < s /\ s < SecondsLimit
      BY PayloadParams
    <3>3. ~(s <= 0)
      BY <3>2
    <3>4. Payloads!ParseTimestamp(v) = s * MsPerSecond
      BY <1>2, <3>1, <3>2, <3>3 DEF Payloads!ParseTimestamp
    <3>5. QED
      BY <3>4 DEF Stamps
  <2>3. CASE v \in [n: Stamps, unit: {"", "iso"}]
    <3>1. v.n \in Stamps /\ v.unit \in {"", "iso"}
      BY <2>3
    <3>2. PICK s \in Instants : v.n = s * MsPerSecond
      BY <3>1 DEF Stamps
    <3>3. /\ 0 < s /\ s < SecondsLimit /\ s \in Nat
          /\ v.n \in Nat /\ SecondsLimit <= v.n
      BY <3>2, PayloadParams, Zenon
    <3>4. SecondsLimit \in Nat
      BY PayloadParams, Zenon
    <3>5. ~(v.n <= 0) /\ v.n > 0 /\ ~(v.n < SecondsLimit)
      BY <3>3, <3>4
    <3>6. Payloads!ParseTimestamp(v) = v.n
      BY <1>2, <3>1, <3>5 DEF Payloads!ParseTimestamp
    <3>7. QED
      BY <3>1, <3>6
  <2>4. CASE v = [n |-> 0, unit |-> ""]
    <3>1. v.n = 0 /\ v.unit = ""
      BY <2>4
    <3>2. v.n <= 0 /\ ~(v.n > 0) /\ v.unit # "iso"
      <4>1. 0 <= 0 /\ ~(0 > 0) /\ "" # "iso"
        OBVIOUS
      <4>2. QED
        BY <3>1, <4>1, Zenon
    <3>3. Payloads!ParseTimestamp(v) = None
      BY <1>2, <3>1, <3>2, Zenon DEF Payloads!ParseTimestamp
    <3>4. QED
      BY <3>3
  <2>5. QED
    BY <2>1, <2>2, <2>3, <2>4
<1>3. QED
  BY <1>1, <1>2

(* A record that has one of the keys. *)
LEMMA OneKey ==
    ASSUME NEW m, NEW keys, Len(keys) \in Nat, NEW k \in 1 .. Len(keys),
           \A j \in 1 .. Len(keys) : j # k => keys[j] \notin DOMAIN m
    PROVE  LET given == Payloads!Given(m, keys)
           IN  /\ given # {} <=> keys[k] \in DOMAIN m /\ m[keys[k]] # None
               /\ given # {} => Payloads!FirstGiven(m, keys) = m[keys[k]]
<1> DEFINE given == Payloads!Given(m, keys)
<1>1. given = IF keys[k] \in DOMAIN m /\ m[keys[k]] # None THEN {k} ELSE {}
  BY DEF Payloads!Given
<1>2. {k} \in SUBSET Nat /\ {k} # {}
  OBVIOUS
<1>3. Min({k}) = k
  BY <1>2, MinIs
<1>4. Payloads!Min({k}) = k
  BY <1>3 DEF Payloads!Min, Min
<1>5. QED
  BY <1>1, <1>4 DEF Payloads!FirstGiven

LEMMA NoKey ==
    ASSUME NEW m, NEW keys, \A j \in 1 .. Len(keys) : keys[j] \notin DOMAIN m
    PROVE  Payloads!Given(m, keys) = {}
  BY DEF Payloads!Given

LEMMA TickerStamped ==
    ASSUME NEW time \in Payloads!Times, NEW close \in Payloads!Times
    PROVE  Payloads!TimestampFromPayload([bid |-> 1, ask |-> 2, datetime |-> time],
                                         [closeTime |-> close], Received)
              \in Stamps \cup {Received}
<1> DEFINE p == [bid |-> 1, ask |-> 2, datetime |-> time]
           i == [closeTime |-> close]
           keys == <<"timestamp", "datetime", "timestamp_ms", "time">>
           ending == <<"closeTime", "E", "T">>
           common == Payloads!ParseTimestamp(Payloads!GetValue(p, i, keys))
           raw == {j \in 1 .. 3 : ending[j] \in DOMAIN i
                                     /\ Payloads!ParseTimestamp(i[ending[j]]) # None}
<1>1. /\ Len(keys) = 4 /\ 2 \in 1 .. Len(keys) /\ keys[1] = "timestamp" /\ keys[2] = "datetime"
      /\ keys[3] = "timestamp_ms" /\ keys[4] = "time"
      /\ DOMAIN p = {"bid", "ask", "datetime"} /\ p["datetime"] = time
      /\ DOMAIN i = {"closeTime"} /\ i["closeTime"] = close
      /\ ending[1] = "closeTime" /\ ending[2] = "E" /\ ending[3] = "T"
  OBVIOUS
<1> HIDE DEF p, i, keys, ending
<1>2. Payloads!GetValue(p, i, keys) \in {time, None}
  <2>1. \A j \in 1 .. Len(keys) :
           (j # 2 => keys[j] \notin DOMAIN p) /\ keys[j] \notin DOMAIN i
    BY <1>1
  <2>2. Payloads!Given(i, keys) = {}
    BY <2>1, NoKey
  <2>3. Payloads!Given(p, keys) # {} => Payloads!FirstGiven(p, keys) = time
    <3>1. Payloads!Given(p, keys) # {} => Payloads!FirstGiven(p, keys) = p[keys[2]]
      <4>1. Len(keys) \in Nat /\ 2 \in 1 .. Len(keys)
        BY <1>1
      <4>2. \A j \in 1 .. Len(keys) : j # 2 => keys[j] \notin DOMAIN p
        BY <2>1
      <4>3. QED
        BY <4>1, <4>2, OneKey
    <3>2. QED
      BY <1>1, <3>1
  <2>4. QED
    BY <2>2, <2>3 DEF Payloads!GetValue
<1>3. common \in Stamps \cup {None}
  <2>1. None \in Payloads!Times
    BY DEF Payloads!Times
  <2>2. QED
    BY <1>2, <2>1, TimeRead
<1>4. raw # {} => Payloads!ParseTimestamp(i[ending[Payloads!Min(raw)]]) \in Stamps
  <2>1. \A j \in 1 .. 3 : j # 1 => ending[j] \notin DOMAIN i
    BY <1>1
  <2>2. raw # {} => raw = {1}
    BY <2>1
  <2>3. Payloads!Min({1}) = 1
    <3>1. {1} \in SUBSET Nat /\ {1} # {}
      OBVIOUS
    <3>2. Min({1}) = 1
      BY <3>1, MinIs
    <3>3. QED
      BY <3>2 DEF Payloads!Min, Min
  <2>4. Payloads!ParseTimestamp(close) \in Stamps \cup {None}
    BY TimeRead
  <2>5. raw # {} => Payloads!ParseTimestamp(close) # None
    BY <1>1, <2>2
  <2> HIDE DEF raw
  <2>6. QED
    BY <1>1, <2>2, <2>3, <2>4, <2>5
<1>5. Payloads!TimestampFromPayload(p, i, Received) =
         CASE common # None -> common
           [] common = None /\ raw # {} ->
                  Payloads!ParseTimestamp(i[ending[Payloads!Min(raw)]])
           [] OTHER -> Received
  BY DEF Payloads!TimestampFromPayload, keys, ending
<1> HIDE DEF common, raw
<1>6. QED
  BY <1>3, <1>4, <1>5 DEF p, i

LEMMA StampsAre ==
    ASSUME Payloads!ReadTicker PROVE Payloads!StampIsAnInstant'
<1>1. PICK time \in Payloads!Times, close \in Payloads!Times, spot \in BOOLEAN :
         LET p == [bid |-> 1, ask |-> 2, datetime |-> time]
             i == [closeTime |-> close]
         IN  result' = IF spot THEN Payloads!NormalizeSpotTicker(p, i, Received)
                       ELSE Payloads!NormalizePerpTicker(p, i, Received)
  BY DEF Payloads!ReadTicker
<1> DEFINE p == [bid |-> 1, ask |-> 2, datetime |-> time]
           i == [closeTime |-> close]
<1>2. Payloads!QuoteSound(p)
  BY PayloadParams DEF Payloads!QuoteSound, Payloads!Positive, Payloads!IsNumber
<1>3. result'.timestamp_ms = Payloads!TimestampFromPayload(p, i, Received)
  <2> HIDE DEF p, i
  <2>1. \A fields : Payloads!NormalizeTicker(p, i, Received, fields).timestamp_ms
                       = Payloads!TimestampFromPayload(p, i, Received)
    BY <1>2 DEF Payloads!NormalizeTicker
  <2>2. QED
    BY <1>1, <2>1 DEF Payloads!NormalizeSpotTicker, Payloads!NormalizePerpTicker, p, i
<1>4. QED
  BY <1>3, TickerStamped DEF Payloads!StampIsAnInstant, Stamps

(* The rates that are read: of one key of the payload or, if it has none    *)
(* there, of one key of the info.                                           *)
LEMMA RatesAre ==
    ASSUME NEW rate, NEW last, NEW predicted, NEW previous
    PROVE  LET p == [fundingRate |-> rate, lastFundingRate |-> last]
               i == [nextFundingRate |-> predicted, previousFundingRate |-> previous]
           IN  /\ Payloads!PredictedRate(p, i) \in {rate, predicted, None}
               /\ Payloads!LastRate(p, i) \in {last, previous, None}
               /\ Payloads!IsNumber(last) => Payloads!LastRate(p, i) = last
<1> DEFINE p == [fundingRate |-> rate, lastFundingRate |-> last]
           i == [nextFundingRate |-> predicted, previousFundingRate |-> previous]
           next == <<"fundingRate", "predictedFundingRate", "nextFundingRate">>
           past == <<"lastFundingRate", "previousFundingRate">>
<1>1. /\ DOMAIN p = {"fundingRate", "lastFundingRate"}
      /\ p["fundingRate"] = rate /\ p["lastFundingRate"] = last
      /\ DOMAIN i = {"nextFundingRate", "previousFundingRate"}
      /\ i["nextFundingRate"] = predicted /\ i["previousFundingRate"] = previous
      /\ Len(next) = 3 /\ 3 \in 1 .. Len(next) /\ next[1] = "fundingRate" /\ next[2] = "predictedFundingRate"
      /\ next[3] = "nextFundingRate"
      /\ Len(past) = 2 /\ 1 \in 1 .. Len(past) /\ past[1] = "lastFundingRate" /\ past[2] = "previousFundingRate"
  OBVIOUS
<1> HIDE DEF p, i, next, past
<1>2. Payloads!GetValue(p, i, next) \in {rate, predicted, None}
  <2>1. \A j \in 1 .. Len(next) :
           (j # 1 => next[j] \notin DOMAIN p) /\ (j # 3 => next[j] \notin DOMAIN i)
    BY <1>1
  <2>2. Payloads!Given(p, next) # {} => Payloads!FirstGiven(p, next) = rate
    <3>1. Payloads!Given(p, next) # {} => Payloads!FirstGiven(p, next) = p[next[1]]
      <4>1. Len(next) \in Nat /\ 1 \in 1 .. Len(next)
        BY <1>1
      <4>2. \A j \in 1 .. Len(next) : j # 1 => next[j] \notin DOMAIN p
        BY <2>1
      <4>3. QED
        BY <4>1, <4>2, OneKey
    <3>2. QED
      BY <1>1, <3>1
  <2>3. Payloads!Given(i, next) # {} => Payloads!FirstGiven(i, next) = predicted
    <3>1. Payloads!Given(i, next) # {} => Payloads!FirstGiven(i, next) = i[next[3]]
      <4>1. Len(next) \in Nat /\ 3 \in 1 .. Len(next)
        BY <1>1
      <4>2. \A j \in 1 .. Len(next) : j # 3 => next[j] \notin DOMAIN i
        BY <2>1
      <4>3. QED
        BY <4>1, <4>2, OneKey
    <3>2. QED
      BY <1>1, <3>1
  <2>4. QED
    BY <2>2, <2>3 DEF Payloads!GetValue
<1>3. /\ Payloads!GetValue(p, i, past) \in {last, previous, None}
      /\ last # None => Payloads!GetValue(p, i, past) = last
  <2>1. \A j \in 1 .. Len(past) :
           (j # 1 => past[j] \notin DOMAIN p) /\ (j # 2 => past[j] \notin DOMAIN i)
    BY <1>1
  <2>2. /\ Payloads!Given(p, past) # {} => Payloads!FirstGiven(p, past) = last
        /\ last # None => Payloads!Given(p, past) # {}
    <3>1. /\ Payloads!Given(p, past) # {}
                <=> past[1] \in DOMAIN p /\ p[past[1]] # None
          /\ Payloads!Given(p, past) # {} => Payloads!FirstGiven(p, past) = p[past[1]]
      <4>1. Len(past) \in Nat /\ 1 \in 1 .. Len(past)
        BY <1>1
      <4>2. \A j \in 1 .. Len(past) : j # 1 => past[j] \notin DOMAIN p
        BY <2>1
      <4>3. QED
        BY <4>1, <4>2, OneKey
    <3>2. past[1] \in DOMAIN p /\ p[past[1]] = last
      BY <1>1
    <3>3. QED
      BY <3>1, <3>2
  <2>3. Payloads!Given(i, past) # {} => Payloads!FirstGiven(i, past) = previous
    <3>1. Payloads!Given(i, past) # {} => Payloads!FirstGiven(i, past) = i[past[2]]
      <4>1. Len(past) \in Nat /\ 2 \in 1 .. Len(past)
        BY <1>1
      <4>2. \A j \in 1 .. Len(past) : j # 2 => past[j] \notin DOMAIN i
        BY <2>1
      <4>3. QED
        BY <4>1, <4>2, OneKey
    <3>2. QED
      BY <1>1, <3>1
  <2>4. QED
    BY <2>2, <2>3 DEF Payloads!GetValue
<1>4. /\ Payloads!PredictedRate(p, i) \in {rate, predicted, None}
      /\ Payloads!LastRate(p, i) \in {last, previous, None}
      /\ Payloads!IsNumber(last) => Payloads!LastRate(p, i) = last
  <2>1. /\ Payloads!PredictedRate(p, i)
              = Payloads!ParseDecimal(Payloads!GetValue(p, i, next))
        /\ Payloads!LastRate(p, i)
              = Payloads!ParseDecimal(Payloads!GetValue(p, i, past))
    BY Zenon DEF Payloads!PredictedRate, Payloads!LastRate, next, past
  <2>2. ASSUME NEW v
        PROVE  /\ Payloads!ParseDecimal(v) \in {v, None}
               /\ Payloads!IsNumber(v) => Payloads!ParseDecimal(v) = v
    BY Zenon DEF Payloads!ParseDecimal
  <2>3. Payloads!IsNumber(last) => last # None
    BY Zenon DEF Payloads!IsNumber
  <2>4. QED
    BY <1>2, <1>3, <2>1, <2>2, <2>3
<1>5. QED
  BY <1>4 DEF p, i

LEMMA SourcesAre ==
    ASSUME Payloads!ReadFunding PROVE Payloads!RateHasSource'
<1>1. PICK rate \in Rates, predicted \in Rates, last \in Rates,
           previous \in Rates, wanted \in BOOLEAN :
         LET p == [fundingRate |-> rate, lastFundingRate |-> last]
             i == [nextFundingRate |-> predicted,
                   previousFundingRate |-> previous]
         IN  /\ kind' = "funding"
             /\ payload' = p /\ payload_info' = i /\ wish' = wanted
             /\ result' = Payloads!NormalizeFunding(p, i, 8 * 3600, wanted)
  BY Zenon DEF Payloads!ReadFunding
<1> DEFINE p == [fundingRate |-> rate, lastFundingRate |-> last]
           i == [nextFundingRate |-> predicted, previousFundingRate |-> previous]
           next == Payloads!PredictedRate(p, i)
           past == Payloads!LastRate(p, i)
           source == Payloads!RateSource(next, past, wanted)
<1>2. /\ next \in {rate, predicted, None} /\ past \in {last, previous, None}
      /\ Payloads!IsNumber(last) => past = last /\ last # None
  BY RatesAre DEF Payloads!IsNumber
<1>3. /\ p.fundingRate = rate /\ p.lastFundingRate = last
      /\ i.nextFundingRate = predicted /\ i.previousFundingRate = previous
  OBVIOUS
<1> HIDE DEF p, i, next, past, source
<1>4. /\ source \in {"predicted", "last", "none"}
      /\ source = "predicted" => next # None /\ (wanted \/ past = None)
      /\ source = "last" => past # None
  BY DEF Payloads!RateSource, source
<1>5. SUFFICES ASSUME result' # DataError
               PROVE  LET sources == IF result'.source = "predicted"
                                        THEN {rate, predicted} ELSE {last, previous}
                      IN  /\ result'.effective \in sources
                          /\ (result'.source = "predicted" /\ ~wanted)
                                => ~Payloads!IsNumber(last)
  BY <1>1, <1>3 DEF Payloads!RateHasSource, p, i
<1>6. /\ source # "none"
      /\ result'.source = source
      /\ result'.effective = IF source = "last" THEN past ELSE next
  BY <1>1, <1>5 DEF Payloads!NormalizeFunding, p, i, next, past, source
<1>7. QED
  BY <1>2, <1>4, <1>6

LEMMA InitReadAsGiven == Payloads!Init => Payloads!ReadAsGiven
  BY DEF Payloads!Init, Payloads!ReadAsGiven, Payloads!StampIsAnInstant,
         Payloads!RateHasSource

LEMMA NextReadAsGiven ==
    Payloads!ReadAsGiven /\ [Payloads!Next]_(Payloads!vars) => Payloads!ReadAsGiven'
<1>1. CASE Payloads!ReadTicker
  <2>1. kind' \in {"spot", "perp"}
    BY <1>1 DEF Payloads!ReadTicker
  <2>2. QED
    BY <1>1, <2>1, StampsAre DEF Payloads!ReadAsGiven, Payloads!RateHasSource
<1>2. CASE Payloads!ReadFunding
  <2>1. kind' = "funding"
    BY <1>2 DEF Payloads!ReadFunding
  <2>2. QED
    BY <1>2, <2>1, SourcesAre DEF Payloads!ReadAsGiven, Payloads!StampIsAnInstant
<1>3. CASE UNCHANGED Payloads!vars
  BY <1>3 DEF Payloads!vars, Payloads!ReadAsGiven, Payloads!StampIsAnInstant,
              Payloads!RateHasSource
<1>4. QED
  BY <1>1, <1>2, <1>3 DEF Payloads!Next
-----------------------------------------------------------------------------
(* The selection of the universe. *)

(* Who is eligible trades and pays at least nothing. *)
LEMMA EligibleAre ==
    ASSUME NEW c \in Pools, NEW p \in Params
    PROVE  /\ Universe!Eligible(c, p) \in SUBSET (1 .. Len(c)) /\ Len(c) \in Nat
           /\ \A i \in 1 .. Len(c) : c[i].rate \in Int /\ c[i].volume \in Int
           /\ \A i \in Universe!Eligible(c, p) : c[i].rate \in Nat /\ c[i].volume \in Nat
<1>1. /\ Len(c) \in Nat
      /\ \A i \in 1 .. Len(c) :
            c[i] \in [name: Names, spread: Int, volume: Int,
                      interest: Int \cup {None}, rate: Int]
  <2>1. c \in Seq([name: Names, spread: Int, volume: Int,
                   interest: Int \cup {None}, rate: Int])
    BY SelectorParams
  <2>2. QED
    BY <2>1, LenProperties, ElementOfSeq
<1>2. p.max_spread \in Int /\ p.min_volume \in Nat /\ p.min_rate \in Nat
  BY SelectorParams
<1>3. ASSUME NEW i \in 1 .. Len(c), Universe!Exclusion(c[i], p) = "none"
      PROVE  c[i].rate \in Nat /\ c[i].volume \in Nat
  <2>1. c[i].spread \in Int /\ c[i].volume \in Int /\ c[i].rate \in Int
    BY <1>1
  <2>2. ~(c[i].spread > p.max_spread)
    BY <1>3 DEF Universe!Exclusion
  <2>3. ~(c[i].spread <= p.max_spread /\ c[i].volume < p.min_volume)
    BY <1>2, <1>3, <2>1, <2>2 DEF Universe!Exclusion
  <2>4. ~(c[i].rate < p.min_rate)
    BY <1>2, <1>3, <2>1, <2>2, <2>3 DEF Universe!Exclusion
  <2>5. QED
    BY <1>2, <2>1, <2>2, <2>3, <2>4
<1>4. QED
  BY <1>1, <1>3 DEF Universe!Eligible

LEMMA LargestIs ==
    ASSUME NEW S \in SUBSET Nat, NEW top \in Int, \A x \in S : x <= top
    PROVE  /\ Universe!Largest(S) \in Nat
           /\ \A x \in S : x <= Universe!Largest(S)
<1>1. \E x \in S \cup {0} : \A y \in S : y <= x
  <2>1. CASE S = {}
    BY <2>1
  <2>2. CASE S # {}
    <3>1. S \in SUBSET Int
      OBVIOUS
    <3>2. QED
      BY <2>2, <3>1, Greatest
  <2>3. QED
    BY <2>1, <2>2
<1>2. /\ Universe!Largest(S) \in S \cup {0}
      /\ \A x \in S : x <= Universe!Largest(S)
  BY <1>1 DEF Universe!Largest
<1>3. S \cup {0} \in SUBSET Nat
  OBVIOUS
<1>4. Universe!Largest(S) \in Nat
  BY <1>2, <1>3
<1>5. QED
  BY <1>2, <1>4

(* The largest rate and volume are those of somebody eligible, or nothing.  *)
LEMMA LargestAre ==
    ASSUME NEW c \in Pools, NEW p \in Params
    PROVE  /\ Universe!LargestRate(c, p) \in Nat /\ Universe!LargestVolume(c, p) \in Nat
           /\ \A i \in Universe!Eligible(c, p) :
                 /\ c[i].rate <= Universe!LargestRate(c, p)
                 /\ c[i].volume <= Universe!LargestVolume(c, p)
<1> DEFINE E == Universe!Eligible(c, p)
           rates == {c[i].rate : i \in E}
           volumes == {c[i].volume : i \in E}
<1>1. /\ E \in SUBSET (1 .. Len(c)) /\ Len(c) \in Nat
      /\ \A i \in 1 .. Len(c) : c[i].rate \in Int /\ c[i].volume \in Int
      /\ \A i \in E : c[i].rate \in Nat /\ c[i].volume \in Nat
  BY EligibleAre
<1> HIDE DEF E
<1>2. \E top \in Int : \A i \in 1 .. Len(c) : c[i].rate <= top
  <2> DEFINE f == [i \in 1 .. Len(c) |-> c[i].rate]
  <2>1. \A i \in 1 .. Len(c) : f[i] = c[i].rate /\ f[i] \in Int
    BY <1>1
  <2> HIDE DEF f
  <2>2. PICK top \in Int : \A i \in 1 .. Len(c) : f[i] <= top
    BY <1>1, <2>1, Bounded
  <2>3. QED
    BY <2>1, <2>2
<1>3. \E top \in Int : \A i \in 1 .. Len(c) : c[i].volume <= top
  <2> DEFINE f == [i \in 1 .. Len(c) |-> c[i].volume]
  <2>1. \A i \in 1 .. Len(c) : f[i] = c[i].volume /\ f[i] \in Int
    BY <1>1
  <2> HIDE DEF f
  <2>2. PICK top \in Int : \A i \in 1 .. Len(c) : f[i] <= top
    BY <1>1, <2>1, Bounded
  <2>3. QED
    BY <2>1, <2>2
<1>4. rates \in SUBSET Nat /\ \E top \in Int : \A x \in rates : x <= top
  BY <1>1, <1>2
<1>5. volumes \in SUBSET Nat /\ \E top \in Int : \A x \in volumes : x <= top
  BY <1>1, <1>3
<1>6. \A i \in E : c[i].rate \in rates /\ c[i].volume \in volumes
  OBVIOUS
<1> HIDE DEF rates, volumes
<1>7. Universe!Largest(rates) \in Nat /\ \A x \in rates : x <= Universe!Largest(rates)
  BY <1>4, LargestIs
<1>8. Universe!Largest(volumes) \in Nat /\ \A x \in volumes : x <= Universe!Largest(volumes)
  BY <1>5, LargestIs
<1>9. QED
  BY <1>6, <1>7, <1>8
     DEF Universe!LargestRate, Universe!LargestVolume, rates, volumes, E

(* What somebody eligible has of the largest. *)
LEMMA NormalizedIs ==
    ASSUME NEW value \in Nat, NEW largest \in Nat, value <= largest
    PROVE  LET n == Universe!Normalized(value, largest)
           IN  /\ n[1] = value
               /\ n[2] = IF largest = 0 THEN 1 ELSE largest
  BY DEF Universe!Normalized

(* The score of somebody eligible. *)
LEMMA ScoreIs ==
    ASSUME NEW c \in Pools, NEW p \in Params
    PROVE  \E R \in Nat \ {0}, V \in Nat \ {0} :
              \A i \in Universe!Eligible(c, p) :
                 Universe!Score(i, c, p) =
                    p.weight_funding * c[i].rate * V + p.weight_liquidity * c[i].volume * R
<1> DEFINE E == Universe!Eligible(c, p)
           rate == Universe!LargestRate(c, p)
           volume == Universe!LargestVolume(c, p)
           R == IF rate = 0 THEN 1 ELSE rate
           V == IF volume = 0 THEN 1 ELSE volume
<1>1. /\ rate \in Nat /\ volume \in Nat
      /\ \A i \in E : c[i].rate <= rate /\ c[i].volume <= volume
  BY LargestAre
<1>2. \A i \in E : c[i].rate \in Nat /\ c[i].volume \in Nat
  BY EligibleAre
<1>3. ASSUME NEW i \in E
      PROVE  Universe!Score(i, c, p) =
                p.weight_funding * c[i].rate * V + p.weight_liquidity * c[i].volume * R
  <2> HIDE DEF E, rate, volume
  <2>1. /\ Universe!Normalized(c[i].rate, rate)[1] = c[i].rate
        /\ Universe!Normalized(c[i].rate, rate)[2] = R
        /\ Universe!Normalized(c[i].volume, volume)[1] = c[i].volume
        /\ Universe!Normalized(c[i].volume, volume)[2] = V
    BY <1>1, <1>2, NormalizedIs
  <2> HIDE DEF R, V
  <2>2. QED
    BY <2>1 DEF Universe!Score, rate, volume
<1>4. R \in Nat \ {0} /\ V \in Nat \ {0}
  <2> HIDE DEF rate, volume
  <2>1. QED
    BY <1>1
<1> HIDE DEF R, V
<1>5. QED
  BY <1>3, <1>4

LEMMA SumOfPositives ==
    ASSUME NEW w \in 0 .. 100, NEW R \in Nat \ {0}, NEW V \in Nat \ {0},
           NEW a \in Nat, NEW b \in Nat, NEW x \in Nat, NEW y \in Nat,
           a > b, x > y
    PROVE  w * a * V + (100 - w) * x * R > w * b * V + (100 - w) * y * R
<1> DEFINE l == 100 - w
           wV == w * V
           lR == l * R
<1>1. w \in Nat /\ l \in Nat /\ (w # 0 \/ l # 0)
  OBVIOUS
<1> HIDE DEF l
<1>2. wV \in Nat /\ lR \in Nat /\ (w # 0 => wV # 0) /\ (l # 0 => lR # 0)
  <2>1. wV \in Nat /\ lR \in Nat
    BY <1>1, ProductNat
  <2>2. (w # 0 => wV # 0) /\ (l # 0 => lR # 0)
    BY <1>1, ProductPositive
  <2>3. QED
    BY <2>1, <2>2
<1>3. /\ w * a * V = wV * a /\ w * b * V = wV * b
      /\ l * x * R = lR * x /\ l * y * R = lR * y
  BY <1>1
<1> HIDE DEF wV, lR
<1>4. wV * b <= wV * a /\ lR * y <= lR * x
  BY <1>2, ProductMonotone
<1>5. wV * b < wV * a \/ lR * y < lR * x
  BY <1>1, <1>2, ProductStrict
<1>6. wV * a \in Int /\ wV * b \in Int /\ lR * x \in Int /\ lR * y \in Int
  BY <1>2
<1> DEFINE wa == wV * a  wb == wV * b  lx == lR * x  ly == lR * y
<1> HIDE DEF wa, wb, lx, ly
<1>7. wa + lx > wb + ly
  BY <1>4, <1>5, <1>6 DEF wa, wb, lx, ly
<1>8. QED
  BY <1>3, <1>7 DEF wa, wb, lx, ly, l

(* Scores are numbers, and somebody with more of both scores higher.        *)
LEMMA ScoresAre ==
    ASSUME NEW c \in Pools, NEW p \in Params
    PROVE  \A i \in Universe!Eligible(c, p) :
              /\ Universe!Score(i, c, p) \in Int
              /\ \A j \in Universe!Eligible(c, p) :
                    c[i].rate > c[j].rate /\ c[i].volume > c[j].volume
                       => Universe!Score(i, c, p) > Universe!Score(j, c, p)
<1> DEFINE E == Universe!Eligible(c, p)
           w == p.weight_funding
<1>1. PICK R \in Nat \ {0}, V \in Nat \ {0} :
         \A i \in E :
            Universe!Score(i, c, p) = w * c[i].rate * V + p.weight_liquidity * c[i].volume * R
  BY ScoreIs
<1>2. \A i \in E : c[i].rate \in Nat /\ c[i].volume \in Nat
  BY EligibleAre
<1>3. w \in 0 .. 100 /\ p.weight_liquidity = 100 - w
  BY SelectorParams
<1> HIDE DEF E, w
<1>4. ASSUME NEW i \in E PROVE Universe!Score(i, c, p) \in Int
  <2>1. w * c[i].rate * V + (100 - w) * c[i].volume * R \in Int
    BY <1>2, <1>3
  <2>2. QED
    BY <1>1, <1>3, <2>1
<1>5. ASSUME NEW i \in E, NEW j \in E, c[i].rate > c[j].rate, c[i].volume > c[j].volume
      PROVE  Universe!Score(i, c, p) > Universe!Score(j, c, p)
  <2>1. w * c[i].rate * V + (100 - w) * c[i].volume * R
           > w * c[j].rate * V + (100 - w) * c[j].volume * R
    BY <1>2, <1>3, <1>5, SumOfPositives
  <2>2. QED
    BY <1>1, <1>3, <2>1
<1>6. QED
  BY <1>4, <1>5 DEF E
(* Who is eligible is in a strict order. *)
LEMMA BeforeIsAnOrder ==
    ASSUME NEW c \in Pools, NEW p \in Params
    PROVE  LET E == Universe!Eligible(c, p)
               before(i, j) == Universe!Before(i, j, c, p)
           IN  /\ \A i, j \in E : i = j \/ before(i, j) \/ before(j, i)
               /\ \A i, j \in E : ~(before(i, j) /\ (before(j, i) \/ i = j))
               /\ \A i, j, k \in E : before(i, j) /\ before(j, k) => before(i, k)
<1> DEFINE E == Universe!Eligible(c, p)
<1>1. \A i \in E : i \in Int /\ Universe!Score(i, c, p) \in Int
  BY EligibleAre, ScoresAre
<1> HIDE DEF E
<1>2. \A i, j \in E : Universe!Before(i, j, c, p)
                         <=> \/ Universe!Score(i, c, p) > Universe!Score(j, c, p)
                             \/ /\ Universe!Score(i, c, p) = Universe!Score(j, c, p)
                                /\ i < j
  BY DEF Universe!Before
<1>3. QED
  BY <1>1, <1>2 DEF E

LEMMA SameCardinality == \A S : Universe!Cardinality(S) = Cardinality(S)
  BY DEF Universe!Cardinality, Cardinality

(* The rank of somebody counts those who come before it. *)
LEMMA RankIs ==
    ASSUME NEW c \in Pools, NEW p \in Params
    PROVE  LET E == Universe!Eligible(c, p)
               rank(i) == Universe!Rank(i, c, p)
           IN  /\ \A i \in E : rank(i) \in Nat \ {0}
               /\ \A i, j \in E : Universe!Before(i, j, c, p) => rank(i) < rank(j)
               /\ \A i, j \in E : rank(i) = rank(j) => i = j
<1> DEFINE E == Universe!Eligible(c, p)
           before(i, j) == Universe!Before(i, j, c, p)
           rank(i) == Universe!Rank(i, c, p)
           Upto(i) == {j \in E : j = i \/ before(j, i)}
<1>1. /\ \A i, j \in E : i = j \/ before(i, j) \/ before(j, i)
      /\ \A i, j \in E : ~(before(i, j) /\ (before(j, i) \/ i = j))
      /\ \A i, j, k \in E : before(i, j) /\ before(j, k) => before(i, k)
  BY BeforeIsAnOrder
<1>2. E \in SUBSET (1 .. Len(c)) /\ Len(c) \in Nat
  BY EligibleAre
<1>3. IsFiniteSet(E)
  <2>1. IsFiniteSet(1 .. Len(c))
    BY <1>2, FS_Interval
  <2>2. QED
    BY <1>2, <2>1, FS_Subset
<1>4. \A i : rank(i) = Cardinality(Upto(i))
  BY SameCardinality DEF Universe!Rank
<1> HIDE DEF E, before, rank
<1>5. \A i \in E : IsFiniteSet(Upto(i))
  BY <1>3, FS_Subset
<1>6. ASSUME NEW i \in E PROVE rank(i) \in Nat \ {0}
  <2>1. i \in Upto(i)
    OBVIOUS
  <2>2. Cardinality(Upto(i)) \in Nat
    BY <1>5, FS_CardinalityType
  <2>3. Cardinality(Upto(i)) # 0
    BY <1>5, <2>1, FS_EmptySet
  <2>4. QED
    BY <1>4, <2>2, <2>3
<1>7. ASSUME NEW i \in E, NEW j \in E, before(i, j) PROVE rank(i) < rank(j)
  <2>1. Upto(i) \in SUBSET Upto(j)
    BY <1>1, <1>7
  <2>2. j \in Upto(j) /\ j \notin Upto(i)
    BY <1>1, <1>7
  <2>3. /\ Cardinality(Upto(i)) <= Cardinality(Upto(j))
        /\ Cardinality(Upto(i)) # Cardinality(Upto(j))
    <3> DEFINE S == Upto(j)  T == Upto(i)
    <3>1. IsFiniteSet(S) /\ T \in SUBSET S /\ S # T
      BY <1>5, <2>1, <2>2
    <3> HIDE DEF S, T
    <3>2. Cardinality(T) <= Cardinality(S) /\ Cardinality(S) # Cardinality(T)
      BY <3>1, FS_Subset
    <3>3. QED
      BY <3>2 DEF S, T
  <2>4. rank(i) \in Nat /\ rank(j) \in Nat
    BY <1>6
  <2>5. QED
    BY <1>4, <2>3, <2>4
<1>8. ASSUME NEW i \in E, NEW j \in E, rank(i) = rank(j) PROVE i = j
  <2>1. rank(i) \in Nat /\ rank(j) \in Nat
    BY <1>6
  <2>2. ~before(i, j) /\ ~before(j, i)
    BY <1>7, <1>8, <2>1
  <2>3. QED
    BY <1>1, <2>2
<1>9. QED
  BY <1>6, <1>7, <1>8 DEF E, rank, before

(* The selection is that of a pool for some parameters. *)
SelectionInv ==
    selection = None \/
        /\ pool \in Pools /\ params \in Params
        /\ selection = Universe!SelectUniverse(pool, params)

LEMMA InitSelectionInv == Universe!Init => SelectionInv
  BY DEF Universe!Init, SelectionInv

LEMMA NextSelectionInv ==
    SelectionInv /\ [Universe!Next]_(Universe!vars) => SelectionInv'
  BY DEF SelectionInv, Universe!Next, Universe!Select, Universe!vars

(* A name stands for one place. *)
LEMMA NamedOnce ==
    ASSUME NEW c \in Pools, NEW S \in SUBSET (1 .. Len(c)), NEW i \in 1 .. Len(c)
    PROVE  c[i].name \in Universe!Named(S, c) <=> i \in S
<1>1. \A j \in 1 .. Len(c) : c[i].name = c[j].name => i = j
  BY SelectorParams
<1>2. i \in S => c[i].name \in Universe!Named(S, c)
  BY DEF Universe!Named
<1>3. ASSUME c[i].name \in Universe!Named(S, c) PROVE i \in S
  <2>1. PICK j \in S : c[i].name = c[j].name
    BY <1>3 DEF Universe!Named
  <2>2. i = j
    BY <1>1, <2>1
  <2>3. QED
    BY <2>2
<1>4. QED
  BY <1>2, <1>3

LEMMA AnchorsAreSelected == SelectionInv => Universe!AnchorsSelected
<1> SUFFICES ASSUME SelectionInv, selection # None PROVE Universe!AnchorsSelected
  BY DEF Universe!AnchorsSelected
<1> DEFINE c == pool
           p == params
           E == Universe!Eligible(c, p)
           Top == Universe!Top(c, p)
           Next1 == Universe!NextBest(c, p)
           everybody == Universe!Everybody(c)
           top == Universe!Named(Top, c)
           anchors == p.anchors \cap everybody
           eligible == Universe!Named(E, c)
           next == Universe!Named(Next1, c)
<1>1. /\ c \in Pools /\ p \in Params
      /\ selection.selected = top \cup anchors
      /\ selection.excluded = ((everybody \ eligible) \cup next) \ (anchors \ top)
  BY DEF SelectionInv, Universe!SelectUniverse, Universe!Anchors
<1>2. /\ E \in SUBSET (1 .. Len(c)) /\ Top \in SUBSET E /\ Next1 \in SUBSET E
  BY <1>1, EligibleAre DEF Universe!Top, Universe!NextBest
<1>3. Top \cap Next1 = {}
  <2>1. \A i \in E : Universe!Rank(i, c, p) \in Nat
    BY <1>1, RankIs
  <2>2. p.max_active \in Nat
    BY <1>1, SelectorParams
  <2>3. QED
    BY <2>1, <2>2 DEF Universe!Top, Universe!NextBest
<1> HIDE DEF E, Top, Next1, c, p
<1>4. top \subseteq eligible
  BY <1>2 DEF Universe!Named
<1>5. top \cap next = {}
  <2>1. SUFFICES ASSUME NEW n \in top, n \in next PROVE FALSE
    OBVIOUS
  <2>2. PICK i \in Top : c[i].name = n
    BY DEF Universe!Named
  <2>3. i \in Next1
    BY <1>1, <1>2, <2>1, <2>2, NamedOnce
  <2>4. QED
    BY <1>3, <2>3
<1> HIDE DEF top, next, eligible, everybody
<1>6. selection.selected \cap selection.excluded = {}
  BY <1>1, <1>4, <1>5
<1>7. QED
  BY <1>1, <1>6 DEF Universe!AnchorsSelected, everybody, c, p

LEMMA BestAreSelected == SelectionInv => Universe!BestSelected
<1> SUFFICES ASSUME SelectionInv, selection # None PROVE Universe!BestSelected
  BY DEF Universe!BestSelected
<1> DEFINE c == pool
           p == params
           E == Universe!Eligible(c, p)
           Top == Universe!Top(c, p)
           rank(i) == Universe!Rank(i, c, p)
           top == Universe!Named(Top, c)
           anchors == p.anchors \cap Universe!Everybody(c)
           best == selection.selected \ p.anchors
<1>1. /\ c \in Pools /\ p \in Params
      /\ selection.selected = top \cup anchors /\ selection.top = top
  BY DEF SelectionInv, Universe!SelectUniverse, Universe!Anchors
<1>2. /\ E \in SUBSET (1 .. Len(c)) /\ Len(c) \in Nat
      /\ Top = {i \in E : rank(i) <= p.max_active}
  BY <1>1, EligibleAre DEF Universe!Top
<1>3. p.max_active \in Nat
  BY <1>1, SelectorParams
<1>4. /\ \A i \in E : rank(i) \in Nat \ {0}
      /\ \A i, j \in E : Universe!Before(i, j, c, p) => rank(i) < rank(j)
      /\ \A i, j \in E : rank(i) = rank(j) => i = j
  BY <1>1, RankIs
<1>5. Universe!Cardinality(best) <= p.max_active
  <2> DEFINE place(n) == CHOOSE i \in Top : c[i].name = n
             f == [n \in best |-> rank(place(n))]
             ranks == 1 .. p.max_active
  <2>1. \A n \in best : \E i \in Top : c[i].name = n
    BY <1>1 DEF Universe!Named
  <2> HIDE DEF Top, best, c, p, rank
  <2>2. \A n \in best : place(n) \in Top /\ c[place(n)].name = n
    BY <2>1
  <2> HIDE DEF place
  <2>3. \A n \in best : rank(place(n)) \in ranks
    BY <1>2, <1>3, <1>4, <2>2
  <2>4. \A n, m \in best : rank(place(n)) = rank(place(m)) => n = m
    BY <1>2, <1>4, <2>2
  <2>5. f \in Injection(best, ranks)
    BY <2>3, <2>4 DEF Injection, IsInjective
  <2>6. IsFiniteSet(ranks) /\ Cardinality(ranks) = p.max_active
    BY <1>3, FS_Interval
  <2> HIDE DEF f, ranks
  <2>7. Cardinality(best) <= Cardinality(ranks)
    BY <2>5, <2>6, FS_Injection
  <2>8. QED
    BY <2>6, <2>7, SameCardinality
<1>6. ASSUME NEW i \in 1 .. Len(c), NEW j \in 1 .. Len(c),
             Universe!Exclusion(c[i], p) = "none",
             c[i].name \notin selection.selected, c[j].name \in selection.top,
             c[i].rate > c[j].rate, c[i].volume > c[j].volume
      PROVE  FALSE
  <2>1. i \in E
    BY <1>6 DEF Universe!Eligible
  <2> HIDE DEF rank, E
  <2>2. Top \in SUBSET (1 .. Len(c))
    BY <1>2
  <2> HIDE DEF Top
  <2>3. i \notin Top /\ j \in Top
    BY <1>1, <1>6, <2>2, NamedOnce
  <2>4. j \in E /\ rank(j) <= p.max_active /\ ~(rank(i) <= p.max_active)
    BY <1>2, <2>1, <2>3
  <2>5. Universe!Score(i, c, p) > Universe!Score(j, c, p)
    BY <1>1, <1>6, <2>1, <2>4, ScoresAre DEF E
  <2>6. Universe!Before(i, j, c, p)
    BY <2>5 DEF Universe!Before
  <2>7. rank(i) < rank(j) /\ rank(i) \in Nat /\ rank(j) \in Nat
    BY <1>4, <2>1, <2>4, <2>6
  <2>8. QED
    BY <1>3, <2>4, <2>7
<1>7. QED
  BY <1>5, <1>6 DEF Universe!BestSelected
-----------------------------------------------------------------------------
(* The parts together. *)

everything == <<part, vars, reading, yield, choice, storage>>

MCInv ==
    /\ StorageInv /\ SentIsPast
    /\ YieldInv
    /\ Payloads!ReadAsGiven
    /\ SelectionInv

LEMMA InitMCInv == MCInit => MCInv
  BY InitStorageInv, InitSentIsPast, InitYieldInv, InitReadAsGiven, InitSelectionInv
     DEF MCInit, MCInv

(* Every step is a step of one part, and leaves the others alone.           *)
LEMMA NextParts ==
    ASSUME [MCNext]_everything
    PROVE  /\ [Storage!Next]_(Storage!vars) /\ [Yield!Next]_(Yield!vars)
           /\ [Payloads!Next]_(Payloads!vars) /\ [Universe!Next]_(Universe!vars)
<1> USE DEF Storage!vars, Yield!vars, Payloads!vars, Universe!vars,
            storage, yield, reading, choice
<1>1. CASE UNCHANGED <<reading, yield, choice, storage>>
  BY <1>1
<1>2. CASE Payloads!Next /\ UNCHANGED <<yield, choice, storage>>
  BY <1>2
<1>3. CASE Yield!Next /\ UNCHANGED <<reading, choice, storage>>
  BY <1>3
<1>4. CASE Universe!Next /\ UNCHANGED <<reading, yield, storage>>
  BY <1>4
<1>5. CASE Storage!Next /\ UNCHANGED <<reading, yield, choice>>
  BY <1>5
<1>6. QED
  BY <1>1, <1>2, <1>3, <1>4, <1>5 DEF MCNext, everything

LEMMA NextMCInv == MCInv /\ [MCNext]_everything => MCInv'
<1> SUFFICES ASSUME MCInv, [MCNext]_everything PROVE MCInv'
  OBVIOUS
<1>1. /\ [Storage!Next]_(Storage!vars) /\ [Yield!Next]_(Yield!vars)
      /\ [Payloads!Next]_(Payloads!vars) /\ [Universe!Next]_(Universe!vars)
  BY NextParts
<1>2. StorageInv' /\ SentIsPast'
  BY <1>1, NextStorageInv, NextSentIsPast DEF MCInv
<1>3. YieldInv'
  BY <1>1, NextYieldInv DEF MCInv
<1>4. Payloads!ReadAsGiven'
  BY <1>1, NextReadAsGiven DEF MCInv
<1>5. SelectionInv'
  BY <1>1, NextSelectionInv DEF MCInv
<1>6. QED
  BY <1>2, <1>3, <1>4, <1>5 DEF MCInv

LEMMA AlwaysMCInv == MCSpec => []MCInv
  BY InitMCInv, NextMCInv, PTL DEF MCSpec, everything

(* A row whose save returned is on disk until a DELETE takes it, whatever   *)
(* statement fails and wherever the process dies (Database.execute).        *)
THEOREM SavesAreDurable == MCSpec => []SavedIsDurable
<1>1. MCInv => SavedIsDurable
  BY DEF MCInv, StorageInv, SavedIsSeen, SavedIsDurable, Storage!SavedIsDurable
<1>2. QED
  BY <1>1, AlwaysMCInv, PTL

(* The stored pool is of one refresh, for any candidates and whatever       *)
(* statement of a refresh fails (replace_active).                           *)
THEOREM PoolIsOfOneRefresh == MCSpec => []PoolOfOneRefresh
<1>1. MCInv => PoolOfOneRefresh
  BY DEF MCInv, StorageInv, PoolOK, OfOneRefresh, PoolOfOneRefresh,
         Storage!PoolOfOneRefresh
<1>2. QED
  BY <1>1, AlwaysMCInv, PTL

(* An alert saved as sent is found as long as its window lasts, for every   *)
(* retention and every window within it (was_recent_alert).                 *)
THEOREM RecentAlertsFound == MCSpec => []RecentAlertFound
<1>1. MCInv => RecentAlertFound
  BY RecentFound DEF MCInv, RecentAlertFound
<1>2. QED
  BY <1>1, AlwaysMCInv, PTL

(* A yield leaves no cost out, spreads it over the right hours and is never *)
(* rosier for a year than for the horizon, for every position with accepted *)
(* settings (monitor/calculators).                                          *)
THEOREM YieldsAreSound == MCSpec => []YieldSound
<1>1. MCInv => YieldSound
  BY YieldIsSound DEF MCInv, YieldSound
<1>2. QED
  BY <1>1, AlwaysMCInv, PTL

(* A quote is stamped with an instant in milliseconds, and a rate is one    *)
(* the exchange gave as such, for all times and rates                       *)
(* (exchanges/normalizer.py).                                               *)
THEOREM PayloadsAreReadAsGiven == MCSpec => []ReadAsGiven
<1>1. MCInv => ReadAsGiven
  BY DEF MCInv, ReadAsGiven
<1>2. QED
  BY <1>1, AlwaysMCInv, PTL

(* The pool is the anchors and the best of the others, and no larger than   *)
(* its limit but for the anchors, for every list of candidates, every       *)
(* filter and all weights (select_universe).                                *)
THEOREM SelectionsAreSound == MCSpec => []SelectionSound
<1>1. MCInv => SelectionSound
  BY AnchorsAreSelected, BestAreSelected
     DEF MCInv, SelectionSound, Universe!SelectionSound
<1>2. QED
  BY <1>1, AlwaysMCInv, PTL
=============================================================================
