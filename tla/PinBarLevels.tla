---------------------------- MODULE PinBarLevels ----------------------------
(***************************************************************************)
(* The detector of strong price levels, GerchikLevelDetector, and the       *)
(* copies of it that the pin-bar scripts carry (calculate_atr ..            *)
(* detect_levels_on_window): the swing highs and lows of a window of        *)
(* candles are clustered into zones and the zones scored.  A window is a    *)
(* sequence of candles [o, h, l, c] with whole prices; scores and           *)
(* percentages are in hundredths, rounded down.                             *)
(***************************************************************************)
EXTENDS Integers, Sequences, FiniteSets

CONSTANTS
    LEFT_BARS, RIGHT_BARS, ATR_PERIOD,
    SETTLE,             \* the bars a window needs beyond these (10)
    COOLDOWN,           \* bars between touches (3)
    REACTION,           \* bars a reaction is looked for in (5)
    IMPULSE,            \* bars an impulse is looked for in (20)
    TouchedOnly         \* whether only a touch can be a false breakout

MIN_TOUCHES == 2
MIN_FALSE_BREAKOUTS == 1
SCORE_THRESHOLD == 5000

Positions(w) == 1 .. Len(w)
Distance(x, y) == IF x < y THEN y - x ELSE x - y
AtMost(x, limit) == IF x < limit THEN x ELSE limit
Highest(S) == CHOOSE x \in S : \A y \in S : y <= x
Lowest(S) == CHOOSE x \in S : \A y \in S : x <= y

(* The sum of f over the bars first .. last that count. *)
SumOver(first, last, Counts(_), f(_)) ==
    LET sum[i \in first - 1 .. last] ==
            IF i < first THEN 0
            ELSE sum[i - 1] + (IF Counts(i) THEN f(i) ELSE 0)
    IN  sum[last]

Sorted(S, Before(_, _)) ==
    [k \in 1 .. Cardinality(S) |->
        CHOOSE x \in S : Cardinality({y \in S : Before(y, x)}) = k - 1]

(* The true range of bar i: its range, or the gap from the last close.      *)
TrueRange(w, i) ==
    LET range == w[i].h - w[i].l
    IN  IF i = 1 THEN range
        ELSE Highest({range, Distance(w[i].h, w[i - 1].c),
                      Distance(w[i].l, w[i - 1].c)})

(* calculate_atr(...)[-1], an exact fraction <<numerator, denominator>>:    *)
(* the mean of the first true ranges, smoothed with each that follows.      *)
CalculateAtr(w) ==
    LET p == ATR_PERIOD
        atr[i \in p .. Len(w)] ==
            IF i = p THEN <<SumOver(1, p, LAMBDA j : TRUE, LAMBDA j : TrueRange(w, j)), p>>
            ELSE LET last == atr[i - 1]
                 IN  <<last[1] * (p - 1) + TrueRange(w, i) * last[2], last[2] * p>>
    IN  atr[Len(w)]

(* find_pivots: strictly above, or below, all its neighbours. *)
FindPivots(w) ==
    LET Inner == LEFT_BARS + 1 .. Len(w) - RIGHT_BARS
        Near(i) == (i - LEFT_BARS .. i + RIGHT_BARS) \ {i}
    IN  {[index |-> i, price |-> w[i].h, type |-> "high"] :
             i \in {k \in Inner : \A j \in Near(k) : w[j].h < w[k].h}}
        \cup
        {[index |-> i, price |-> w[i].l, type |-> "low"] :
             i \in {k \in Inner : \A j \in Near(k) : w[j].l > w[k].l}}

(* At most 1.5 ATR (CLUSTER_ATR_MULT) apart. *)
Neighbours(p, q, atr) ==
    Distance(p.price, q.price) * 2 * atr[2] <= 3 * atr[1]

(* The order the pivots are found in. *)
ByTime(p, q) ==
    \/ p.index < q.index
    \/ p.index = q.index /\ p.type = "high" /\ q.type = "low"

ByPrice(p, q) ==
    \/ p.price < q.price
    \/ p.price = q.price /\ ByTime(p, q)

(* cluster_pivots: by price, cut wherever one is too far from the next; a   *)
(* cluster has at least two.                                                *)
ClusterPivots(pivots, atr) ==
    LET sorted == Sorted(pivots, ByPrice)
        cuts == {k \in 2 .. Len(sorted) :
                     ~Neighbours(sorted[k - 1], sorted[k], atr)}
        Together(j, k) == \A cut \in cuts : j < cut <=> k < cut
        Cluster(k) == {sorted[j] : j \in {n \in DOMAIN sorted : Together(n, k)}}
    IN  {cluster \in {Cluster(k) : k \in DOMAIN sorted} :
             Cardinality(cluster) >= 2}

-----------------------------------------------------------------------------
InZone(w, zone) ==
    {i \in Positions(w) : w[i].h >= zone.lower /\ w[i].l <= zone.upper}

(* The bars of the zone that count: COOLDOWN after the last that counted.   *)
Touches(w, zone) ==
    LET counted[i \in 0 .. Len(w)] ==
            IF i = 0 THEN {}
            ELSE LET before == counted[i - 1]
                 IN  IF /\ i \in InZone(w, zone)
                        /\ \A j \in before : i - j > COOLDOWN
                     THEN before \cup {i} ELSE before
    IN  counted[Len(w)]

FalseBreakouts(w, zone, bars) ==
    {i \in bars : \/ w[i].h > zone.upper /\ w[i].c < zone.upper
                  \/ w[i].l < zone.lower /\ w[i].c > zone.lower}

(* How far the price moved away after a touch; center2 is twice the center. *)
Reaction(w, i, center2) ==
    LET after == i + 1 .. i + REACTION
        away == IF 2 * w[i].c <= center2
                   THEN Highest({w[j].h : j \in after}) - w[i].c
                   ELSE w[i].c - Lowest({w[j].l : j \in after})
    IN  (away * 10000) \div w[i].c

(* The weight of a zone's digits: two of them are kept. *)
RoundStep(price) ==
    LET Steps == {s \in {1, 10, 100, 1000, 10000} : price \div s \in 10 .. 99}
    IN  IF Steps = {} THEN 0 ELSE Highest(Steps)

(* Twice the way to the nearest round number. *)
ToRound(center2, step) ==
    LET rest == center2 % (2 * step) IN AtMost(rest, 2 * step - rest)

RoundNumberBoost(center2) ==
    LET step == RoundStep(center2 \div 2)
        way == ToRound(center2, step)
    IN  CASE step = 0 -> 0
          [] step > 0 /\ way * 200 < center2 -> 15
          [] step > 0 /\ way * 200 >= center2 /\ way * 200 < 3 * center2 -> 5
          [] OTHER -> 0

ImpulseBefore(w, first, center2) ==
    IF first - 1 <= IMPULSE THEN 0
    ELSE (Distance(center2, 2 * w[first - IMPULSE].c) * 5000)
             \div w[first - IMPULSE].c

ZoneOf(cluster) ==
    [lower |-> Lowest({p.price : p \in cluster}),
     upper |-> Highest({p.price : p \in cluster})]

(* analyze_zone. *)
AnalyzeZone(cluster, w) ==
    LET zone == ZoneOf(cluster)
        center2 == zone.lower + zone.upper
        touches == Touches(w, zone)
        reacting == {i \in touches : i + REACTION <= Len(w)}
    IN  [lower |-> zone.lower, upper |-> zone.upper,
         touches |-> Cardinality(touches),
         false_breakouts |-> Cardinality(FalseBreakouts(w, zone,
             IF TouchedOnly THEN touches ELSE InZone(w, zone))),
         is_mirror |-> Cardinality({p.type : p \in cluster}) > 1,
         reaction |-> SumOver(1, Len(w), LAMBDA i : i \in reacting,
                              LAMBDA i : Reaction(w, i, center2)),
         boost |-> RoundNumberBoost(center2),
         impulse |->
             ImpulseBefore(w, Lowest({p.index : p \in cluster}), center2)]

(* calculate_score. *)
CalculateScore(m) ==
    AtMost(m.touches * 600, 3000) + AtMost(m.false_breakouts * 1250, 2500)
        + (IF m.is_mirror THEN 1500 ELSE 0) + AtMost(m.reaction * 2, 1500)
        + m.boost * 100
        + (CASE m.impulse > 1000 -> 1000
             [] m.impulse \in 501 .. 1000 -> 500
             [] OTHER -> 0)

Scored(m) == [lower |-> m.lower, upper |-> m.upper, score |-> CalculateScore(m)]

(* The best first, equals in the order of their price. *)
Better(x, y) ==
    \/ x.score > y.score
    \/ x.score = y.score /\ x.lower < y.lower

Clusters(w) ==
    IF Len(w) < ATR_PERIOD + LEFT_BARS + RIGHT_BARS + SETTLE THEN {}
    ELSE IF CalculateAtr(w)[1] <= 0 THEN {}
    ELSE ClusterPivots(FindPivots(w), CalculateAtr(w))

(* detect_levels, detect_levels_on_window, from the clusters. *)
StrongLevels(clusters, w) ==
    LET zones == {AnalyzeZone(cluster, w) : cluster \in clusters}
        strong == {m \in zones : /\ m.touches >= MIN_TOUCHES
                                 /\ m.false_breakouts >= MIN_FALSE_BREAKOUTS
                                 /\ CalculateScore(m) >= SCORE_THRESHOLD}
    IN  Sorted({Scored(m) : m \in strong}, Better)

-----------------------------------------------------------------------------
(* GerchikLevelDetector, which the others are copied from: what differs is  *)
(* the average range, how touches are counted and the thresholds.  Its      *)
(* DBSCAN with min_samples=2 chains neighbours by price like ClusterPivots. *)
GERCHIK_THRESHOLD == 4000

(* _calculate_atr: the mean of the last true ranges.                        *)
GerchikAtr(w) ==
    <<SumOver(Len(w) - ATR_PERIOD + 1, Len(w), LAMBDA i : TRUE,
                     LAMBDA i : TrueRange(w, i)), ATR_PERIOD>>

(* Mutant: the pause may be a bar shorter. *)
VisitsAfterTwo(w, zone) ==
    LET inside == InZone(w, zone)
    IN  {i \in inside : (i - (COOLDOWN - 1) .. i - 1) \cap inside = {}}

(* A touch begins when the price was outside of the zone for COOLDOWN bars. *)
Visits(w, zone) ==
    LET inside == InZone(w, zone)
    IN  {i \in inside : (i - COOLDOWN .. i - 1) \cap inside = {}}

(* How far the price moved away in the bars there are after a touch. *)
GerchikReaction(w, i, center2) ==
    LET after == i + 1 .. AtMost(i + REACTION, Len(w))
        away == IF 2 * w[i].c <= center2
                   THEN Highest({w[j].h : j \in after}) - w[i].c
                   ELSE w[i].c - Lowest({w[j].l : j \in after})
    IN  IF after = {} THEN 0 ELSE (away * 10000) \div w[i].c

(* _analyze_zone; a price of one digit is always near a tenth. *)
GerchikZone(cluster, w) ==
    LET zone == ZoneOf(cluster)
        center2 == zone.lower + zone.upper
        visits == Visits(w, zone)
    IN  [lower |-> zone.lower, upper |-> zone.upper,
         touches |-> Cardinality(visits),
         false_breakouts |-> Cardinality(FalseBreakouts(w, zone, visits)),
         is_mirror |-> Cardinality({p.type : p \in cluster}) > 1,
         reaction |-> SumOver(1, Len(w), LAMBDA i : i \in visits,
                                     LAMBDA i : GerchikReaction(w, i, center2)),
         boost |-> IF center2 < 20 THEN 15 ELSE RoundNumberBoost(center2),
         impulse |-> ImpulseBefore(w,
                         Lowest({p.index : p \in cluster}), center2)]

(* detect; a window without a pivot raises a KeyError, which is no result.  *)
GerchikLevels(w) ==
    LET pivots == FindPivots(w)
        zones == {GerchikZone(cluster, w) :
                     cluster \in ClusterPivots(pivots, GerchikAtr(w))}
        strong == {m \in zones : /\ m.touches >= MIN_TOUCHES
                                 /\ CalculateScore(m) >= GERCHIK_THRESHOLD}
    IN  IF pivots = {} THEN << >>
        ELSE Sorted({Scored(m) : m \in strong}, Better)

-----------------------------------------------------------------------------
(* The pivots of a cluster are those that a chain of neighbours joins,      *)
(* whatever their order in time, and of two clusters none are neighbours: a *)
(* zone is never cut in two (cluster_pivots).                               *)
ClustersAreChains(found, w) ==
    LET atr == CalculateAtr(w)
        Below(cluster, p) == {q \in cluster : q.price < p.price}
    IN  /\ \A cluster \in found : \A p \in cluster :
              Below(cluster, p) # {} =>
                  \E q \in Below(cluster, p) : Neighbours(p, q, atr)
        /\ \A one, other \in found : one # other =>
              \A p \in one, q \in other : ~Neighbours(p, q, atr)

(* Whatever the detector counts as a touch the copies in the pin-bar        *)
(* scripts count too: they only add touches of a price that stays in the    *)
(* zone (_analyze_zone, analyze_zone).                                       *)
VisitsAreTouches(w) ==
    \A cluster \in ClusterPivots(FindPivots(w), GerchikAtr(w)) :
        Visits(w, ZoneOf(cluster)) \subseteq
            Touches(w, ZoneOf(cluster))
=============================================================================
