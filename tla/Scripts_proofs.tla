--------------------------- MODULE Scripts_proofs ---------------------------
(***************************************************************************)
(* Proofs about the scripts that are not about pin bars, for every value of *)
(* the parameters and whatever data they read.                              *)
(***************************************************************************)
EXTENDS Scripts, Extrema, FiniteSetTheorems

-----------------------------------------------------------------------------
(* The selection of pairs.  What is known of a run: the files, the session  *)
(* and the pairs that are left.                                             *)
FilesInv ==
    /\ Pairs!WhitelistIsLatest /\ latest # {}
    /\ phase \in {"writing", "written"} => pairs # {}
    /\ phase = "writing" => temp.of = pairs
    /\ phase = "written" => temp = Pairs!Whole(pairs)

PairInv ==
    /\ FilesInv
    /\ phase = "idle" => session # "open" /\ pairs = {}
    /\ phase # "idle" =>
          market \in Markets \cup LaterMarkets /\ pairs \subseteq Pairs!Listed
    /\ phase = "candidates" => \A p \in pairs : Pairs!IsCandidate(p)
    /\ phase = "selected" =>
          Pairs!PairwiseUncorrelated /\ Pairs!NothingWithoutHistory

(* The market of a run. *)
LEMMA MarketIs ==
    ASSUME PairInv, phase # "idle"
    PROVE  /\ market.pairs \in Seq(Pairs!Listed) /\ Len(market.pairs) \in Nat
           /\ \A k \in 1 .. Len(market.pairs) : market.pairs[k] \in Pairs!Listed
           /\ \A p \in Pairs!Listed : \E k \in 1 .. Len(market.pairs) :
                 market.pairs[k] = p
           /\ \A i, j \in 1 .. Len(market.pairs) :
                 market.pairs[i] = market.pairs[j] => i = j
           /\ \A p \in pairs : Pairs!Vr(p) \in Int
<1>1. market \in Markets \cup LaterMarkets /\ pairs \subseteq Pairs!Listed
  BY DEF PairInv
<1>2. /\ market.pairs \in Seq(Pairs!Listed)
      /\ market.vr \in [Pairs!Listed -> Int]
      /\ \A i, j \in 1 .. Len(market.pairs) :
            market.pairs[i] = market.pairs[j] => i = j
  BY <1>1, SelectionParams, Zenon DEF Pairs!Listed
<1>3. DOMAIN market.pairs = 1 .. Len(market.pairs)
  BY <1>2
<1>4. \A p \in Pairs!Listed : \E k \in 1 .. Len(market.pairs) : market.pairs[k] = p
  BY <1>3, Zenon DEF Pairs!Listed
<1>5. \A p \in pairs : Pairs!Vr(p) \in Int
  BY <1>1, <1>2 DEF Pairs!Vr, Pairs!VarianceRatio
<1>6. QED
  BY <1>2, <1>3, <1>4, <1>5

(* What may be rejected: never the most trending of all. *)
Best(p) == p \in pairs /\ \A q \in pairs : Pairs!Vr(q) <= Pairs!Vr(p)
Rejections == {out \in SUBSET pairs : pairs # {} => \E p \in pairs \ out : Best(p)}

(* Of two pairs both may stay when they are not correlated. *)
Settled(p, q, out) ==
    {p, q} \subseteq pairs /\ Pairs!Correlated(p, q) => {p, q} \cap out # {}

LEMMA RejectKeeps ==
    ASSUME PairInv, phase # "idle", NEW p, NEW q, p # q, NEW out \in Rejections
    PROVE  /\ Pairs!Reject(p, q, out) \in Rejections
           /\ out \subseteq Pairs!Reject(p, q, out)
           /\ Settled(p, q, Pairs!Reject(p, q, out))
<1>1. CASE \/ ~({p, q} \subseteq pairs) \/ {p, q} \cap out # {}
           \/ ~Pairs!Correlated(p, q)
  BY <1>1 DEF Pairs!Reject, Settled
<1>2. CASE /\ {p, q} \subseteq pairs /\ {p, q} \cap out = {}
           /\ Pairs!Correlated(p, q)
  <2>1. PICK worse, other :
           /\ Pairs!Reject(p, q, out) = out \cup {worse}
           /\ worse \in {p, q} /\ other \in {p, q} /\ worse # other
           /\ Pairs!Vr(worse) <= Pairs!Vr(other)
    <3>1. Pairs!Vr(p) \in Int /\ Pairs!Vr(q) \in Int
      BY <1>2, MarketIs
    <3>2. CASE Pairs!Vr(p) < Pairs!Vr(q)
      BY <1>2, <3>1, <3>2 DEF Pairs!Reject
    <3>3. CASE ~(Pairs!Vr(p) < Pairs!Vr(q))
      <4>1. Pairs!Reject(p, q, out) = out \cup {q}
        BY <1>2, <3>3 DEF Pairs!Reject
      <4>2. QED
        BY <3>1, <3>3, <4>1
    <3>4. QED
      BY <3>2, <3>3
  <2>2. PICK best \in pairs \ out : Best(best)
    BY <1>2 DEF Rejections
  <2>3. \E b \in pairs \ (out \cup {worse}) : Best(b)
    <3>1. CASE best # worse
      BY <2>2, <3>1
    <3>2. CASE best = worse
      <4>1. other \in pairs \ (out \cup {worse})
        BY <1>2, <2>1
      <4>2. \A c \in pairs : Pairs!Vr(c) \in Int
        BY MarketIs
      <4>3. Best(other)
        BY <1>2, <2>1, <2>2, <3>2, <4>2 DEF Best
      <4>4. QED
        BY <4>1, <4>3
    <3>3. QED
      BY <3>1, <3>2
  <2>4. out \cup {worse} \in SUBSET pairs
    BY <1>2, <2>1 DEF Rejections
  <2>5. QED
    BY <2>1, <2>3, <2>4 DEF Rejections, Settled
<1>3. QED
  BY <1>1, <1>2

LEMMA StaysSettled ==
    ASSUME NEW p, NEW q, NEW out, NEW more, out \subseteq more, Settled(p, q, out)
    PROVE  Settled(p, q, more)
  BY DEF Settled

(* A row of comparisons, and all of them, from the first pair on. *)
IsRow(f, i, out) ==
    f = [j \in 0 .. Len(market.pairs) |->
            IF j = 0 THEN out
            ELSE IF j <= i THEN f[j - 1]
            ELSE Pairs!Reject(market.pairs[i], market.pairs[j], f[j - 1])]

LEMMA RowKeeps ==
    ASSUME PairInv, phase # "idle", NEW i \in 1 .. Len(market.pairs),
           NEW out \in Rejections
    PROVE  /\ Pairs!Row(i, out) \in Rejections
           /\ out \subseteq Pairs!Row(i, out)
           /\ \A j \in i + 1 .. Len(market.pairs) :
                 Settled(market.pairs[i], market.pairs[j], Pairs!Row(i, out))
<1> DEFINE n == Len(market.pairs)
           Step(j, x) == IF j <= i THEN x
                         ELSE Pairs!Reject(market.pairs[i], market.pairs[j], x)
           g == [j \in 1 .. n |-> [x \in Rejections |-> Step(j, x)]]
<1>1. n \in Nat /\ \A j, k \in 1 .. n : market.pairs[j] = market.pairs[k] => j = k
  BY MarketIs
<1>2. ASSUME NEW j \in 1 .. n, NEW x \in Rejections
      PROVE  /\ Step(j, x) \in Rejections /\ x \subseteq Step(j, x)
             /\ j > i => Settled(market.pairs[i], market.pairs[j], Step(j, x))
  <2>1. CASE j <= i
    BY <2>1
  <2>2. CASE ~(j <= i)
    <3>1. market.pairs[i] # market.pairs[j]
      BY <1>1, <2>2
    <3>2. Step(j, x) = Pairs!Reject(market.pairs[i], market.pairs[j], x)
      BY <2>2
    <3>3. QED
      BY <3>1, <3>2, RejectKeeps
  <2>3. QED
    BY <2>1, <2>2
<1> HIDE DEF Step
<1>3. \A j \in 1 .. n : \A x \in Rejections : g[j][x] = Step(j, x)
  OBVIOUS
<1>4. \A j \in 1 .. n : \A x \in Rejections : g[j][x] \in Rejections
  BY <1>2, <1>3
<1> HIDE DEF g
<1>5. PICK f : IsLoop(f, n, out, g) /\ AllIn(f, n, Rejections)
  <2>1. n \in Nat
    BY <1>1
  <2> HIDE DEF n
  <2>2. QED
    BY <1>4, <2>1, LoopExists, Zenon
<1>6. IsRow(f, i, out)
  <2>1. ASSUME NEW k \in 0 .. n
        PROVE  (IF k = 0 THEN out ELSE g[k][f[k - 1]])
                 = (IF k = 0 THEN out
                    ELSE IF k <= i THEN f[k - 1]
                    ELSE Pairs!Reject(market.pairs[i], market.pairs[k], f[k - 1]))
    <3>1. CASE k = 0
      BY <3>1
    <3>2. CASE k # 0
      <4>1. k \in 1 .. n /\ k - 1 \in 0 .. n
        BY <1>1, <3>2
      <4>2. g[k][f[k - 1]] = Step(k, f[k - 1])
        BY <1>3, <1>5, <4>1 DEF AllIn
      <4>3. QED
        BY <3>2, <4>2 DEF Step
    <3>3. QED
      BY <3>1, <3>2
  <2>2. QED
    BY <1>5, <2>1, Zenon DEF IsRow, IsLoop
<1> DEFINE h == CHOOSE f2 : IsRow(f2, i, out)
<1>7. IsRow(h, i, out)
  BY <1>6, Zenon
<1>8. Pairs!Row(i, out) = h[n]
  BY Zenon DEF Pairs!Row, IsRow
<1> HIDE DEF h
<1>9. h[0] = out /\ \A k \in 1 .. n : h[k] = Step(k, h[k - 1])
  <2>1. 0 \in 0 .. n /\ \A k \in 1 .. n : k \in 0 .. n /\ k # 0
    BY <1>1
  <2>2. QED
    BY <1>7, <2>1 DEF IsRow, Step
<1> DEFINE P == {k \in 0 .. n :
                   /\ h[k] \in Rejections /\ out \subseteq h[k]
                   /\ \A j \in i + 1 .. k :
                         Settled(market.pairs[i], market.pairs[j], h[k])}
<1>10. 0 \in P
  BY <1>1, <1>9
<1>11. ASSUME NEW k \in 1 .. n, k - 1 \in P PROVE k \in P
  <2>1. /\ h[k - 1] \in Rejections /\ out \subseteq h[k - 1]
        /\ \A j \in i + 1 .. k - 1 :
              Settled(market.pairs[i], market.pairs[j], h[k - 1])
    BY <1>11
  <2>2. h[k] = Step(k, h[k - 1])
    BY <1>9
  <2>3. h[k] \in Rejections /\ h[k - 1] \subseteq h[k]
    BY <1>2, <2>1, <2>2
  <2>4. ASSUME NEW j \in i + 1 .. k
        PROVE  Settled(market.pairs[i], market.pairs[j], h[k])
    <3>1. CASE j = k
      BY <1>2, <2>1, <2>2, <3>1
    <3>2. CASE j # k
      <4>1. j \in i + 1 .. k - 1
        BY <3>2
      <4>2. QED
        BY <2>1, <2>3, <4>1, StaysSettled
    <3>3. QED
      BY <3>1, <3>2
  <2>5. QED
    BY <2>1, <2>3, <2>4
<1> HIDE DEF P, n
<1>12. \A k \in 0 .. n : k \in P
  BY <1>1, <1>10, <1>11, StepByStep
<1>13. n \in P
  BY <1>1, <1>12
<1>14. QED
  BY <1>8, <1>13 DEF P, n

LEMMA BestExists ==
    ASSUME PairInv, phase # "idle", pairs # {}
    PROVE  \E p \in pairs : Best(p)
<1> DEFINE n == Len(market.pairs)
           f == [k \in 1 .. n |-> Pairs!Vr(market.pairs[k])]
           Ratios == {Pairs!Vr(p) : p \in pairs}
<1>1. /\ n \in Nat /\ \A k \in 1 .. n : market.pairs[k] \in Pairs!Listed
      /\ \A p \in pairs : \E k \in 1 .. n : market.pairs[k] = p
  <2>1. pairs \subseteq Pairs!Listed
    BY DEF PairInv
  <2>2. QED
    BY <2>1, MarketIs
<1>2. \A p \in Pairs!Listed : Pairs!Vr(p) \in Int
  <2>1. market \in Markets \cup LaterMarkets
    BY DEF PairInv
  <2>2. market.vr \in [Pairs!Listed -> Int]
    BY <2>1, SelectionParams, Zenon DEF Pairs!Listed
  <2>3. QED
    BY <2>2 DEF Pairs!Vr, Pairs!VarianceRatio
<1>3. \A k \in 1 .. n : f[k] \in Int /\ f[k] = Pairs!Vr(market.pairs[k])
  BY <1>1, <1>2
<1> HIDE DEF f
<1>4. PICK top \in Int : \A k \in 1 .. n : f[k] <= top
  <2>1. n \in Nat /\ \A k \in 1 .. n : f[k] \in Int
    BY <1>1, <1>3
  <2> HIDE DEF n
  <2>2. QED
    BY <2>1, Bounded
<1>5. Ratios \in SUBSET Int /\ Ratios # {} /\ \A r \in Ratios : r <= top
  <2>1. \A p \in pairs : Pairs!Vr(p) \in Int /\ Pairs!Vr(p) <= top
    BY <1>1, <1>2, <1>3, <1>4
  <2>2. QED
    BY <2>1
<1>6. PICK r \in Ratios : \A other \in Ratios : other <= r
  <2> HIDE DEF Ratios
  <2>1. QED
    BY <1>5, Greatest
<1>7. PICK p \in pairs : r = Pairs!Vr(p)
  BY <1>6
<1>8. QED
  BY <1>6, <1>7 DEF Best

IsRejected(f) ==
    f = [i \in 0 .. Len(market.pairs) |->
            IF i = 0 THEN {} ELSE Pairs!Row(i, f[i - 1])]

LEMMA RejectedKeeps ==
    ASSUME PairInv, phase # "idle"
    PROVE  /\ Pairs!Rejected \in Rejections
           /\ \A i \in 1 .. Len(market.pairs) :
                 \A j \in i + 1 .. Len(market.pairs) :
                    Settled(market.pairs[i], market.pairs[j], Pairs!Rejected)
<1> DEFINE n == Len(market.pairs)
           g == [i \in 1 .. n |-> [x \in Rejections |-> Pairs!Row(i, x)]]
<1>1. n \in Nat
  BY MarketIs
<1>2. {} \in Rejections
  BY BestExists DEF Rejections
<1>3. \A i \in 1 .. n : \A x \in Rejections : g[i][x] = Pairs!Row(i, x)
  OBVIOUS
<1>4. \A i \in 1 .. n : \A x \in Rejections : g[i][x] \in Rejections
  BY <1>3, RowKeeps
<1> HIDE DEF g
<1>5. PICK f : IsLoop(f, n, {}, g) /\ AllIn(f, n, Rejections)
  <2> HIDE DEF n
  <2>1. QED
    BY <1>1, <1>2, <1>4, LoopExists, Zenon
<1>6. IsRejected(f)
  <2>1. ASSUME NEW i \in 0 .. n
        PROVE  (IF i = 0 THEN {} ELSE g[i][f[i - 1]])
                 = (IF i = 0 THEN {} ELSE Pairs!Row(i, f[i - 1]))
    <3>1. CASE i = 0
      BY <3>1
    <3>2. CASE i # 0
      <4>1. i \in 1 .. n /\ i - 1 \in 0 .. n
        BY <1>1, <3>2
      <4>2. g[i][f[i - 1]] = Pairs!Row(i, f[i - 1])
        BY <1>3, <1>5, <4>1 DEF AllIn
      <4>3. QED
        BY <3>2, <4>2
    <3>3. QED
      BY <3>1, <3>2
  <2>2. QED
    BY <1>5, <2>1, Zenon DEF IsRejected, IsLoop
<1> DEFINE h == CHOOSE f2 : IsRejected(f2)
<1>7. IsRejected(h)
  BY <1>6, Zenon
<1>8. Pairs!Rejected = h[n]
  BY Zenon DEF Pairs!Rejected, IsRejected
<1> HIDE DEF h
<1>9. h[0] = {} /\ \A i \in 1 .. n : h[i] = Pairs!Row(i, h[i - 1])
  <2>1. 0 \in 0 .. n /\ \A k \in 1 .. n : k \in 0 .. n /\ k # 0
    BY <1>1
  <2>2. QED
    BY <1>7, <2>1 DEF IsRejected
<1> DEFINE SettledUpTo(k) ==
             \A i \in 1 .. k : \A j \in i + 1 .. n :
                Settled(market.pairs[i], market.pairs[j], h[k])
           P == {k \in 0 .. n : h[k] \in Rejections /\ SettledUpTo(k)}
<1>10. 0 \in P
  <2>1. SettledUpTo(0) /\ 0 \in 0 .. n
    BY <1>1
  <2> HIDE DEF SettledUpTo
  <2>2. QED
    BY <1>2, <1>9, <2>1
<1>11. ASSUME NEW k \in 1 .. n, k - 1 \in P PROVE k \in P
  <2>1. /\ h[k - 1] \in Rejections
        /\ \A i \in 1 .. k - 1 : \A j \in i + 1 .. n :
              Settled(market.pairs[i], market.pairs[j], h[k - 1])
    BY <1>11
  <2>2. h[k] = Pairs!Row(k, h[k - 1])
    BY <1>9
  <2>3. /\ h[k] \in Rejections /\ h[k - 1] \subseteq h[k]
        /\ \A j \in k + 1 .. n : Settled(market.pairs[k], market.pairs[j], h[k])
    BY <2>1, <2>2, RowKeeps
  <2>4. ASSUME NEW i \in 1 .. k, NEW j \in i + 1 .. n
        PROVE  Settled(market.pairs[i], market.pairs[j], h[k])
    <3>1. CASE i = k
      BY <2>3, <3>1
    <3>2. CASE i # k
      <4>1. i \in 1 .. k - 1
        BY <3>2
      <4>2. Settled(market.pairs[i], market.pairs[j], h[k - 1])
        BY <2>1, <4>1
      <4>3. QED
        BY <2>3, <4>2, StaysSettled
    <3>3. QED
      BY <3>1, <3>2
  <2>5. SettledUpTo(k) /\ k \in 0 .. n
    BY <2>4
  <2> HIDE DEF SettledUpTo
  <2>6. QED
    BY <2>3, <2>5
<1> HIDE DEF P, n, SettledUpTo
<1>12. \A k \in 0 .. n : k \in P
  BY <1>1, <1>10, <1>11, StepByStep
<1>13. n \in P
  BY <1>1, <1>12
<1>14. QED
  BY <1>8, <1>13 DEF P, n, SettledUpTo

(* What the filter leaves may be traded together. *)
LEMMA FilterSound ==
    ASSUME PairInv, phase = "candidates", NEW p \in pairs \ Pairs!Rejected
    PROVE  /\ market.bars[p] - 1 >= 4 * Q
           /\ \A q \in pairs \ Pairs!Rejected : p # q => ~Pairs!Correlated(p, q)
<1>1. market \in Markets \cup LaterMarkets /\ pairs \subseteq Pairs!Listed
  BY DEF PairInv
<1>2. market.bars[p] - 1 >= 4 * Q
  <2>1. market.bars \in [Pairs!Listed -> Int]
    BY <1>1, SelectionParams, Zenon DEF Pairs!Listed
  <2>2. market.bars[p] \in Int
    BY <1>1, <2>1
  <2>3. Pairs!Vr(p) > MIN_VR
    BY DEF PairInv, Pairs!IsCandidate
  <2>4. Q \in Int /\ MIN_VR \in Int /\ 10 <= MIN_VR
    BY SelectionParams, Zenon
  <2>5. CASE market.bars[p] - 1 < 4 * Q
    <3>1. Pairs!Vr(p) = 10
      BY <2>5 DEF Pairs!Vr, Pairs!VarianceRatio
    <3>2. QED
      BY <2>3, <2>4, <3>1
  <2>6. QED
    BY <2>2, <2>4, <2>5
<1>3. ASSUME NEW q \in pairs \ Pairs!Rejected, p # q
      PROVE  ~Pairs!Correlated(p, q)
  <2>1. /\ Len(market.pairs) \in Nat
        /\ \A r \in Pairs!Listed : \E k \in 1 .. Len(market.pairs) :
              market.pairs[k] = r
    BY MarketIs
  <2>2. PICK i \in 1 .. Len(market.pairs) : market.pairs[i] = p
    BY <1>1, <2>1
  <2>3. PICK j \in 1 .. Len(market.pairs) : market.pairs[j] = q
    BY <1>1, <2>1
  <2>4. \/ j \in i + 1 .. Len(market.pairs)
        \/ i \in j + 1 .. Len(market.pairs)
    BY <1>3, <2>1, <2>2, <2>3
  <2>5. Settled(p, q, Pairs!Rejected) \/ Settled(q, p, Pairs!Rejected)
    BY <2>2, <2>3, <2>4, RejectedKeeps
  <2>6. Pairs!Correlated(p, q) <=> Pairs!Correlated(q, p)
    <3>1. {p, q} = {q, p}
      OBVIOUS
    <3>2. QED
      BY <3>1, Zenon DEF Pairs!Correlated
  <2>7. QED
    BY <1>3, <2>5, <2>6 DEF Settled
<1>4. QED
  BY <1>2, <1>3

(* Whatever step of the writing is taken or fails, the whitelist is there   *)
(* whole, and is the latest.                                                *)
LEMMA WritingKeeps ==
    ASSUME PairInv,
           \/ Pairs!KeepWhitelist \/ Pairs!OpenTemp \/ Pairs!WriteTemp
           \/ Pairs!WriteFails \/ Pairs!ReplaceWhitelist
    PROVE  FilesInv'
<1> USE DEF FilesInv, Pairs!Files, Pairs!WhitelistIsLatest, Pairs!Whole
<1>1. CASE Pairs!KeepWhitelist
  BY <1>1 DEF PairInv, Pairs!KeepWhitelist
<1>2. CASE Pairs!OpenTemp
  BY <1>2 DEF PairInv, Pairs!OpenTemp, Pairs!Half
<1>3. CASE Pairs!WriteTemp
  BY <1>3 DEF PairInv, Pairs!WriteTemp
<1>4. CASE Pairs!WriteFails
  BY <1>4 DEF PairInv, Pairs!WriteFails
<1>5. CASE Pairs!ReplaceWhitelist
  <2>1. /\ phase = "written" /\ phase' = "report" /\ pairs' = pairs
        /\ whitelist' = Pairs!Whole(pairs) /\ latest' = pairs /\ pairs # {}
    BY <1>5 DEF PairInv, Pairs!ReplaceWhitelist
  <2>2. pairs # None
    <3>1. market \in Markets \cup LaterMarkets /\ pairs \in SUBSET Pairs!Listed
      BY <2>1 DEF PairInv
    <3>2. \A chosen \in SUBSET Pairs!Listed : chosen # None
      BY <3>1, SelectionParams, Zenon DEF Pairs!Listed
    <3>3. QED
      BY <3>1, <3>2, Zenon
  <2>3. QED
    BY <2>1, <2>2
<1>6. QED
  BY <1>1, <1>2, <1>3, <1>4, <1>5

LEMMA PairStep ==
    ASSUME PairInv, PairSelecting \/ UNCHANGED <<part, pairVars>>
    PROVE  PairInv'
<1> USE DEF Pairs!Go, FilesInv, Pairs!WhitelistIsLatest
<1>1. CASE UNCHANGED <<part, pairVars>>
  BY <1>1 DEF PairInv, pairVars, Pairs!Listed, Pairs!IsCandidate, Pairs!Vr,
      Pairs!PairwiseUncorrelated, Pairs!NothingWithoutHistory, Pairs!Chosen,
      Pairs!Correlated
<1>2. ASSUME phase = "idle", NEW m \in Markets \cup LaterMarkets, Pairs!Start(m)
      PROVE  PairInv'
  BY <1>2 DEF PairInv, Pairs!Start
<1>3. CASE Pairs!LoadMarkets
  <2>1. /\ phase' = "health" /\ pairs' \subseteq Pairs!Listed /\ phase # "idle"
        /\ UNCHANGED <<market, whitelist, temp, session, runs, latest>>
    BY <1>3 DEF Pairs!LoadMarkets
  <2>2. Pairs!Listed' = Pairs!Listed
    BY <2>1 DEF Pairs!Listed
  <2>3. QED
    BY <2>1, <2>2 DEF PairInv
<1>4. CASE Pairs!CheckBtcHealth \/ Pairs!FetchTickers
  <2>1. /\ phase \in {"health", "tickers"} /\ pairs' \subseteq pairs
        /\ phase' \in {"tickers", "candles"} \/ (phase' = "selected" /\ pairs' = {})
        /\ UNCHANGED <<market, whitelist, temp, session, runs, latest>>
    <3>1. CASE Pairs!CheckBtcHealth
      BY <3>1 DEF Pairs!CheckBtcHealth
    <3>2. CASE Pairs!FetchTickers
      BY <3>2 DEF Pairs!FetchTickers
    <3>3. QED
      BY <1>4, <3>1, <3>2
  <2>2. Pairs!Listed' = Pairs!Listed
    BY <2>1 DEF Pairs!Listed
  <2>3. QED
    BY <2>1, <2>2 DEF PairInv, Pairs!PairwiseUncorrelated,
        Pairs!NothingWithoutHistory, Pairs!Chosen
<1>5. CASE Pairs!FetchCandles
  <2>1. /\ phase = "candles" /\ phase' = "candidates"
        /\ UNCHANGED <<market, whitelist, temp, session, runs, latest>>
        /\ \A p \in pairs' : p \in pairs /\ Pairs!IsCandidate(p)
    BY <1>5 DEF Pairs!FetchCandles
  <2>2. Pairs!Listed' = Pairs!Listed
    BY <2>1 DEF Pairs!Listed
  <2>3. \A p : Pairs!IsCandidate(p)' <=> Pairs!IsCandidate(p)
    BY <2>1 DEF Pairs!IsCandidate, Pairs!Vr
  <2>4. QED
    BY <2>1, <2>2, <2>3 DEF PairInv
<1>6. CASE Pairs!FilterCorrelated
  <2>1. /\ phase = "candidates" /\ phase' = "selected"
        /\ pairs' = pairs \ Pairs!Rejected
        /\ UNCHANGED <<market, whitelist, temp, session, runs, latest>>
    BY <1>6 DEF Pairs!FilterCorrelated
  <2>2. Pairs!Listed' = Pairs!Listed
    BY <2>1 DEF Pairs!Listed
  <2>3. \A p, q : Pairs!Correlated(p, q)' <=> Pairs!Correlated(p, q)
    BY <2>1 DEF Pairs!Correlated
  <2>4. \A p \in pairs' : /\ market.bars[p] - 1 >= 4 * Q
                          /\ \A q \in pairs' : p # q => ~Pairs!Correlated(p, q)
    BY <2>1, FilterSound
  <2>5. Pairs!PairwiseUncorrelated' /\ Pairs!NothingWithoutHistory'
    BY <2>1, <2>3, <2>4 DEF Pairs!PairwiseUncorrelated, Pairs!NothingWithoutHistory
  <2>6. QED
    BY <2>1, <2>2, <2>5 DEF PairInv
<1>7. CASE \/ Pairs!KeepWhitelist \/ Pairs!OpenTemp \/ Pairs!WriteTemp
           \/ Pairs!WriteFails \/ Pairs!ReplaceWhitelist
  <2>1. /\ phase \in {"selected", "writing", "written"}
        /\ phase' \in {"report", "writing", "written", "failed"}
        /\ UNCHANGED <<market, pairs, session, runs>>
    BY <1>7 DEF Pairs!Files, Pairs!KeepWhitelist, Pairs!OpenTemp, Pairs!WriteTemp,
        Pairs!WriteFails, Pairs!ReplaceWhitelist
  <2>2. Pairs!Listed' = Pairs!Listed
    BY <2>1 DEF Pairs!Listed
  <2>3. FilesInv'
    BY <1>7, WritingKeeps
  <2>4. QED
    BY <2>1, <2>2, <2>3 DEF PairInv
<1>8. CASE Pairs!Report \/ Pairs!Fail
  <2>1. /\ phase \in {"report", "failed"} /\ phase' = "close" /\ pairs' = pairs
        /\ UNCHANGED <<market, whitelist, temp, session, runs, latest>>
    BY <1>8 DEF Pairs!Report, Pairs!Fail
  <2>2. Pairs!Listed' = Pairs!Listed
    BY <2>1 DEF Pairs!Listed
  <2>3. QED
    BY <2>1, <2>2 DEF PairInv
<1>9. CASE Pairs!CloseSession \/ Pairs!Kill
  BY <1>9 DEF PairInv, Pairs!CloseSession, Pairs!Kill
<1>10. QED
  BY <1>1, <1>2, <1>3, <1>4, <1>5, <1>6, <1>7, <1>8, <1>9
     DEF PairSelecting, Pairs!Select

LEMMA PairInvSound ==
    ASSUME PairInv
    PROVE  PairsSound /\ WhitelistWhole
<1>1. Pairs!PairwiseUncorrelated /\ Pairs!NothingWithoutHistory
  BY DEF PairInv, Pairs!PairwiseUncorrelated, Pairs!NothingWithoutHistory, Pairs!Chosen
<1>2. Pairs!BestSurvives
  <2>1. SUFFICES ASSUME phase = "candidates", pairs # {}
                 PROVE  \E p \in pairs \ Pairs!Rejected : Best(p)
    BY DEF Pairs!BestSurvives, Best
  <2>2. Pairs!Rejected \in Rejections
    BY <2>1, RejectedKeeps
  <2>3. QED
    BY <2>1, <2>2 DEF Rejections
<1>3. QED
  BY <1>1, <1>2 DEF PairInv, FilesInv, PairsSound, WhitelistWhole,
      Pairs!PairsSound, Pairs!WhitelistWhole

-----------------------------------------------------------------------------
(* The collectors.  klines_collector: nothing is polled or stored of an     *)
(* hour to come.                                                            *)
KlineInv ==
    /\ hour \in Nat
    /\ \A p \in polls : p.symbol \in SYMBOLS /\ p.at \in Int /\ p.at <= hour
    /\ \A row \in rows : row.open_time \in Int /\ row.open_time <= hour
    /\ Collectors!CandlesAsPolled

(* What is stored of a candle, and what should be. *)
Of(table_of, sym, h) == {row \in table_of : row.symbol = sym /\ row.open_time = h}

Candle(sym, h, is_final) == [symbol |-> sym, open_time |-> h, final |-> is_final]

Expected(sym, h) ==
    IF Collectors!Polled(sym, h .. h + 2)
    THEN {Candle(sym, h, Collectors!Polled(sym, h + 1 .. h + 2))} ELSE {}

LEMMA PollKeeps ==
    ASSUME KlineInv, NEW sym \in SYMBOLS, Collectors!Poll(sym)
    PROVE  KlineInv'
<1> DEFINE new == Collectors!Candles(sym)
<1>1. /\ rows' = new \cup {row \in rows : \A other \in new :
                             ~Collectors!SameKey(row, other)}
      /\ polls' = polls \cup {[symbol |-> sym, at |-> hour]} /\ hour' = hour
  BY DEF Collectors!Poll, Collectors!Store, Collectors!InsertOrReplace
<1>2. /\ hour \in Nat /\ \A p \in polls : p.at \in Int /\ p.at <= hour
      /\ \A s \in SYMBOLS : \A h \in 0 .. hour : Of(rows, s, h) = Expected(s, h)
  BY Zenon DEF KlineInv, Collectors!CandlesAsPolled, Of, Expected, Candle
<1>3. \A row \in new :
          /\ row.symbol = sym /\ row.open_time \in hour - 2 .. hour
          /\ row.open_time >= 0
          /\ row = Candle(sym, row.open_time, row.open_time < hour)
  BY DEF Collectors!Candles, Candle
<1>4. \A h \in hour - 2 .. hour : h >= 0 => Candle(sym, h, h < hour) \in new
  BY DEF Collectors!Candles, Candle
<1> HIDE DEF new
<1>5. \A s, hours : Collectors!Polled(s, hours)'
                      <=> Collectors!Polled(s, hours) \/ (s = sym /\ hour \in hours)
  <2> DEFINE poll == [symbol |-> sym, at |-> hour]
  <2>1. /\ \A p : p \in polls' <=> p \in polls \/ p = poll
        /\ poll.symbol = sym /\ poll.at = hour
    BY <1>1
  <2> HIDE DEF poll
  <2>2. QED
    BY <2>1, Zenon DEF Collectors!Polled
<1>6. ASSUME NEW s \in SYMBOLS, NEW h \in 0 .. hour
      PROVE  Of(rows', s, h) = Expected(s, h)'
  <2>1. h \in Int /\ h >= 0 /\ h <= hour /\ hour \in Int
    BY <1>2
  <2>2. CASE s = sym /\ hour - 2 <= h
    <3>1. h \in hour - 2 .. hour /\ hour \in h .. h + 2
      BY <2>1, <2>2
    <3>2. Candle(sym, h, h < hour) \in new
      BY <1>4, <2>1, <3>1
    <3>3. \A row \in new : row.open_time = h => row = Candle(sym, h, h < hour)
      BY <1>3, Zenon
    <3>4. Candle(sym, h, h < hour).symbol = sym /\ Candle(sym, h, h < hour).open_time = h
      BY DEF Candle
    <3>5. Of(rows', s, h) = {Candle(sym, h, h < hour)}
      BY <1>1, <2>2, <3>2, <3>3, <3>4 DEF Of, Collectors!SameKey
    <3>6. Collectors!Polled(s, h .. h + 2)'
      BY <1>5, <2>2, <3>1
    <3>7. Collectors!Polled(s, h + 1 .. h + 2)' <=> h < hour
      <4>1. CASE h < hour
        <5>1. hour \in h + 1 .. h + 2
          BY <2>1, <2>2, <4>1
        <5>2. QED
          BY <1>5, <2>2, <4>1, <5>1
      <4>2. CASE ~(h < hour)
        <5>1. hour \notin h + 1 .. h + 2
          BY <2>1, <4>2
        <5>2. ~Collectors!Polled(s, h + 1 .. h + 2)
          BY <1>2, <2>1, <4>2 DEF Collectors!Polled
        <5>3. QED
          BY <1>5, <4>2, <5>1, <5>2
      <4>3. QED
        BY <4>1, <4>2
    <3>8. Expected(s, h)' = {Candle(s, h, Collectors!Polled(s, h + 1 .. h + 2)')}
      BY <3>6 DEF Expected, Candle
    <3>9. Candle(s, h, Collectors!Polled(s, h + 1 .. h + 2)') = Candle(sym, h, h < hour)
      <4>1. CASE h < hour
        <5>1. Collectors!Polled(s, h + 1 .. h + 2)' = TRUE /\ (h < hour) = TRUE
          BY <3>7, <4>1 DEF Collectors!Polled
        <5>2. QED
          BY <2>2, <5>1, Zenon DEF Candle
      <4>2. CASE ~(h < hour)
        <5>1. Collectors!Polled(s, h + 1 .. h + 2)' = FALSE /\ (h < hour) = FALSE
          BY <3>7, <4>2 DEF Collectors!Polled
        <5>2. QED
          BY <2>2, <5>1, Zenon DEF Candle
      <4>3. QED
        BY <4>1, <4>2
    <3>10. QED
      BY <3>5, <3>8, <3>9
  <2>3. CASE ~(s = sym /\ hour - 2 <= h)
    <3>1. \A row \in new : ~(row.symbol = s /\ row.open_time = h)
      BY <1>3, <2>1, <2>3
    <3>2. Of(rows', s, h) = Of(rows, s, h)
      BY <1>1, <3>1 DEF Of, Collectors!SameKey
    <3>3. ~(s = sym /\ hour \in h .. h + 2) /\ ~(s = sym /\ hour \in h + 1 .. h + 2)
      BY <2>1, <2>3
    <3>4. /\ Collectors!Polled(s, h .. h + 2)' <=> Collectors!Polled(s, h .. h + 2)
          /\ Collectors!Polled(s, h + 1 .. h + 2)'
               <=> Collectors!Polled(s, h + 1 .. h + 2)
      BY <1>5, <3>3
    <3>5. Expected(s, h)' = Expected(s, h)
      BY <3>4 DEF Expected, Candle, Collectors!Polled
    <3>6. QED
      BY <1>2, <3>2, <3>5
  <2>4. QED
    BY <2>2, <2>3
<1>7. Collectors!CandlesAsPolled'
  BY <1>1, <1>6, Zenon DEF Collectors!CandlesAsPolled, Of, Expected, Candle
<1>8. \A row \in rows' : row.open_time \in Int /\ row.open_time <= hour
  BY <1>1, <1>2, <1>3 DEF KlineInv
<1>9. \A p \in polls' : p.symbol \in SYMBOLS /\ p.at \in Int /\ p.at <= hour
  BY <1>1, <1>2 DEF KlineInv
<1>10. QED
  BY <1>1, <1>2, <1>7, <1>8, <1>9 DEF KlineInv

LEMMA KlineStep ==
    ASSUME KlineInv, Collectors!CollectKlines \/ UNCHANGED klineVars
    PROVE  KlineInv'
<1>1. CASE UNCHANGED klineVars
  BY <1>1 DEF KlineInv, klineVars, Collectors!CandlesAsPolled, Collectors!Polled
<1>2. CASE Collectors!NextHour
  <2>1. hour \in Nat /\ hour' = hour + 1 /\ rows' = rows /\ polls' = polls
    BY <1>2 DEF KlineInv, Collectors!NextHour
  <2>2. ASSUME NEW s \in SYMBOLS, NEW h \in 0 .. hour + 1
        PROVE  Of(rows, s, h) = Expected(s, h)
    <3>1. CASE h \in 0 .. hour
      BY <3>1, Zenon DEF KlineInv, Collectors!CandlesAsPolled, Of, Expected, Candle
    <3>2. CASE h = hour + 1
      <4>1. Of(rows, s, h) = {}
        BY <2>1, <3>2 DEF KlineInv, Of
      <4>2. ~Collectors!Polled(s, h .. h + 2)
        BY <2>1, <3>2 DEF KlineInv, Collectors!Polled
      <4>3. QED
        BY <4>1, <4>2 DEF Expected
    <3>3. QED
      BY <2>1, <3>1, <3>2
  <2>3. Collectors!CandlesAsPolled'
    BY <2>1, <2>2, Zenon
       DEF Collectors!CandlesAsPolled, Of, Expected, Candle, Collectors!Polled
  <2>4. QED
    BY <2>1, <2>3 DEF KlineInv
<1>3. QED
  BY <1>1, <1>2, PollKeeps DEF Collectors!CollectKlines

(* bybit_funding_collector: the rows come by time, those of one cycle of    *)
(* different symbols, and a cycle that has no tickers yet has no rows.      *)
ByTime(rows_of, n) ==
    \A j, k \in 1 .. n :
        /\ j <= k => rows_of[j].received <= rows_of[k].received
        /\ rows_of[j].received = rows_of[k].received
           /\ rows_of[j].symbol = rows_of[k].symbol => j = k

(* A row has what the ticker it came in said. *)
AsAnnounced(row) ==
    /\ row.symbol = row.payload.symbol
    /\ row.next = Collectors!OrZero(row.payload.next)
    /\ row.rate = Collectors!OrZero(row.payload.rate)

FundingInv ==
    /\ cycle \in Nat /\ (\E S : table \in Seq(S))
    /\ \A k \in 1 .. Len(table) :
          /\ table[k].received \in Nat /\ table[k].received <= cycle
          /\ attempt > 0 => table[k].received < cycle
          /\ AsAnnounced(table[k])
    /\ ByTime(table, Len(table))
    /\ attempt \in Nat /\ snapshot.of \in 0 .. Len(table)
    /\ Collectors!LastRatePerSettlement

IsStored(f, tickers) ==
    f = [k \in 0 .. Len(tickers) |->
            IF k = 0 THEN table
            ELSE IF Collectors!Stored(tickers[k])
                 THEN Append(f[k - 1], Collectors!Row(tickers[k]))
            ELSE f[k - 1]]

(* A table that has grown by rows of the first n tickers. *)
Grown(more, tickers, n) ==
    /\ Len(table) <= Len(more)
    /\ \A k \in 1 .. Len(table) : more[k] = table[k]
    /\ \A k \in Len(table) + 1 .. Len(more) :
          \E i \in 1 .. n : more[k] = Collectors!Row(tickers[i])
    /\ \A j, k \in Len(table) + 1 .. Len(more) :
          more[j].symbol = more[k].symbol => j = k

LEMMA GrowsByOne ==
    ASSUME NEW S, table \in Seq(S), NEW tickers \in TickerLists,
           NEW n \in 1 .. Len(tickers), NEW more \in Seq(S),
           Grown(more, tickers, n - 1), Collectors!Row(tickers[n]) \in S
    PROVE  Grown(Append(more, Collectors!Row(tickers[n])), tickers, n)
<1> DEFINE row == Collectors!Row(tickers[n])
           longer == Append(more, row)
<1>1. /\ Len(table) \in Nat /\ Len(more) \in Nat /\ Len(table) <= Len(more)
      /\ Len(longer) = Len(more) + 1 /\ longer[Len(more) + 1] = row
      /\ \A k \in 1 .. Len(more) : longer[k] = more[k]
  <2>1. row \in S
    OBVIOUS
  <2> HIDE DEF row
  <2>2. QED
    BY <2>1 DEF Grown
<1>2. Len(tickers) \in Nat /\ \A i, j \in 1 .. Len(tickers) :
          tickers[i].symbol = tickers[j].symbol => i = j
  BY CollectorParams, Zenon
<1>3. row.symbol = tickers[n].symbol
      /\ \A i : Collectors!Row(tickers[i]).symbol = tickers[i].symbol
  BY DEF Collectors!Row
<1> HIDE DEF row, longer
<1>4. \A k \in 1 .. Len(table) : longer[k] = table[k]
  <2>1. \A k \in 1 .. Len(table) : more[k] = table[k]
    BY Zenon DEF Grown
  <2>2. \A k \in 1 .. Len(table) : k \in 1 .. Len(more)
    BY <1>1
  <2>3. \A k \in 1 .. Len(more) : longer[k] = more[k]
    BY <1>1
  <2>4. QED
    BY <2>1, <2>2, <2>3, Zenon
<1>5. ASSUME NEW k \in Len(table) + 1 .. Len(more)
      PROVE  \E i \in 1 .. n - 1 : longer[k] = Collectors!Row(tickers[i])
  <2>1. k \in 1 .. Len(more)
    BY <1>1
  <2>2. QED
    BY <1>1, <2>1 DEF Grown
<1>6. \A k \in Len(table) + 1 .. Len(longer) :
          k \in Len(table) + 1 .. Len(more) \/ k = Len(more) + 1
  BY <1>1
<1>7. ASSUME NEW k \in Len(table) + 1 .. Len(longer)
      PROVE  \E i \in 1 .. n : longer[k] = Collectors!Row(tickers[i])
  <2>1. CASE k \in Len(table) + 1 .. Len(more)
    <3>1. PICK i \in 1 .. n - 1 : longer[k] = Collectors!Row(tickers[i])
      BY <1>5, <2>1
    <3>2. i \in 1 .. n
      BY <1>2
    <3>3. QED
      BY <3>1, <3>2
  <2>2. CASE k = Len(more) + 1
    <3>1. longer[k] = Collectors!Row(tickers[n]) /\ n \in 1 .. n
      BY <1>1, <1>2, <2>2 DEF row
    <3>2. QED
      BY <3>1
  <2>3. QED
    BY <1>6, <2>1, <2>2
<1>8. ASSUME NEW k \in Len(table) + 1 .. Len(more)
      PROVE  longer[k].symbol # row.symbol
  <2>1. PICK i \in 1 .. n - 1 : longer[k] = Collectors!Row(tickers[i])
    BY <1>5
  <2>2. i \in 1 .. Len(tickers) /\ n \in 1 .. Len(tickers) /\ i # n
    BY <1>2
  <2>3. QED
    BY <1>2, <1>3, <2>1, <2>2
<1>9. \A j, k \in Len(table) + 1 .. Len(more) :
          longer[j].symbol = longer[k].symbol => j = k
  <2>1. \A k \in Len(table) + 1 .. Len(more) : longer[k] = more[k]
    BY <1>1
  <2>2. QED
    BY <2>1 DEF Grown
<1>10. \A j, k \in Len(table) + 1 .. Len(longer) :
          longer[j].symbol = longer[k].symbol => j = k
  BY <1>1, <1>6, <1>8, <1>9
<1>11. Len(table) <= Len(longer)
  BY <1>1
<1>12. Grown(longer, tickers, n)
  BY <1>4, <1>7, <1>10, <1>11 DEF Grown
<1>13. QED
  BY <1>12 DEF longer, row

LEMMA StoreGrows ==
    ASSUME NEW T, table \in Seq(T), NEW tickers \in TickerLists
    PROVE  \E S : /\ Collectors!StoreRows(tickers) \in Seq(S)
                  /\ Grown(Collectors!StoreRows(tickers), tickers, Len(tickers))
<1> DEFINE n == Len(tickers)
           S == T \cup {Collectors!Row(tickers[i]) : i \in 1 .. n}
           Tables == Seq(S)
           Step(k, x) == IF Collectors!Stored(tickers[k])
                         THEN Append(x, Collectors!Row(tickers[k])) ELSE x
           g == [k \in 1 .. n |-> [x \in Tables |-> Step(k, x)]]
<1>1. n \in Nat
  BY CollectorParams, Zenon
<1>2. table \in Tables
  OBVIOUS
<1>3. \A k \in 1 .. n : Collectors!Row(tickers[k]) \in S
  OBVIOUS
<1> HIDE DEF S
<1>4. ASSUME NEW k \in 1 .. n, NEW x \in Tables PROVE Step(k, x) \in Tables
  BY <1>3
<1>5. \A k \in 1 .. n : \A x \in Tables : g[k][x] = Step(k, x)
  OBVIOUS
<1>6. \A k \in 1 .. n : \A x \in Tables : g[k][x] \in Tables
  BY <1>4, <1>5
<1> HIDE DEF g, Step, Tables, n
<1>7. PICK f : IsLoop(f, n, table, g) /\ AllIn(f, n, Tables)
  BY <1>1, <1>2, <1>6, LoopExists, Zenon
<1>8. IsStored(f, tickers)
  <2>1. ASSUME NEW k \in 0 .. n
        PROVE  (IF k = 0 THEN table ELSE g[k][f[k - 1]])
                 = (IF k = 0 THEN table
                    ELSE IF Collectors!Stored(tickers[k])
                         THEN Append(f[k - 1], Collectors!Row(tickers[k]))
                    ELSE f[k - 1])
    <3>1. CASE k = 0
      BY <3>1
    <3>2. CASE k # 0
      <4>1. k \in 1 .. n /\ k - 1 \in 0 .. n
        BY <1>1, <3>2
      <4>2. g[k][f[k - 1]] = Step(k, f[k - 1])
        BY <1>5, <1>7, <4>1 DEF AllIn
      <4>3. QED
        BY <3>2, <4>2 DEF Step
    <3>3. QED
      BY <3>1, <3>2
  <2>2. QED
    BY <1>7, <2>1, Zenon DEF IsStored, IsLoop, n
<1> DEFINE h == CHOOSE f2 : IsStored(f2, tickers)
<1>9. IsStored(h, tickers)
  BY <1>8, Zenon
<1>10. Collectors!StoreRows(tickers) = h[n]
  BY Zenon DEF Collectors!StoreRows, IsStored, n
<1> HIDE DEF h
<1>11. h[0] = table /\ \A k \in 1 .. n : h[k] = Step(k, h[k - 1])
  <2>1. 0 \in 0 .. n /\ \A k \in 1 .. n : k \in 0 .. n /\ k # 0
    BY <1>1
  <2>2. QED
    BY <1>9, <2>1 DEF IsStored, Step, n
<1> DEFINE P == {k \in 0 .. n : h[k] \in Seq(S) /\ Grown(h[k], tickers, k)}
<1>12. 0 \in P
  <2>1. Len(table) \in Nat
    OBVIOUS
  <2>2. Grown(table, tickers, 0)
    BY <2>1 DEF Grown
  <2>3. QED
    BY <1>1, <1>2, <1>11, <2>2 DEF Tables
<1>13. ASSUME NEW k \in 1 .. n, k - 1 \in P PROVE k \in P
  <2>1. h[k - 1] \in Seq(S) /\ Grown(h[k - 1], tickers, k - 1)
    BY <1>13
  <2>2. table \in Seq(S) /\ Collectors!Row(tickers[k]) \in S
    BY <1>2, <1>3 DEF Tables
  <2>3. CASE Collectors!Stored(tickers[k])
    <3>1. h[k] = Append(h[k - 1], Collectors!Row(tickers[k]))
      BY <1>11, <2>3 DEF Step
    <3>2. Grown(h[k], tickers, k)
      BY <2>1, <2>2, <3>1, GrowsByOne DEF n
    <3>3. h[k] \in Seq(S)
      BY <2>1, <2>2, <3>1
    <3>4. QED
      BY <1>1, <3>2, <3>3
  <2>4. CASE ~Collectors!Stored(tickers[k])
    <3>1. h[k] = h[k - 1]
      BY <1>11, <2>4 DEF Step
    <3>2. Grown(h[k], tickers, k)
      <4>1. \A i \in 1 .. k - 1 : i \in 1 .. k
        OBVIOUS
      <4>2. QED
        BY <2>1, <3>1, <4>1, Zenon DEF Grown
    <3>3. QED
      BY <1>1, <2>1, <3>1, <3>2
  <2>5. QED
    BY <2>3, <2>4
<1> HIDE DEF P
<1>14. \A k \in 0 .. n : k \in P
  BY <1>1, <1>12, <1>13, StepByStep
<1>15. n \in P
  BY <1>1, <1>14
<1>16. QED
  BY <1>10, <1>15 DEF P, n

(* What make_research_snapshot takes is the last of its settlement, and it  *)
(* takes one of each.                                                       *)
LEMMA SnapshotSound ==
    ASSUME FundingInv, Collectors!MakeSnapshot
    PROVE  Collectors!LastRatePerSettlement'
<1> DEFINE n == Len(table)
           RowFor(row) == [symbol |-> row.symbol, settle |-> row.next, rate |-> row.rate]
           Taken == {r \in Collectors!Rows : Collectors!IsLast(r, Collectors!Rows)}
<1>1. /\ n \in Nat /\ ByTime(table, n)
      /\ \A k \in 1 .. n : table[k].received \in Nat /\ AsAnnounced(table[k])
  BY DEF FundingInv
<1>2. /\ table' = table /\ snapshot'.of = n
      /\ snapshot'.rows = {RowFor(row) : row \in Taken}
  BY DEF Collectors!MakeSnapshot
<1>3. \A r : r \in Collectors!Rows <=> \E k \in 1 .. n : r = table[k]
  BY DEF Collectors!Rows
<1>4. ASSUME NEW k \in 1 .. n, NEW s
      PROVE  Collectors!Announces(table[k].payload, s)
               <=> table[k].symbol = s.symbol /\ table[k].next = s.settle
  BY <1>1 DEF Collectors!Announces, AsAnnounced, Collectors!OrZero
<1> HIDE DEF n
<1>5. ASSUME NEW k \in 1 .. n
      PROVE  \E s \in snapshot'.rows : Collectors!Announces(table[k].payload, s)
  <2> DEFINE J == {i \in 1 .. n : Collectors!SameSettlement(table[k], table[i])}
  <2>1. n \in Int /\ J \in SUBSET Int /\ J # {} /\ \A i \in J : i <= n
    BY <1>1 DEF Collectors!SameSettlement
  <2>2. PICK last \in J : \A i \in J : i <= last
    <3> HIDE DEF J
    <3>1. QED
      BY <2>1, Greatest
  <2>3. /\ last \in 1 .. n /\ table[last] \in Collectors!Rows
        /\ table[last].symbol = table[k].symbol /\ table[last].next = table[k].next
    BY <1>3, <2>2 DEF Collectors!SameSettlement
  <2>4. ASSUME NEW other \in Collectors!Rows,
               Collectors!SameSettlement(table[last], other)
        PROVE  other.received <= table[last].received
    <3>1. PICK i \in 1 .. n : other = table[i]
      BY <1>3
    <3>2. i \in J
      BY <2>3, <2>4, <3>1 DEF Collectors!SameSettlement
    <3>3. QED
      BY <1>1, <2>2, <2>3, <3>1, <3>2 DEF ByTime
  <2>5. RowFor(table[last]) \in snapshot'.rows
    BY <1>2, <2>3, <2>4 DEF Collectors!IsLast
  <2>6. Collectors!Announces(table[k].payload, RowFor(table[last]))
    BY <1>4, <2>3
  <2>7. QED
    BY <2>5, <2>6
<1>6. ASSUME NEW s \in snapshot'.rows
      PROVE  \E k \in 1 .. n :
                /\ Collectors!Announces(table[k].payload, s)
                /\ \A j \in k + 1 .. n : ~Collectors!Announces(table[j].payload, s)
                /\ s.rate = IF table[k].payload.rate = None THEN 0
                            ELSE table[k].payload.rate
  <2>1. PICK row \in Collectors!Rows :
            Collectors!IsLast(row, Collectors!Rows) /\ s = RowFor(row)
    BY <1>2
  <2>2. PICK k \in 1 .. n : row = table[k]
    BY <1>3
  <2>3. /\ s.symbol = table[k].symbol /\ s.settle = table[k].next
        /\ s.rate = table[k].rate
    BY <2>1, <2>2
  <2>4. ASSUME NEW j \in k + 1 .. n, Collectors!Announces(table[j].payload, s)
        PROVE  FALSE
    <3>1. j \in 1 .. n /\ k <= j /\ j # k
      BY <1>1
    <3>2. table[j] \in Collectors!Rows
      BY <1>3, <3>1
    <3>3. table[j].symbol = table[k].symbol /\ table[j].next = table[k].next
      BY <1>4, <2>3, <2>4, <3>1
    <3>4. table[j].received <= table[k].received
      BY <2>1, <2>2, <3>2, <3>3 DEF Collectors!IsLast, Collectors!SameSettlement
    <3>5. table[k].received <= table[j].received
      BY <1>1, <3>1 DEF ByTime
    <3>6. table[j].received = table[k].received
      BY <1>1, <3>1, <3>4, <3>5
    <3>7. QED
      BY <1>1, <3>1, <3>3, <3>6 DEF ByTime
  <2>5. Collectors!Announces(table[k].payload, s)
    BY <1>4, <2>3
  <2>6. s.rate = IF table[k].payload.rate = None THEN 0 ELSE table[k].payload.rate
    BY <1>1, <2>3 DEF AsAnnounced, Collectors!OrZero
  <2>7. QED
    BY <2>4, <2>5, <2>6
<1>7. QED
  BY <1>2, <1>5, <1>6 DEF Collectors!LastRatePerSettlement, Collectors!Announces

LEMMA FetchKeeps ==
    ASSUME FundingInv, NEW tickers \in TickerLists, Collectors!Fetch(tickers)
    PROVE  FundingInv'
<1>1. /\ attempt > 0 /\ attempt' = 0 /\ cycle' = cycle /\ snapshot' = snapshot
      /\ table' = Collectors!StoreRows(tickers)
  BY DEF Collectors!Fetch
<1>2. /\ cycle \in Nat /\ ByTime(table, Len(table))
      /\ \A k \in 1 .. Len(table) : table[k].received \in Nat /\ table[k].received < cycle
      /\ \A k \in 1 .. Len(table) : AsAnnounced(table[k])
      /\ snapshot.of \in 0 .. Len(table) /\ Collectors!LastRatePerSettlement
  BY <1>1 DEF FundingInv
<1>3. PICK T : table \in Seq(T)
  BY DEF FundingInv
<1>4. PICK S : table' \in Seq(S) /\ Grown(table', tickers, Len(tickers))
  BY <1>1, <1>3, StoreGrows
<1>5. Len(table) \in Nat /\ Len(table') \in Nat /\ Len(table) <= Len(table')
  BY <1>3, <1>4 DEF Grown
<1>6. \A k \in 1 .. Len(table) : table'[k] = table[k]
  BY <1>4 DEF Grown
<1>7. ASSUME NEW k \in Len(table) + 1 .. Len(table')
      PROVE  table'[k].received = cycle /\ AsAnnounced(table'[k])
  <2>1. PICK i \in 1 .. Len(tickers) : table'[k] = Collectors!Row(tickers[i])
    BY <1>4 DEF Grown
  <2>2. QED
    BY <2>1 DEF Collectors!Row, AsAnnounced
<1>8. \A k \in 1 .. Len(table') :
          k \in 1 .. Len(table) \/ k \in Len(table) + 1 .. Len(table')
  BY <1>5
<1>9. \A k \in 1 .. Len(table') :
          /\ table'[k].received \in Nat /\ table'[k].received <= cycle
          /\ AsAnnounced(table'[k])
  BY <1>2, <1>6, <1>7, <1>8
<1>10. ByTime(table', Len(table'))
  <2>1. ASSUME NEW j \in 1 .. Len(table'), NEW k \in 1 .. Len(table')
        PROVE  /\ j <= k => table'[j].received <= table'[k].received
               /\ table'[j].received = table'[k].received
                  /\ table'[j].symbol = table'[k].symbol => j = k
    <3>1. CASE j \in 1 .. Len(table) /\ k \in 1 .. Len(table)
      BY <1>2, <1>6, <3>1 DEF ByTime
    <3>2. CASE j \in 1 .. Len(table) /\ k \in Len(table) + 1 .. Len(table')
      BY <1>2, <1>6, <1>7, <3>2
    <3>3. CASE j \in Len(table) + 1 .. Len(table') /\ k \in 1 .. Len(table)
      BY <1>2, <1>5, <1>6, <1>7, <3>3
    <3>4. CASE /\ j \in Len(table) + 1 .. Len(table')
               /\ k \in Len(table) + 1 .. Len(table')
      BY <1>2, <1>4, <1>7, <3>4 DEF Grown
    <3>5. QED
      BY <1>8, <3>1, <3>2, <3>3, <3>4
  <2>2. QED
    BY <2>1 DEF ByTime
<1>11. Collectors!LastRatePerSettlement'
  <2>1. \A k \in 1 .. snapshot.of : table'[k] = table[k]
    BY <1>2, <1>5, <1>6
  <2>2. \A k \in 1 .. snapshot.of : \A j \in k + 1 .. snapshot.of : table'[j] = table[j]
    BY <1>2, <1>5, <2>1
  <2>3. ASSUME NEW k \in 1 .. snapshot.of
        PROVE  \E s \in snapshot.rows : Collectors!Announces(table'[k].payload, s)
    BY <1>2, <2>1 DEF Collectors!LastRatePerSettlement
  <2>4. ASSUME NEW s \in snapshot.rows
        PROVE  \E k \in 1 .. snapshot.of :
                  /\ Collectors!Announces(table'[k].payload, s)
                  /\ \A j \in k + 1 .. snapshot.of :
                        ~Collectors!Announces(table'[j].payload, s)
                  /\ s.rate = IF table'[k].payload.rate = None THEN 0
                              ELSE table'[k].payload.rate
    <3>1. PICK k \in 1 .. snapshot.of :
             /\ Collectors!Announces(table[k].payload, s)
             /\ \A j \in k + 1 .. snapshot.of : ~Collectors!Announces(table[j].payload, s)
             /\ s.rate = IF table[k].payload.rate = None THEN 0
                         ELSE table[k].payload.rate
      BY <1>2, Zenon DEF Collectors!LastRatePerSettlement
    <3>2. table'[k] = table[k] /\ \A j \in k + 1 .. snapshot.of : table'[j] = table[j]
      BY <2>1, <2>2
    <3>3. QED
      BY <3>1, <3>2, Zenon
  <2>5. QED
    BY <1>1, <2>3, <2>4, Zenon
       DEF Collectors!LastRatePerSettlement, Collectors!Announces
<1>12. snapshot'.of \in 0 .. Len(table')
  BY <1>1, <1>2, <1>5
<1>13. QED
  BY <1>1, <1>2, <1>4, <1>9, <1>10, <1>11, <1>12 DEF FundingInv

LEMMA FundingStep ==
    ASSUME FundingInv,
           \/ Collectors!CollectFunding
           \/ \E list \in TickerLists : Collectors!Fetch(list)
           \/ UNCHANGED fundingVars
    PROVE  FundingInv'
<1>1. CASE UNCHANGED fundingVars
  BY <1>1 DEF FundingInv, fundingVars, Collectors!LastRatePerSettlement,
      Collectors!Announces, AsAnnounced
<1>2. CASE \E list \in TickerLists : Collectors!Fetch(list)
  BY <1>2, FetchKeeps
<1>3. CASE Collectors!Wake
  <2>1. attempt = 0 /\ attempt' = 1 /\ cycle' = cycle + 1
        /\ UNCHANGED <<table, snapshot>>
    BY <1>3 DEF Collectors!Wake
  <2>2. Collectors!LastRatePerSettlement'
    BY <2>1, Zenon DEF FundingInv, Collectors!LastRatePerSettlement, Collectors!Announces
  <2>3. ASSUME NEW k \in 1 .. Len(table')
        PROVE  /\ table'[k].received \in Nat /\ table'[k].received < cycle'
               /\ AsAnnounced(table'[k])
    BY <2>1, <2>3 DEF FundingInv
  <2>4. QED
    BY <2>1, <2>2, <2>3 DEF FundingInv, ByTime, AsAnnounced
<1>4. CASE Collectors!FetchFails
  <2>1. attempt > 0 /\ attempt' \in Nat /\ UNCHANGED <<cycle, table, snapshot>>
    BY <1>4 DEF Collectors!FetchFails, FundingInv
  <2>2. Collectors!LastRatePerSettlement'
    BY <2>1, Zenon DEF FundingInv, Collectors!LastRatePerSettlement, Collectors!Announces
  <2>3. QED
    BY <2>1, <2>2 DEF FundingInv, ByTime, AsAnnounced
<1>5. CASE Collectors!MakeSnapshot
  <2>1. /\ UNCHANGED <<attempt, cycle, table>> /\ snapshot'.of = Len(table)
        /\ Len(table) \in 0 .. Len(table)
    BY <1>5 DEF Collectors!MakeSnapshot, FundingInv
  <2>2. Collectors!LastRatePerSettlement'
    BY <1>5, SnapshotSound
  <2>3. QED
    BY <2>1, <2>2 DEF FundingInv, AsAnnounced
<1>6. QED
  BY <1>1, <1>2, <1>3, <1>4, <1>5 DEF Collectors!CollectFunding

(* backfill_top50: the hours that are stored of a symbol are those its      *)
(* loops went through.                                                      *)
Through(l, h) == l.end < h /\ h <= l.from

HasHour(sym, h) == \E row \in stored : row.symbol = sym /\ row.open_time = h

Loaded(sym, h) ==
    h >= exchange.listed[sym] /\ \E l \in Collectors!LoopsOf(sym) : Through(l, h)

RowsInv ==
    /\ \A sym : \A h \in Int : HasHour(sym, h) <=> Loaded(sym, h)
    /\ \A row, other \in stored : Collectors!SameKey(row, other) => row = other
    /\ \A row \in stored : ~row.final =>
          \E l \in Collectors!LoopsOf(row.symbol) : row.open_time = l.from

FillInv ==
    /\ now \in Int /\ from \in Int /\ end \in Int
    /\ queue # << >> => end <= from /\ from <= now
    /\ exchange = None => queue = << >> /\ pages = {} /\ stored = {}
    /\ RowsInv

LEMMA FillSound ==
    ASSUME FillInv
    PROVE  Collectors!HistoryAsLoaded
<1>1. \A h \in 0 .. now : h \in Int
  BY DEF FillInv
<1>2. \A sym : \A h \in 0 .. now :
          HasHour(sym, h) <=>
             h >= exchange.listed[sym]
             /\ \E l \in Collectors!LoopsOf(sym) : l.end < h /\ h <= l.from
  BY <1>1 DEF FillInv, RowsInv, Loaded, Through
<1>3. SUFFICES ASSUME NEW sym, NEW of, of = {row \in stored : row.symbol = sym}
               PROVE  /\ \A h \in 0 .. now :
                            (\E row \in of : row.open_time = h) <=>
                               /\ h >= exchange.listed[sym]
                               /\ \E l \in Collectors!LoopsOf(sym) :
                                     l.end < h /\ h <= l.from
                      /\ \A row, other \in of :
                            Collectors!SameKey(row, other) => row = other
                      /\ \A row \in of : ~row.final =>
                            \E l \in Collectors!LoopsOf(sym) : row.open_time = l.from
  BY Zenon DEF Collectors!HistoryAsLoaded
<1>4. \A h : (\E row \in of : row.open_time = h) <=> HasHour(sym, h)
  BY <1>3 DEF HasHour
<1>5. /\ \A row, other \in of : Collectors!SameKey(row, other) => row = other
      /\ \A row \in of : ~row.final =>
            \E l \in Collectors!LoopsOf(sym) : row.open_time = l.from
  BY <1>3, Zenon DEF FillInv, RowsInv
<1>6. QED
  BY <1>2, <1>4, <1>5, Zenon

(* A step that begins or ends loops and stores nothing. *)
LEMMA LoopsKeep ==
    ASSUME FillInv, UNCHANGED <<exchange, stored>>,
           \A sym : /\ Collectors!LoopsOf(sym) \subseteq Collectors!LoopsOf(sym)'
                    /\ \A l \in Collectors!LoopsOf(sym)' : \A h \in Int :
                          Through(l, h) => l \in Collectors!LoopsOf(sym)
    PROVE  RowsInv'
<1>1. \A sym : \A h \in Int : Loaded(sym, h)' <=> Loaded(sym, h)
  <2>1. SUFFICES ASSUME NEW sym, NEW h \in Int PROVE Loaded(sym, h)' <=> Loaded(sym, h)
    BY Zenon
  <2>2. /\ Collectors!LoopsOf(sym) \subseteq Collectors!LoopsOf(sym)'
        /\ \A l \in Collectors!LoopsOf(sym)' :
              Through(l, h) => l \in Collectors!LoopsOf(sym)
    BY Zenon
  <2>3. (\E l \in Collectors!LoopsOf(sym)' : Through(l, h))
          <=> \E l \in Collectors!LoopsOf(sym) : Through(l, h)
    BY <2>2, Zenon
  <2>4. QED
    BY <2>3, Zenon DEF Loaded, Through
<1>2. \A sym : \A h \in Int : HasHour(sym, h)' <=> HasHour(sym, h)
  BY Zenon DEF HasHour
<1>3. \A sym : \A h \in Int : HasHour(sym, h)' <=> Loaded(sym, h)'
  BY <1>1, <1>2, Zenon DEF FillInv, RowsInv
<1>4. \A row, other \in stored' : Collectors!SameKey(row, other) => row = other
  BY Zenon DEF FillInv, RowsInv
<1>5. \A row \in stored' : ~row.final =>
          \E l \in Collectors!LoopsOf(row.symbol)' : row.open_time = l.from
  BY Zenon DEF FillInv, RowsInv
<1>6. QED
  BY <1>3, <1>4, <1>5, Zenon DEF RowsInv, Collectors!SameKey

LEMMA LeastOfPage ==
    ASSUME FillInv, Collectors!Batch # {}
    PROVE  /\ Collectors!NextEnd(Collectors!Batch) + 1 \in Collectors!Batch
           /\ Collectors!NextEnd(Collectors!Batch) \in Int
           /\ \A h \in Collectors!Batch :
                 Collectors!NextEnd(Collectors!Batch) + 1 <= h
<1> DEFINE first == end - PAGE + 1
           hours == Collectors!Batch
           S == {h - first : h \in hours}
<1>1. first \in Int /\ end \in Int
  BY CollectorParams DEF FillInv
<1>2. \A h \in hours : h \in Int /\ first <= h
  BY <1>1 DEF Collectors!Batch
<1> HIDE DEF first, hours
<1>3. S \in SUBSET Nat /\ S # {}
  BY <1>1, <1>2 DEF hours
<1> HIDE DEF S
<1>4. PICK n \in S : \A m \in S : n <= m
  BY <1>3, Smallest
<1>5. PICK least \in hours : n = least - first
  BY <1>4 DEF S
<1>6. \A k \in hours : least <= k
  <2>1. ASSUME NEW k \in hours PROVE least <= k
    <3>1. k - first \in S
      BY DEF S
    <3>2. QED
      BY <1>1, <1>2, <1>4, <1>5, <3>1
  <2>2. QED
    BY <2>1
<1>7. Collectors!NextEnd(hours) = least - 1
  <2>1. \A k \in hours : (\A m \in hours : k <= m) => k = least
    BY <1>2, <1>5, <1>6
  <2>2. QED
    BY <1>5, <1>6, <2>1 DEF Collectors!NextEnd
<1>8. QED
  BY <1>2, <1>5, <1>6, <1>7 DEF hours

(* A page ends where the last one began, and is stored from its least hour. *)
LEMMA PageBounds ==
    ASSUME NEW before \in Int, NEW last \in Int, NEW top \in Int, NEW size \in Int,
           before + 1 \in last - size + 1 .. last, last <= top
    PROVE  /\ before <= top
           /\ \A h \in Int :
                 /\ (before < h /\ h <= top)
                      <=> (last < h /\ h <= top) \/ h \in before + 1 .. last
                 /\ h \in before + 1 .. last => h \in last - size + 1 .. last
  OBVIOUS

LEMMA PageKeeps ==
    ASSUME FillInv, Collectors!Page
    PROVE  FillInv'
<1> DEFINE CandleOf(h) == [symbol |-> Collectors!Sym, open_time |-> h, final |-> h < now]
           new == {CandleOf(h) : h \in Collectors!Batch}
<1>1. /\ queue # << >> /\ Collectors!Batch # {} /\ exchange # None
      /\ end' = Collectors!NextEnd(Collectors!Batch)
      /\ UNCHANGED <<exchange, now, queue, from, pages>>
  BY DEF Collectors!Page, FillInv
<1>2. stored' = stored \cup {row \in new : \A other \in stored :
                               ~Collectors!SameKey(row, other)}
  BY DEF Collectors!Page, Collectors!InsertOrIgnore
<1>3. /\ end' \in Int /\ end' + 1 \in Collectors!Batch
      /\ \A h \in Collectors!Batch : end' + 1 <= h
      /\ now \in Int /\ from \in Int /\ end \in Int /\ PAGE \in Int
      /\ end <= from /\ from <= now
  BY <1>1, LeastOfPage, CollectorParams DEF FillInv
<1>4. \A h : h \in Collectors!Batch
               <=> h \in end - PAGE + 1 .. end /\ h >= exchange.listed[Collectors!Sym]
  BY DEF Collectors!Batch
<1>a. end' \in Int /\ end \in Int /\ from \in Int /\ PAGE \in Int /\ end <= from
  BY <1>3
<1>b. end' + 1 \in end - PAGE + 1 .. end
  BY <1>3, <1>4, Zenon
<1>c. /\ end' <= from
      /\ \A h \in Int :
            /\ (end' < h /\ h <= from)
                 <=> (end < h /\ h <= from) \/ h \in end' + 1 .. end
            /\ h \in end' + 1 .. end => h \in end - PAGE + 1 .. end
  BY <1>a, <1>b, PageBounds, Zenon
<1>5. Collectors!Sym' = Collectors!Sym
  BY <1>1 DEF Collectors!Sym
<1>6. \A row \in new : /\ row.symbol = Collectors!Sym /\ row.open_time \in Collectors!Batch
                       /\ row = CandleOf(row.open_time)
                       /\ row.final <=> row.open_time < now
  <2>1. ASSUME NEW h \in Collectors!Batch
        PROVE  /\ CandleOf(h).symbol = Collectors!Sym /\ CandleOf(h).open_time = h
               /\ CandleOf(h).final <=> h < now
    OBVIOUS
  <2> HIDE DEF CandleOf
  <2>2. QED
    BY <2>1
<1>7. \A h \in Collectors!Batch :
          CandleOf(h) \in new /\ CandleOf(h).symbol = Collectors!Sym /\ CandleOf(h).open_time = h
  OBVIOUS
<1> HIDE DEF new
<1>8. ASSUME NEW sym, NEW h \in Int
      PROVE  HasHour(sym, h)'
               <=> HasHour(sym, h) \/ (sym = Collectors!Sym /\ h \in Collectors!Batch)
  <2> HIDE DEF CandleOf
  <2>1. HasHour(sym, h) => HasHour(sym, h)'
    BY <1>2 DEF HasHour
  <2>2. ASSUME sym = Collectors!Sym, h \in Collectors!Batch PROVE HasHour(sym, h)'
    <3>1. CASE \E other \in stored : Collectors!SameKey(CandleOf(h), other)
      BY <1>7, <2>1, <2>2, <3>1 DEF HasHour, Collectors!SameKey
    <3>2. CASE ~\E other \in stored : Collectors!SameKey(CandleOf(h), other)
      <4>1. CandleOf(h) \in stored'
        BY <1>2, <1>7, <2>2, <3>2
      <4>2. QED
        BY <1>7, <2>2, <4>1 DEF HasHour
    <3>3. QED
      BY <3>1, <3>2
  <2>3. ASSUME HasHour(sym, h)'
        PROVE  HasHour(sym, h) \/ (sym = Collectors!Sym /\ h \in Collectors!Batch)
    <3>1. PICK row \in stored' : row.symbol = sym /\ row.open_time = h
      BY <2>3 DEF HasHour
    <3>2. row \in stored \/ row \in new
      BY <1>2
    <3>3. QED
      BY <1>6, <3>1, <3>2 DEF HasHour
  <2>4. QED
    BY <2>1, <2>2, <2>3
<1>9. Collectors!Loop.symbol = Collectors!Sym /\ Collectors!Loop.from = from
      /\ Collectors!Loop.end = end
  BY DEF Collectors!Loop
<1>10. Collectors!Loop'.symbol = Collectors!Sym /\ Collectors!Loop'.from = from
       /\ Collectors!Loop'.end = end'
  BY <1>1, <1>5 DEF Collectors!Loop
<1>11. ASSUME NEW sym, NEW l
       PROVE  /\ l \in Collectors!LoopsOf(sym) <=>
                    (l \in pages \/ l = Collectors!Loop) /\ l.symbol = sym
              /\ l \in Collectors!LoopsOf(sym)' <=>
                    (l \in pages \/ l = Collectors!Loop') /\ l.symbol = sym
  BY <1>1 DEF Collectors!LoopsOf
<1>12. ASSUME NEW sym, NEW h \in Int
       PROVE  (\E l \in Collectors!LoopsOf(sym)' : Through(l, h))
                <=> \/ \E l \in Collectors!LoopsOf(sym) : Through(l, h)
                    \/ (sym = Collectors!Sym /\ h \in end' + 1 .. end)
  <2> DEFINE Old == \E l \in pages : l.symbol = sym /\ Through(l, h)
  <2>1. (\E l \in Collectors!LoopsOf(sym) : Through(l, h))
          <=> Old \/ (sym = Collectors!Sym /\ Through(Collectors!Loop, h))
    BY <1>9, <1>11
  <2>2. (\E l \in Collectors!LoopsOf(sym)' : Through(l, h))
          <=> Old \/ (sym = Collectors!Sym /\ Through(Collectors!Loop', h))
    BY <1>10, <1>11
  <2>3. Through(Collectors!Loop, h) <=> end < h /\ h <= from
    BY <1>9 DEF Through
  <2>4. Through(Collectors!Loop', h) <=> end' < h /\ h <= from
    BY <1>10 DEF Through
  <2>5. (end' < h /\ h <= from) <=> (end < h /\ h <= from) \/ h \in end' + 1 .. end
    BY <1>c, Zenon
  <2> HIDE DEF Old
  <2>6. QED
    BY <2>1, <2>2, <2>3, <2>4, <2>5, Zenon
<1>13. ASSUME NEW sym, NEW h \in Int
       PROVE  HasHour(sym, h)' <=> Loaded(sym, h)'
  <2>1. HasHour(sym, h) <=> Loaded(sym, h)
    BY DEF FillInv, RowsInv
  <2>2. Loaded(sym, h)' <=> h >= exchange.listed[sym]
                             /\ \E l \in Collectors!LoopsOf(sym)' : Through(l, h)
    BY <1>1 DEF Loaded, Through
  <2>3. h \in Collectors!Batch
          <=> h \in end' + 1 .. end /\ h >= exchange.listed[Collectors!Sym]
    <3>1. h \in Collectors!Batch => h \in end' + 1 .. end
      BY <1>3, <1>4
    <3>2. h \in end' + 1 .. end => h \in end - PAGE + 1 .. end
      BY <1>c, Zenon
    <3>3. QED
      BY <1>4, <3>1, <3>2
  <2>4. QED
    BY <1>8, <1>12, <2>1, <2>2, <2>3 DEF Loaded
<1>14. \A row, other \in stored' : Collectors!SameKey(row, other) => row = other
  <2>1. \A row, other \in stored : Collectors!SameKey(row, other) => row = other
    BY DEF FillInv, RowsInv
  <2>2. \A row, other \in new : Collectors!SameKey(row, other) => row = other
    <3> HIDE DEF CandleOf
    <3>1. QED
      BY <1>6 DEF Collectors!SameKey
  <2>3. QED
    BY <1>2, <2>1, <2>2 DEF Collectors!SameKey
<1>15. ASSUME NEW row \in stored', ~row.final
       PROVE  \E l \in Collectors!LoopsOf(row.symbol)' : row.open_time = l.from
  <2>1. CASE row \in stored
    <3>1. PICK l \in Collectors!LoopsOf(row.symbol) : row.open_time = l.from
      BY <1>15, <2>1 DEF FillInv, RowsInv
    <3>2. l \in Collectors!LoopsOf(row.symbol)'
          \/ (Collectors!Loop' \in Collectors!LoopsOf(row.symbol)' /\ l.from = from)
      BY <1>9, <1>10, <1>11, <3>1
    <3>3. QED
      BY <1>10, <3>1, <3>2
  <2>2. CASE row \notin stored
    <3>1. row \in new
      BY <1>2, <1>15, <2>2
    <3>2. /\ row.symbol = Collectors!Sym /\ row.open_time \in Collectors!Batch
          /\ row.final <=> row.open_time < now
      BY <1>6, <3>1
    <3>3. ~(row.open_time < now)
      BY <1>15, <3>2
    <3>4. row.open_time = from
      BY <1>3, <1>4, <3>2, <3>3
    <3>5. Collectors!Loop' \in Collectors!LoopsOf(row.symbol)'
      BY <1>10, <1>11, <3>2
    <3>6. QED
      BY <1>10, <3>4, <3>5
  <2>3. QED
    BY <2>1, <2>2
<1>16. RowsInv'
  BY <1>13, <1>14, <1>15, Zenon DEF RowsInv, Collectors!SameKey
<1>17. QED
  BY <1>1, <1>3, <1>16, <1>c DEF FillInv

LEMMA FillStep ==
    ASSUME FillInv,
           \/ Collectors!Backfill
           \/ \E e \in Exchanges : Collectors!Start(e)
           \/ UNCHANGED fillVars
    PROVE  FillInv'
<1> DEFINE Present == IF queue = << >> THEN {} ELSE {Collectors!Loop}
<1>1. \A sym, l : l \in Collectors!LoopsOf(sym)
                    <=> (l \in pages \/ l \in Present) /\ l.symbol = sym
  BY DEF Collectors!LoopsOf
<1>2. \A sym, l : l \in Collectors!LoopsOf(sym)'
                    <=> (l \in pages' \/ l \in Present') /\ l.symbol = sym
  BY DEF Collectors!LoopsOf
<1>3. CASE UNCHANGED fillVars \/ Collectors!Tick
  <2>1. /\ UNCHANGED <<exchange, queue, from, end, stored, pages>>
        /\ now' = now \/ now' = now + 1
    BY <1>3 DEF fillVars, Collectors!Tick
  <2>2. Present' = Present
    BY <2>1 DEF Collectors!Loop, Collectors!Sym
  <2>3. RowsInv'
    <3>1. \A sym : Collectors!LoopsOf(sym)' = Collectors!LoopsOf(sym)
      BY <2>1 DEF Collectors!LoopsOf, Collectors!Loop, Collectors!Sym
    <3>2. QED
      BY <2>1, <3>1, LoopsKeep
  <2>4. QED
    BY <2>1, <2>3 DEF FillInv
<1>4. CASE \E e \in Exchanges : Collectors!Start(e)
  <2>1. /\ queue' = << >> /\ pages' = {} /\ stored' = {}
        /\ UNCHANGED <<now, from, end>>
    BY <1>4 DEF Collectors!Start, FillInv
  <2>2. RowsInv'
    BY <1>2, <2>1 DEF RowsInv, HasHour, Loaded
  <2>3. QED
    BY <2>1, <2>2 DEF FillInv
<1>5. CASE Collectors!Begin
  <2>1. /\ exchange' = exchange /\ exchange # None /\ now' = now /\ queue = << >>
        /\ from' = now /\ end' = now /\ pages' = pages /\ stored' = stored
        /\ now \in Int
    BY <1>5 DEF Collectors!Begin, FillInv
  <2>2. Present = {} /\ \A l \in Present' : l.from = now /\ l.end = now
    BY <2>1 DEF Collectors!Loop
  <2>3. RowsInv'
    BY <1>1, <1>2, <2>1, <2>2, LoopsKeep DEF Through
  <2>4. QED
    BY <2>1, <2>3 DEF FillInv
<1>6. CASE Collectors!Page
  BY <1>6, PageKeeps
<1>7. CASE Collectors!NextSymbol
  <2>1. /\ queue # << >> /\ end' = from /\ from' = from /\ now' = now
        /\ pages' = pages \cup {Collectors!Loop}
        /\ exchange' = exchange /\ stored' = stored /\ exchange # None
        /\ from \in Int /\ from <= now
    BY <1>7 DEF Collectors!NextSymbol, FillInv
  <2>2. /\ Present = {Collectors!Loop}
        /\ \A l \in Present' : l.from = from /\ l.end = from
    BY <2>1 DEF Collectors!Loop
  <2>3. RowsInv'
    BY <1>1, <1>2, <2>1, <2>2, LoopsKeep DEF Through
  <2>4. QED
    BY <2>1, <2>3 DEF FillInv
<1>8. CASE Collectors!Kill
  <2>1. /\ queue # << >> /\ queue' = << >> /\ pages' = pages \cup {Collectors!Loop}
        /\ UNCHANGED <<exchange, now, from, end, stored>> /\ exchange # None
    BY <1>8 DEF Collectors!Kill, FillInv
  <2>2. Present = {Collectors!Loop} /\ Present' = {}
    BY <2>1
  <2>3. RowsInv'
    BY <1>1, <1>2, <2>1, <2>2, LoopsKeep
  <2>4. QED
    BY <2>1, <2>3 DEF FillInv
<1>9. QED
  BY <1>3, <1>4, <1>5, <1>6, <1>7, <1>8 DEF Collectors!Backfill

-----------------------------------------------------------------------------
(* Paper trading.  The settlements from an entry to a time, the last of     *)
(* them that were low in a row, and when a position is not given up.        *)
LowRow(entry, t) ==
    {s \in Paper!SettledIn(entry, t) :
        \A r \in Paper!SettledIn(entry, t) :
            r >= s => Paper!Rate(r) < costs.settlement}

NotGivenUp(entry, last) ==
    \A t \in Paper!SettledIn(entry, last) :
        Cardinality(LowRow(entry, t)) < LOW_FUNDING_CONSECUTIVE

IsPosition(p) ==
    p = [entry |-> p.entry, last |-> p.last, count |-> p.count,
         income |-> p.income, streak |-> p.streak]

PositionInv ==
    /\ IsPosition(position)
    /\ position.entry \in 1 .. data.now
    /\ position.last \in position.entry .. data.now
    /\ position.last <= position.entry + MAX_HOLDING_HOURS
    /\ position.income
         = Paper!SumOfRates(Paper!SettledIn(position.entry, position.last))
    /\ NotGivenUp(position.entry, position.last)
    /\ position.streak = Cardinality(LowRow(position.entry, position.last))
    /\ Paper!LastExit <= position.entry

TradeInv(t) ==
    /\ t.entry \in Nat /\ t.exit \in Nat /\ t.exit <= data.now
    /\ t.exit - t.entry <= MAX_HOLDING_HOURS
    /\ t.income = Paper!SumOfRates(Paper!SettledIn(t.entry, t.exit))
    /\ t.reason = "funding_decayed" =>
          Cardinality(LowRow(t.entry, t.exit)) >= LOW_FUNDING_CONSECUTIVE
    /\ \A s \in Paper!SettledIn(t.entry, t.exit) :
          s < t.exit => Cardinality(LowRow(t.entry, s)) < LOW_FUNDING_CONSECUTIVE

PaperInv ==
    /\ \E S : paid \in Seq(S)
    /\ data = None => paid = << >> /\ position = None /\ todo = {}
    /\ data # None => data \in PaperInputs /\ todo \subseteq 1 .. data.now
    /\ position # None => PositionInv
    /\ \A k \in 1 .. Len(paid) : TradeInv(paid[k])
    /\ Paper!OnePositionPerSymbol

Times == Paper!SettlementTimes(data.snapshots)

LEMMA LowestIs ==
    ASSUME NEW S \in SUBSET Nat, S # {}
    PROVE  Paper!Lowest(S) \in S /\ \A n \in S : Paper!Lowest(S) <= n
  BY Smallest DEF Paper!Lowest

(* Of the snapshots of a settlement one was received last. *)
LEMMA RateIsInt ==
    ASSUME data \in PaperInputs, NEW time \in Times
    PROVE  Paper!Rate(time) \in Int /\ time \in Nat
<1> DEFINE of == {s \in data.snapshots : s.next = time}
           Received == {r.received : r \in of}
<1>1. /\ IsFiniteSet(data.snapshots)
      /\ \A s \in data.snapshots :
            s.next \in Nat \cup {None} /\ s.received \in Int /\ s.rate \in Int
  BY PaperParams, Zenon
<1>2. time \in Nat /\ of # {}
  BY <1>1 DEF Times, Paper!SettlementTimes
<1>3. PICK n \in Nat : \E f \in Surjection(1 .. n, of) : TRUE
  <2>1. IsFiniteSet(of)
    BY <1>1, FS_Subset
  <2> HIDE DEF of
  <2>2. QED
    BY <2>1, FS_NatSurjection DEF ExistsSurjection
<1>4. PICK f \in Surjection(1 .. n, of) : TRUE
  BY <1>3
<1>5. f \in [1 .. n -> of] /\ \A s \in of : \E i \in 1 .. n : f[i] = s
  BY <1>4 DEF Surjection
<1> DEFINE g == [i \in 1 .. n |-> f[i].received]
<1>6. \A i \in 1 .. n : g[i] \in Int
  BY <1>1, <1>5
<1> HIDE DEF g
<1>7. PICK top \in Int : \A i \in 1 .. n : g[i] <= top
  BY <1>6, Bounded
<1>8. Received \in SUBSET Int /\ Received # {} /\ \A r \in Received : r <= top
  <2>1. \A s \in of : s.received <= top
    BY <1>5, <1>7 DEF g
  <2>2. QED
    BY <1>1, <1>2, <2>1
<1> HIDE DEF Received
<1>9. PICK r \in Received : \A other \in Received : other <= r
  BY <1>8, Greatest
<1>10. Paper!Highest(Received) \in Received
  BY <1>9, Zenon DEF Paper!Highest
<1>11. \E s \in of : s.received = Paper!Highest(Received)
  BY <1>10 DEF Received
<1>12. (CHOOSE s \in of : s.received = Paper!Highest(Received)) \in data.snapshots
  BY <1>11
<1>13. Paper!Rate(time) = (CHOOSE s \in of : s.received = Paper!Highest(Received)).rate
  BY Zenon DEF Paper!Rate, Paper!RateOf, Received
<1>14. QED
  BY <1>1, <1>2, <1>12, <1>13

(* The sum of the rates of some settlements, hour by hour. *)
IsSum(f, times) ==
    f = [t \in 0 .. data.now |->
            IF t = 0 THEN 0
            ELSE IF t \in times THEN f[t - 1] + Paper!Rate(t) ELSE f[t - 1]]

SumTo(times) == CHOOSE f : IsSum(f, times)

LEMMA SumIs ==
    ASSUME data \in PaperInputs, NEW times \in SUBSET Times
    PROVE  /\ data.now \in Nat
           /\ Paper!SumOfRates(times) = SumTo(times)[data.now]
           /\ SumTo(times)[0] = 0
           /\ \A t \in 0 .. data.now : SumTo(times)[t] \in Int
           /\ \A t \in 1 .. data.now :
                 SumTo(times)[t] = IF t \in times
                                   THEN SumTo(times)[t - 1] + Paper!Rate(t)
                                   ELSE SumTo(times)[t - 1]
<1> DEFINE n == data.now
           Step(t, x) == IF t \in times THEN x + Paper!Rate(t) ELSE x
           g == [t \in 1 .. n |-> [x \in Int |-> Step(t, x)]]
<1>1. n \in Nat
  BY PaperParams, Zenon
<1>2. ASSUME NEW t \in 1 .. n, NEW x \in Int PROVE Step(t, x) \in Int
  <2>1. CASE t \in times
    <3>1. Paper!Rate(t) \in Int
      BY <2>1, RateIsInt
    <3>2. QED
      BY <2>1, <3>1
  <2>2. CASE t \notin times
    BY <2>2
  <2>3. QED
    BY <2>1, <2>2
<1> HIDE DEF Step
<1>3. \A t \in 1 .. n : \A x \in Int : g[t][x] = Step(t, x)
  OBVIOUS
<1>4. \A t \in 1 .. n : \A x \in Int : g[t][x] \in Int
  BY <1>2, <1>3
<1> HIDE DEF g, n
<1>5. PICK f : IsLoop(f, n, 0, g) /\ AllIn(f, n, Int)
  <2>1. 0 \in Int
    OBVIOUS
  <2>2. QED
    BY <1>1, <1>4, <2>1, LoopExists, Zenon
<1>6. IsSum(f, times)
  <2>1. ASSUME NEW t \in 0 .. n
        PROVE  (IF t = 0 THEN 0 ELSE g[t][f[t - 1]])
                 = (IF t = 0 THEN 0
                    ELSE IF t \in times THEN f[t - 1] + Paper!Rate(t) ELSE f[t - 1])
    <3>1. CASE t = 0
      BY <3>1
    <3>2. CASE t # 0
      <4>1. t \in 1 .. n /\ t - 1 \in 0 .. n
        BY <1>1, <3>2
      <4>2. g[t][f[t - 1]] = Step(t, f[t - 1])
        BY <1>3, <1>5, <4>1 DEF AllIn
      <4>3. QED
        BY <3>2, <4>2 DEF Step
    <3>3. QED
      BY <3>1, <3>2
  <2>2. QED
    BY <1>5, <2>1, Zenon DEF IsSum, IsLoop, n
<1>7. IsSum(SumTo(times), times)
  BY <1>6, Zenon DEF SumTo
<1>8. Paper!SumOfRates(times) = SumTo(times)[n]
  BY Zenon DEF Paper!SumOfRates, SumTo, IsSum, n
<1> DEFINE h == SumTo(times)
<1>9. h[0] = 0 /\ \A t \in 1 .. n : h[t] = Step(t, h[t - 1])
  <2>1. 0 \in 0 .. n /\ \A k \in 1 .. n : k \in 0 .. n /\ k # 0
    BY <1>1
  <2>2. QED
    BY <1>7, <2>1 DEF IsSum, Step, n
<1> HIDE DEF h
<1> DEFINE P == {t \in 0 .. n : h[t] \in Int}
<1>10. 0 \in P
  BY <1>1, <1>9
<1>11. ASSUME NEW t \in 1 .. n, t - 1 \in P PROVE t \in P
  <2>1. h[t] \in Int
    BY <1>2, <1>9, <1>11
  <2>2. QED
    BY <1>1, <2>1
<1> HIDE DEF P
<1>12. \A t \in 0 .. n : t \in P
  BY <1>1, <1>10, <1>11, StepByStep
<1>13. \A t \in 0 .. n : h[t] \in Int
  BY <1>12 DEF P
<1>14. QED
  BY <1>1, <1>8, <1>9, <1>13 DEF h, n, Step

LEMMA SumOfNone ==
    ASSUME data \in PaperInputs
    PROVE  Paper!SumOfRates({}) = 0
<1> DEFINE h == SumTo({})
           P == {t \in 0 .. data.now : h[t] = 0}
<1>1. /\ data.now \in Nat /\ Paper!SumOfRates({}) = h[data.now] /\ h[0] = 0
      /\ \A t \in 1 .. data.now : h[t] = h[t - 1]
  BY SumIs
<1> HIDE DEF h
<1>2. 0 \in P /\ \A t \in 1 .. data.now : t - 1 \in P => t \in P
  BY <1>1
<1> HIDE DEF P
<1>3. \A t \in 0 .. data.now : t \in P
  BY <1>1, <1>2, StepByStep
<1>4. QED
  BY <1>1, <1>3 DEF P

(* A later settlement adds its rate. *)
LEMMA SumOfMore ==
    ASSUME data \in PaperInputs, NEW times \in SUBSET Times,
           NEW next \in Times, next \in 1 .. data.now,
           \A t \in times : t < next
    PROVE  Paper!SumOfRates(times \cup {next})
             = Paper!SumOfRates(times) + Paper!Rate(next)
<1> DEFINE more == times \cup {next}
           f == SumTo(times)
           h == SumTo(more)
           P == {t \in 0 .. data.now :
                   h[t] = IF t < next THEN f[t] ELSE f[t] + Paper!Rate(next)}
<1>1. /\ data.now \in Nat /\ Paper!SumOfRates(times) = f[data.now] /\ f[0] = 0
      /\ \A t \in 0 .. data.now : f[t] \in Int
      /\ \A t \in 1 .. data.now :
            f[t] = IF t \in times THEN f[t - 1] + Paper!Rate(t) ELSE f[t - 1]
  BY SumIs
<1>2. /\ Paper!SumOfRates(more) = h[data.now] /\ h[0] = 0
      /\ \A t \in 1 .. data.now :
            h[t] = IF t \in more THEN h[t - 1] + Paper!Rate(t) ELSE h[t - 1]
  <2>1. more \in SUBSET Times
    OBVIOUS
  <2> HIDE DEF more
  <2>2. QED
    BY <2>1, SumIs
<1>3. Paper!Rate(next) \in Int
  BY RateIsInt
<1> HIDE DEF f, h
<1>4. 0 \in P
  BY <1>1, <1>2
<1>5. ASSUME NEW t \in 1 .. data.now, t - 1 \in P PROVE t \in P
  <2>1. /\ h[t - 1] = IF t - 1 < next THEN f[t - 1] ELSE f[t - 1] + Paper!Rate(next)
        /\ f[t - 1] \in Int /\ t \in 0 .. data.now
    BY <1>1, <1>5
  <2>2. CASE t < next
    <3>1. t \in more <=> t \in times
      BY <2>2
    <3>2. h[t] = f[t]
      BY <1>1, <1>2, <2>1, <2>2, <3>1
    <3>3. QED
      BY <2>1, <2>2, <3>2
  <2>3. CASE t = next
    <3>1. t \in more /\ t \notin times
      BY <2>3
    <3>2. h[t] = f[t] + Paper!Rate(next)
      BY <1>1, <1>2, <2>1, <2>3, <3>1
    <3>3. QED
      BY <2>1, <2>3, <3>2
  <2>4. CASE t > next
    <3>1. t \notin more /\ t \notin times
      BY <2>4
    <3>2. h[t] = f[t] + Paper!Rate(next)
      BY <1>1, <1>2, <2>1, <2>4, <3>1
    <3>3. QED
      BY <2>1, <2>4, <3>2
  <2>5. QED
    BY <2>2, <2>3, <2>4
<1> HIDE DEF P
<1>6. \A t \in 0 .. data.now : t \in P
  BY <1>1, <1>4, <1>5, StepByStep
<1>7. data.now \in P /\ ~(data.now < next)
  BY <1>1, <1>6
<1>8. QED
  BY <1>1, <1>2, <1>7 DEF P

(* What a position has come to, and the settlements that are to come. *)
LEMMA PositionIs ==
    ASSUME PaperInv, position # None
    PROVE  /\ data \in PaperInputs /\ data # None /\ data.now \in Nat
           /\ position.entry \in 1 .. data.now /\ position.entry \in Nat
           /\ position.last \in position.entry .. data.now /\ position.last \in Nat
           /\ Paper!Horizon \in Nat /\ position.last <= Paper!Horizon
           /\ Times \in SUBSET Nat
           /\ Paper!Coming \in SUBSET Nat /\ Paper!Coming \subseteq Times
           /\ \A t \in Paper!Coming : position.last < t /\ t <= data.now
<1>1. data # None /\ data \in PaperInputs
  BY DEF PaperInv
<1>2. data.now \in Nat /\ MAX_HOLDING_HOURS \in Nat
  BY <1>1, PaperParams, Zenon
<1>3. PositionInv
  BY DEF PaperInv
<1>4. Times \in SUBSET Nat
  BY <1>1, RateIsInt
<1>5. Paper!Coming \subseteq Times /\
      \A t \in Paper!Coming : position.last < t /\ t <= data.now
  BY <1>2, <1>3, <1>4 DEF PositionInv, Paper!Coming, Times
<1>6. QED
  BY <1>1, <1>2, <1>3, <1>4, <1>5 DEF PositionInv, Paper!Horizon

LEMMA SettlementIs ==
    ASSUME PaperInv, position # None, Paper!Coming # {}
    PROVE  /\ Paper!Settlement \in Times /\ Paper!Settlement \in 1 .. data.now
           /\ Paper!Settlement \in Paper!Coming /\ position.last < Paper!Settlement
           /\ \A t \in Paper!Coming : Paper!Settlement <= t
<1>1. Paper!Settlement \in Paper!Coming /\ \A t \in Paper!Coming : Paper!Settlement <= t
  BY PositionIs, LowestIs DEF Paper!Settlement
<1>2. QED
  BY <1>1, PositionIs

(* Until the next settlement nothing is added to what is held, ... *)
LEMMA NothingYet ==
    ASSUME PaperInv, position # None, NEW t \in Nat,
           position.last <= t, t <= data.now,
           \A next \in Paper!Coming : t < next
    PROVE  Paper!SettledIn(position.entry, t)
             = Paper!SettledIn(position.entry, position.last)
<1>1. /\ Times \in SUBSET Nat /\ data.now \in Nat
      /\ position.entry \in Nat /\ position.last \in Nat
      /\ position.entry <= position.last
  BY PositionIs
<1>2. ASSUME NEW x \in Times
      PROVE  x > position.entry /\ x <= t <=> x > position.entry /\ x <= position.last
  <2>1. x \in Nat
    BY <1>1
  <2>2. x > position.last /\ x <= t => x \in Paper!Coming
    BY <1>1, <2>1 DEF Paper!Coming, Times
  <2>3. QED
    BY <1>1, <2>1, <2>2
<1>3. QED
  BY <1>2 DEF Paper!SettledIn, Times

(* ... which then is that settlement. *)
LEMMA OneMore ==
    ASSUME PaperInv, position # None, Paper!Coming # {}
    PROVE  LET held == Paper!SettledIn(position.entry, position.last)
           IN  /\ Paper!SettledIn(position.entry, Paper!Settlement)
                    = held \cup {Paper!Settlement}
               /\ held \in SUBSET Times
               /\ \A t \in held : t < Paper!Settlement
               /\ Paper!Settlement \notin held
<1>1. /\ Times \in SUBSET Nat /\ data.now \in Nat
      /\ position.entry \in Nat /\ position.last \in Nat
      /\ position.entry <= position.last
  BY PositionIs
<1>2. /\ Paper!Settlement \in Times /\ Paper!Settlement \in 1 .. data.now
      /\ position.last < Paper!Settlement
      /\ \A t \in Paper!Coming : Paper!Settlement <= t
  BY SettlementIs
<1>3. ASSUME NEW x \in Times
      PROVE  x > position.entry /\ x <= Paper!Settlement
               <=> (x > position.entry /\ x <= position.last) \/ x = Paper!Settlement
  <2>1. x \in Nat
    BY <1>1
  <2>2. x > position.last /\ x <= data.now => x \in Paper!Coming
    BY <1>1, <2>1 DEF Paper!Coming, Times
  <2>3. QED
    BY <1>1, <1>2, <2>1, <2>2
<1>4. Paper!SettledIn(position.entry, Paper!Settlement)
        = Paper!SettledIn(position.entry, position.last) \cup {Paper!Settlement}
  BY <1>2, <1>3 DEF Paper!SettledIn, Times
<1>5. ASSUME NEW x \in Paper!SettledIn(position.entry, position.last)
      PROVE  x \in Times /\ x < Paper!Settlement
  <2>1. x \in Times /\ x <= position.last
    BY DEF Paper!SettledIn, Times
  <2>2. x \in Nat
    BY <1>1, <2>1
  <2>3. QED
    BY <1>1, <1>2, <2>1, <2>2
<1>6. QED
  BY <1>2, <1>4, <1>5

(* The row of low settlements grows by one that is low, and is over after   *)
(* one that is not: as streak counts them.                                  *)
LEMMA RowCounted ==
    ASSUME PaperInv, position # None, Paper!Coming # {}
    PROVE  Cardinality(LowRow(position.entry, Paper!Settlement))
             = Paper!Streak(Paper!Rate(Paper!Settlement))
<1> DEFINE next == Paper!Settlement
           held == Paper!SettledIn(position.entry, position.last)
           before == LowRow(position.entry, position.last)
           after == LowRow(position.entry, next)
<1>1. /\ Paper!SettledIn(position.entry, next) = held \cup {next}
      /\ held \in SUBSET Times /\ (\A t \in held : t < next) /\ next \notin held
  BY OneMore
<1>2. next \in Nat /\ \A t \in held : t \in Nat
  BY <1>1, PositionIs, SettlementIs
<1>3. position.streak = Cardinality(before)
  BY DEF PaperInv, PositionInv
<1>4. IsFiniteSet(before)
  <2>1. before \subseteq 1 .. data.now /\ data.now \in Nat
    <3>1. ASSUME NEW x \in held PROVE x \in 1 .. data.now
      <4>1. x > position.entry /\ x <= position.last
        BY DEF Paper!SettledIn
      <4>2. QED
        BY <1>2, <4>1, PositionIs
    <3>2. QED
      BY <3>1, PositionIs DEF LowRow
  <2>2. IsFiniteSet(1 .. data.now)
    BY <2>1, FS_Interval
  <2>3. QED
    BY <2>1, <2>2, FS_Subset
<1> DEFINE low(t) == Paper!Rate(t) < costs.settlement
<1>a. before = {s \in held : \A r \in held : r >= s => low(r)}
  BY DEF LowRow
<1>b. after = {s \in held \cup {next} : \A r \in held \cup {next} : r >= s => low(r)}
  BY <1>1 DEF LowRow
<1>c. Paper!Streak(Paper!Rate(next)) = IF low(next) THEN position.streak + 1 ELSE 0
  BY Zenon DEF Paper!Streak
<1> HIDE DEF next, held, before, after, low
<1>5. CASE low(next)
  <2>1. after = before \cup {next}
    BY <1>1, <1>2, <1>5, <1>a, <1>b
  <2>2. next \notin before
    BY <1>1, <1>a
  <2>3. Cardinality(after) = Cardinality(before) + 1
    BY <1>4, <2>1, <2>2, FS_AddElement
  <2>4. QED
    BY <1>3, <1>5, <1>c, <2>3 DEF after, next
<1>6. CASE ~low(next)
  <2>1. after = {}
    BY <1>1, <1>2, <1>6, <1>b
  <2>2. QED
    BY <1>6, <1>c, <2>1, FS_EmptySet DEF after, next
<1>7. QED
  BY <1>5, <1>6

LEMMA SameData ==
    ASSUME UNCHANGED <<costs, data>>
    PROVE  /\ \A e, t : Paper!SettledIn(e, t)' = Paper!SettledIn(e, t)
           /\ \A S : Paper!SumOfRates(S)' = Paper!SumOfRates(S)
           /\ \A e, t : LowRow(e, t)' = LowRow(e, t)
           /\ \A e, t : NotGivenUp(e, t)' <=> NotGivenUp(e, t)
           /\ \A t : TradeInv(t)' <=> TradeInv(t)
<1>1. \A t : Paper!Rate(t)' = Paper!Rate(t)
  BY DEF Paper!Rate, Paper!RateOf
<1>2. \A e, t : Paper!SettledIn(e, t)' = Paper!SettledIn(e, t)
  BY DEF Paper!SettledIn, Paper!SettlementTimes
<1>3. \A S : Paper!SumOfRates(S)' = Paper!SumOfRates(S)
  BY <1>1, Zenon DEF Paper!SumOfRates
<1>4. \A e, t : LowRow(e, t)' = LowRow(e, t)
  BY <1>1, <1>2 DEF LowRow
<1>5. \A e, t : NotGivenUp(e, t)' <=> NotGivenUp(e, t)
  BY <1>2, <1>4 DEF NotGivenUp
<1>6. \A t : TradeInv(t)' <=> TradeInv(t)
  BY <1>2, <1>3, <1>4 DEF TradeInv
<1>7. QED
  BY <1>2, <1>3, <1>4, <1>5, <1>6

(* The trades so far. *)
LEMMA TradesAre ==
    ASSUME PaperInv
    PROVE  /\ Len(paid) \in Nat /\ Paper!LastExit \in Int
           /\ paid # << >> => /\ Len(paid) \in 1 .. Len(paid)
                              /\ Paper!LastExit = paid[Len(paid)].exit
<1>1. Len(paid) \in Nat /\ (paid # << >> => Len(paid) \in 1 .. Len(paid))
  BY DEF PaperInv
<1>2. CASE paid = << >>
  BY <1>1, <1>2 DEF Paper!LastExit
<1>3. CASE paid # << >>
  BY <1>1, <1>3 DEF PaperInv, TradeInv, Paper!LastExit
<1>4. QED
  BY <1>1, <1>2, <1>3

LEMMA EnterKeeps ==
    ASSUME PaperInv, Paper!Enter
    PROVE  PaperInv'
<1>1. /\ UNCHANGED <<costs, data, paid, skipped>> /\ todo # {}
      /\ todo' = todo \ {Paper!Signal} /\ position' = Paper!Entered(Paper!Signal)
      /\ Paper!Signal >= Paper!LastExit
  BY DEF Paper!Enter
<1>2. data # None /\ data \in PaperInputs /\ todo \subseteq 1 .. data.now
  BY <1>1 DEF PaperInv
<1>3. data.now \in Nat /\ MAX_HOLDING_HOURS \in Nat
      /\ LOW_FUNDING_CONSECUTIVE \in Nat \ {0}
  BY <1>2, PaperParams, Zenon
<1> DEFINE e == Paper!Signal
<1>4. e \in 1 .. data.now
  <2>1. todo \in SUBSET Nat
    BY <1>2, <1>3
  <2>2. e \in todo
    BY <1>1, <2>1, LowestIs DEF Paper!Signal
  <2>3. QED
    BY <1>2, <2>2
<1> HIDE DEF e
<1>5. Paper!SettledIn(e, e) = {}
  <2>1. Times \in SUBSET Nat
    BY <1>2, RateIsInt
  <2>2. QED
    BY <1>3, <1>4, <2>1 DEF Paper!SettledIn, Times
<1>6. LowRow(e, e) = {} /\ NotGivenUp(e, e)
  BY <1>5 DEF LowRow, NotGivenUp
<1>7. /\ position'.entry = e /\ position'.last = e /\ position'.income = 0
      /\ position'.streak = 0 /\ IsPosition(position')
  BY <1>1 DEF Paper!Entered, IsPosition, e
<1>8. Paper!LastExit' = Paper!LastExit
  BY <1>1 DEF Paper!LastExit
<1>9. Paper!LastExit <= e
  BY <1>1, <1>3, <1>4, TradesAre DEF e
<1>10. PositionInv'
  <2>1. /\ position'.income
             = Paper!SumOfRates(Paper!SettledIn(position'.entry, position'.last))
        /\ position'.streak = Cardinality(LowRow(position'.entry, position'.last))
    BY <1>2, <1>5, <1>6, <1>7, SumOfNone, FS_EmptySet
  <2>2. NotGivenUp(position'.entry, position'.last)
    BY <1>6, <1>7
  <2>3. /\ position'.income
             = Paper!SumOfRates(Paper!SettledIn(position.entry, position.last))'
        /\ position'.streak = Cardinality(LowRow(position.entry, position.last))'
        /\ NotGivenUp(position.entry, position.last)'
    BY <1>1, <2>1, <2>2, SameData
  <2>4. QED
    BY <1>1, <1>3, <1>4, <1>7, <1>8, <1>9, <2>3 DEF PositionInv
<1>11. \A k \in 1 .. Len(paid') : TradeInv(paid[k])'
  BY <1>1, SameData DEF PaperInv
<1>12. Paper!OnePositionPerSymbol'
  BY <1>1 DEF PaperInv, Paper!OnePositionPerSymbol
<1>13. QED
  BY <1>1, <1>2, <1>10, <1>11, <1>12 DEF PaperInv

(* At a settlement that does not end it. *)
LEMMA CollectKeeps ==
    ASSUME PaperInv, Paper!Collect
    PROVE  PaperInv'
<1> DEFINE e == position.entry
           next == Paper!Settlement
<1>1. /\ position # None /\ Paper!Coming # {} /\ next <= Paper!Horizon
      /\ ~Paper!Decayed(Paper!Rate(next))
      /\ UNCHANGED <<costs, data, todo, paid, skipped>>
      /\ position' = [position EXCEPT
             !.last = next, !.count = @ + 1,
             !.income = @ + Paper!Rate(next), !.streak = Paper!Streak(Paper!Rate(next))]
  BY DEF Paper!Collect, Paper!Settling
<1>2. /\ data # None /\ data \in PaperInputs /\ data.now \in Nat
      /\ e \in 1 .. data.now /\ position.last \in e .. data.now
  BY <1>1, PositionIs
<1>3. next \in Times /\ next \in 1 .. data.now /\ position.last < next
  BY <1>1, SettlementIs
<1>4. /\ position.income = Paper!SumOfRates(Paper!SettledIn(e, position.last))
      /\ NotGivenUp(e, position.last) /\ Paper!LastExit <= e
  BY <1>1 DEF PaperInv, PositionInv
<1>5. /\ Paper!SettledIn(e, next) = Paper!SettledIn(e, position.last) \cup {next}
      /\ Paper!SettledIn(e, position.last) \in SUBSET Times
      /\ \A t \in Paper!SettledIn(e, position.last) : t < next
  BY <1>1, OneMore
<1>6. Cardinality(LowRow(e, next)) = Paper!Streak(Paper!Rate(next))
  BY <1>1, RowCounted
<1>7. ~(Paper!Streak(Paper!Rate(next)) >= LOW_FUNDING_CONSECUTIVE)
  BY <1>1 DEF Paper!Decayed
<1>8. Paper!SumOfRates(Paper!SettledIn(e, next)) = position.income + Paper!Rate(next)
  <2> HIDE DEF next, e
  <2>1. QED
    BY <1>2, <1>3, <1>4, <1>5, SumOfMore
<1>9. Paper!Streak(Paper!Rate(next)) \in Int
  <2>1. position.streak = Cardinality(LowRow(e, position.last))
    BY <1>1 DEF PaperInv, PositionInv
  <2>2. IsFiniteSet(LowRow(e, next))
    <3>1. Paper!SettledIn(e, next) \subseteq 0 .. data.now
      <4>1. Times \in SUBSET Nat
        BY <1>1, PositionIs
      <4>2. QED
        BY <1>2, <1>3, <4>1 DEF Paper!SettledIn, Times
    <3>2. IsFiniteSet(0 .. data.now)
      <4>1. 0 \in Int /\ data.now \in Int
        BY <1>2
      <4>2. QED
        BY <4>1, FS_Interval
    <3>3. LowRow(e, next) \subseteq 0 .. data.now
      BY <3>1 DEF LowRow
    <3>4. QED
      BY <3>2, <3>3, FS_Subset
  <2>3. QED
    BY <1>6, <2>2, FS_CardinalityType
<1>10. NotGivenUp(e, next)
  <2>1. LOW_FUNDING_CONSECUTIVE \in Nat
    BY PaperParams, Zenon
  <2>2. Cardinality(LowRow(e, next)) < LOW_FUNDING_CONSECUTIVE
    BY <1>6, <1>7, <1>9, <2>1
  <2>3. QED
    BY <1>4, <1>5, <2>2 DEF NotGivenUp
<1>11. /\ position'.entry = e /\ position'.last = next
       /\ position'.income = position.income + Paper!Rate(next)
       /\ position'.streak = Paper!Streak(Paper!Rate(next))
       /\ IsPosition(position')
  <2>1. IsPosition(position)
    BY <1>1 DEF PaperInv, PositionInv
  <2> HIDE DEF next
  <2>2. position' = [entry |-> e, last |-> next, count |-> position.count + 1,
                     income |-> position.income + Paper!Rate(next),
                     streak |-> Paper!Streak(Paper!Rate(next))]
    BY <1>1, <2>1 DEF IsPosition
  <2>3. QED
    BY <2>2 DEF IsPosition
<1>12. PositionInv'
  <2>1. /\ Paper!LastExit' = Paper!LastExit /\ Paper!Horizon = e + MAX_HOLDING_HOURS
    BY <1>1 DEF Paper!LastExit, Paper!Horizon
  <2>2. /\ Paper!SumOfRates(Paper!SettledIn(e, next)) = position'.income
        /\ NotGivenUp(e, next) /\ position'.streak = Cardinality(LowRow(e, next))
    BY <1>6, <1>8, <1>10, <1>11
  <2>3. /\ position'.income
             = Paper!SumOfRates(Paper!SettledIn(position.entry, position.last))'
        /\ position'.streak = Cardinality(LowRow(position.entry, position.last))'
        /\ NotGivenUp(position.entry, position.last)'
    BY <1>1, <1>11, <2>2, SameData
  <2>4. next \in e .. data.now /\ next <= e + MAX_HOLDING_HOURS
    BY <1>1, <1>2, <1>3, <2>1
  <2> HIDE DEF next
  <2>5. QED
    BY <1>1, <1>2, <1>4, <1>11, <2>1, <2>3, <2>4 DEF PositionInv
<1>13. \A k \in 1 .. Len(paid') : TradeInv(paid[k])'
  BY <1>1, SameData DEF PaperInv
<1>14. Paper!OnePositionPerSymbol'
  BY <1>1 DEF PaperInv, Paper!OnePositionPerSymbol
<1>15. QED
  BY <1>1, <1>2, <1>12, <1>13, <1>14 DEF PaperInv

(* The trade of a position that ends. *)
LEMMA LeaveKeeps ==
    ASSUME PaperInv, position # None,
           NEW final \in Nat, NEW reason, NEW count, NEW income,
           Paper!Leave(final, reason, count, income),
           final <= data.now, final <= Paper!Horizon,
           income = Paper!SumOfRates(Paper!SettledIn(position.entry, final)),
           reason = "funding_decayed" =>
              Cardinality(LowRow(position.entry, final)) >= LOW_FUNDING_CONSECUTIVE,
           \A s \in Paper!SettledIn(position.entry, final) :
              s < final =>
                 Cardinality(LowRow(position.entry, s)) < LOW_FUNDING_CONSECUTIVE
    PROVE  PaperInv'
<1>1. /\ data # None /\ data \in PaperInputs /\ position.entry \in Nat
      /\ Paper!LastExit <= position.entry /\ MAX_HOLDING_HOURS \in Nat
      /\ todo \subseteq 1 .. data.now
  BY PositionIs, PaperParams DEF PaperInv, PositionInv
<1>2. PICK t : /\ t.entry = position.entry /\ t.exit = final /\ t.reason = reason
               /\ t.income = income
               /\ paid' = Append(paid, t) /\ position' = None
               /\ UNCHANGED <<costs, data, todo, skipped>>
  <2> DEFINE t == [entry |-> position.entry, exit |-> final, reason |-> reason,
             count |-> count, income |-> income,
             net |-> income - Paper!Costs
                       + Paper!BasisAt(data.metrics, position.entry)
                       - Paper!BasisAt(data.metrics, final)]
  <2>1. /\ t.entry = position.entry /\ t.exit = final /\ t.reason = reason
        /\ t.income = income
    OBVIOUS
  <2>2. /\ paid' = Append(paid, t) /\ position' = None
        /\ UNCHANGED <<costs, data, todo, skipped>>
    BY DEF Paper!Leave
  <2> HIDE DEF t
  <2>3. QED
    BY <2>1, <2>2
<1>3. TradeInv(t)
  <2>1. final - position.entry <= MAX_HOLDING_HOURS
    BY <1>1 DEF Paper!Horizon
  <2>2. QED
    BY <1>1, <1>2, <2>1 DEF TradeInv
<1>4. PICK S : paid \in Seq(S)
  BY DEF PaperInv
<1>5. /\ paid' \in Seq(S \cup {t}) /\ Len(paid) \in Nat /\ Len(paid') = Len(paid) + 1
      /\ paid'[Len(paid) + 1] = t
      /\ \A k \in 1 .. Len(paid) : paid'[k] = paid[k]
  BY <1>2, <1>4
<1>6. \A k \in 1 .. Len(paid') : k \in 1 .. Len(paid) \/ k = Len(paid) + 1
  BY <1>5
<1>7. \A k \in 1 .. Len(paid') : TradeInv(paid'[k])
  BY <1>3, <1>5, <1>6 DEF PaperInv
<1>8. \A k \in 1 .. Len(paid') : TradeInv(paid[k])'
  <2>1. ASSUME NEW k \in 1 .. Len(paid') PROVE TradeInv(paid[k])'
    <3>1. TradeInv(paid'[k])
      BY <1>7
    <3>2. QED
      BY <1>2, <3>1, SameData
  <2>2. QED
    BY <2>1
<1>9. Paper!OnePositionPerSymbol'
  <2>1. ASSUME NEW k \in 1 .. Len(paid') - 1
        PROVE  paid'[k].exit <= paid'[k + 1].entry
    <3>1. CASE k \in 1 .. Len(paid) - 1
      <4>1. k \in 1 .. Len(paid) /\ k + 1 \in 1 .. Len(paid)
        BY <1>5, <3>1
      <4>2. QED
        BY <1>5, <3>1, <4>1 DEF PaperInv, Paper!OnePositionPerSymbol
    <3>2. CASE k = Len(paid)
      <4>1. paid # << >> /\ k \in 1 .. Len(paid)
        BY <1>5, <3>2
      <4>2. paid'[k].exit = Paper!LastExit
        BY <1>5, <3>2, <4>1, TradesAre
      <4>3. QED
        BY <1>1, <1>2, <1>5, <3>2, <4>2
    <3>3. QED
      BY <1>5, <3>1, <3>2
  <2>2. QED
    BY <2>1 DEF Paper!OnePositionPerSymbol
<1>10. QED
  BY <1>1, <1>2, <1>5, <1>8, <1>9 DEF PaperInv

(* The ways out: at the horizon, ... *)
LEMMA MaxHoldingKeeps ==
    ASSUME PaperInv, Paper!MaxHolding
    PROVE  PaperInv'
<1>1. /\ position # None /\ Paper!Coming # {} /\ Paper!Settlement > Paper!Horizon
      /\ Paper!Leave(Paper!Horizon, "max_holding", position.count, position.income)
  BY Zenon DEF Paper!MaxHolding
<1>2. /\ Paper!Horizon \in Nat /\ position.last <= Paper!Horizon
      /\ data.now \in Nat /\ Paper!Coming \in SUBSET Nat
  BY <1>1, PositionIs
<1>3. /\ Paper!Settlement \in 1 .. data.now
      /\ \A t \in Paper!Coming : Paper!Settlement <= t
  BY <1>1, SettlementIs
<1>4. Paper!Horizon <= data.now /\ \A t \in Paper!Coming : Paper!Horizon < t
  BY <1>1, <1>2, <1>3
<1>5. Paper!SettledIn(position.entry, Paper!Horizon)
        = Paper!SettledIn(position.entry, position.last)
  BY <1>1, <1>2, <1>4, NothingYet
<1>6. /\ position.income
           = Paper!SumOfRates(Paper!SettledIn(position.entry, Paper!Horizon))
      /\ \A s \in Paper!SettledIn(position.entry, Paper!Horizon) :
            Cardinality(LowRow(position.entry, s)) < LOW_FUNDING_CONSECUTIVE
  BY <1>1, <1>5 DEF PaperInv, PositionInv, NotGivenUp
<1>7. Paper!Horizon <= Paper!Horizon
  BY <1>2
<1>8. "max_holding" # "funding_decayed"
  OBVIOUS
<1>9. QED
  BY <1>1, <1>2, <1>4, <1>6, <1>7, <1>8, LeaveKeeps

(* ... at a settlement, ... *)
LEMMA SettlementKeeps ==
    ASSUME PaperInv, Paper!Settling, NEW reason, Paper!LeaveAtSettlement(reason),
           reason = "funding_decayed" => Paper!Decayed(Paper!Rate(Paper!Settlement))
    PROVE  PaperInv'
<1> DEFINE e == position.entry
           next == Paper!Settlement
<1>1. /\ position # None /\ Paper!Coming # {} /\ next <= Paper!Horizon
      /\ Paper!Leave(next, reason, position.count + 1,
                     position.income + Paper!Rate(next))
  BY Zenon DEF Paper!Settling, Paper!LeaveAtSettlement
<1>2. data \in PaperInputs /\ data.now \in Nat
  BY <1>1, PositionIs
<1>3. next \in Times /\ next \in 1 .. data.now /\ next \in Nat /\ next <= data.now
  BY <1>1, <1>2, SettlementIs
<1>4. /\ position.income = Paper!SumOfRates(Paper!SettledIn(e, position.last))
      /\ NotGivenUp(e, position.last)
  BY <1>1 DEF PaperInv, PositionInv
<1>5. /\ Paper!SettledIn(e, next) = Paper!SettledIn(e, position.last) \cup {next}
      /\ Paper!SettledIn(e, position.last) \in SUBSET Times
      /\ \A t \in Paper!SettledIn(e, position.last) : t < next
  BY <1>1, OneMore
<1>6. Cardinality(LowRow(e, next)) = Paper!Streak(Paper!Rate(next))
  BY <1>1, RowCounted
<1>7. reason = "funding_decayed" =>
        Cardinality(LowRow(e, next)) >= LOW_FUNDING_CONSECUTIVE
  BY <1>6, Zenon DEF Paper!Decayed
<1>8. position.income + Paper!Rate(next) = Paper!SumOfRates(Paper!SettledIn(e, next))
  <2> HIDE DEF next, e
  <2>1. QED
    BY <1>2, <1>3, <1>4, <1>5, SumOfMore
<1>9. ASSUME NEW s \in Paper!SettledIn(e, next), s < next
      PROVE  Cardinality(LowRow(e, s)) < LOW_FUNDING_CONSECUTIVE
  <2>1. s # next
    BY <1>3, <1>9
  <2>2. s \in Paper!SettledIn(e, position.last)
    BY <1>5, <2>1
  <2>3. QED
    BY <1>4, <2>2 DEF NotGivenUp
<1> DEFINE income == position.income + Paper!Rate(next)
           count == position.count + 1
<1>10. /\ Paper!Leave(next, reason, count, income)
       /\ income = Paper!SumOfRates(Paper!SettledIn(position.entry, next))
  BY <1>1, <1>8
<1>11. /\ reason = "funding_decayed" =>
            Cardinality(LowRow(position.entry, next)) >= LOW_FUNDING_CONSECUTIVE
       /\ \A s \in Paper!SettledIn(position.entry, next) :
            s < next =>
              Cardinality(LowRow(position.entry, s)) < LOW_FUNDING_CONSECUTIVE
  BY <1>7, <1>9
<1> HIDE DEF e, next, income, count
<1>12. QED
  BY <1>1, <1>3, <1>10, <1>11, LeaveKeeps

(* ... or when none is left. *)
LEMMA RunOutKeeps ==
    ASSUME PaperInv, Paper!RunOut
    PROVE  PaperInv'
<1> DEFINE final == Paper!Lowest({data.now, Paper!Horizon})
<1>1. /\ position # None /\ Paper!Coming = {}
      /\ Paper!Leave(final, "open", position.count, position.income)
  BY Zenon DEF Paper!RunOut
<1>2. /\ Paper!Horizon \in Nat /\ position.last <= Paper!Horizon
      /\ data.now \in Nat /\ position.last \in position.entry .. data.now
      /\ position.entry \in Nat /\ position.last \in Nat
  BY <1>1, PositionIs
<1>3. final \in {data.now, Paper!Horizon} /\ final <= data.now /\ final <= Paper!Horizon
  <2>1. {data.now, Paper!Horizon} \in SUBSET Nat /\ {data.now, Paper!Horizon} # {}
    BY <1>2
  <2>2. QED
    BY <2>1, LowestIs
<1> HIDE DEF final
<1>4. final \in Nat /\ position.last <= final
  BY <1>2, <1>3
<1>5. Paper!SettledIn(position.entry, final)
        = Paper!SettledIn(position.entry, position.last)
  BY <1>1, <1>3, <1>4, NothingYet
<1>6. /\ position.income = Paper!SumOfRates(Paper!SettledIn(position.entry, final))
      /\ \A s \in Paper!SettledIn(position.entry, final) :
            Cardinality(LowRow(position.entry, s)) < LOW_FUNDING_CONSECUTIVE
  BY <1>1, <1>5 DEF PaperInv, PositionInv, NotGivenUp
<1>7. "open" # "funding_decayed"
  OBVIOUS
<1>8. QED
  BY <1>1, <1>3, <1>4, <1>6, <1>7, LeaveKeeps

LEMMA SkipKeeps ==
    ASSUME PaperInv, Paper!Skip
    PROVE  PaperInv'
<1>1. /\ position = None /\ todo # {} /\ todo' = todo \ {Paper!Signal}
      /\ UNCHANGED <<costs, data, position, paid>>
  BY DEF Paper!Skip
<1>2. \A k \in 1 .. Len(paid') : TradeInv(paid[k])'
  BY <1>1, SameData DEF PaperInv
<1>3. Paper!OnePositionPerSymbol'
  BY <1>1 DEF PaperInv, Paper!OnePositionPerSymbol
<1>4. QED
  BY <1>1, <1>2, <1>3 DEF PaperInv

(* A run over the data starts from nothing. *)
LEMMA StartKeeps ==
    ASSUME NEW input \in PaperInputs, NEW charged, Paper!Start(input, charged)
    PROVE  PaperInv'
<1>1. /\ data' = input /\ paid' = << >> /\ position' = None
      /\ todo' = Paper!LoadSignals(input)
  BY DEF Paper!Start
<1>2. input # None /\ todo' \subseteq 1 .. input.now
  BY <1>1, PaperParams DEF Paper!LoadSignals
<1>3. paid' \in Seq({}) /\ Len(paid') = 0
  BY <1>1
<1>4. Paper!OnePositionPerSymbol'
  BY <1>3 DEF Paper!OnePositionPerSymbol
<1>5. \A k \in 1 .. Len(paid') : TradeInv(paid[k])'
  BY <1>3
<1>6. QED
  BY <1>1, <1>2, <1>3, <1>4, <1>5 DEF PaperInv

LEMMA PaperStep ==
    ASSUME PaperInv, PaperTrading \/ UNCHANGED paperVars
    PROVE  PaperInv'
<1>1. ASSUME NEW input \in PaperInputs, Paper!StartReal(input) PROVE PaperInv'
  BY <1>1, StartKeeps DEF Paper!StartReal
<1>2. CASE Paper!StartFree
  <2>1. data # None /\ Paper!Start(data, Paper!NoCosts)
    BY <1>2 DEF Paper!StartFree, Paper!Done
  <2>2. data \in PaperInputs
    BY <2>1 DEF PaperInv
  <2>3. QED
    BY <2>1, <2>2, StartKeeps
<1>3. CASE Paper!SimulateSymbol
  <2>1. CASE Paper!NegativeFunding
    <3>1. Paper!Settling /\ Paper!LeaveAtSettlement("negative_funding")
      BY <2>1, Zenon DEF Paper!NegativeFunding
    <3>2. "negative_funding" # "funding_decayed"
      OBVIOUS
    <3>3. QED
      BY <3>1, <3>2, SettlementKeeps
  <2>2. CASE Paper!FundingDecayed
    <3>1. /\ Paper!Settling /\ Paper!LeaveAtSettlement("funding_decayed")
          /\ Paper!Decayed(Paper!Rate(Paper!Settlement))
      BY <2>2, Zenon DEF Paper!FundingDecayed
    <3>2. QED
      BY <3>1, SettlementKeeps
  <2>3. QED
    BY <1>3, <2>1, <2>2, SkipKeeps, EnterKeeps, CollectKeeps, MaxHoldingKeeps,
       RunOutKeeps DEF Paper!SimulateSymbol, Paper!Step
<1>4. CASE UNCHANGED paperVars
  <2>1. UNCHANGED <<costs, data, todo, position, paid>>
    BY <1>4 DEF paperVars
  <2>2. \A k \in 1 .. Len(paid') : TradeInv(paid[k])'
    BY <2>1, SameData DEF PaperInv
  <2>3. Paper!OnePositionPerSymbol'
    BY <2>1 DEF PaperInv, Paper!OnePositionPerSymbol
  <2>4. PositionInv' <=> PositionInv
    <3>1. Paper!LastExit' = Paper!LastExit
      BY <2>1 DEF Paper!LastExit
    <3>2. QED
      BY <2>1, <3>1, SameData DEF PositionInv
  <2>5. QED
    BY <2>1, <2>2, <2>3, <2>4 DEF PaperInv
<1>5. QED
  BY <1>1, <1>2, <1>3, <1>4 DEF PaperTrading

(* What of a trade is held by a time. *)
LEMMA HeldBy ==
    ASSUME data \in PaperInputs, NEW e, NEW final \in Nat,
           NEW t \in Paper!SettledIn(e, final) \cup {final}
    PROVE  {s \in Paper!SettledIn(e, final) : s <= t} = Paper!SettledIn(e, t)
<1>1. Times \in SUBSET Nat
  BY RateIsInt
<1>2. t \in Nat /\ t <= final
  BY <1>1 DEF Paper!SettledIn, Times
<1>3. \A s \in Times : s <= t => s <= final
  BY <1>1, <1>2
<1>4. QED
  BY <1>3 DEF Paper!SettledIn, Times

LEMMA RowIsFinite ==
    ASSUME data \in PaperInputs, NEW e \in Nat, NEW final \in Nat,
           NEW t \in Paper!SettledIn(e, final) \cup {final}
    PROVE  Cardinality(LowRow(e, t)) \in Nat
<1>1. Times \in SUBSET Nat
  BY RateIsInt
<1>2. LowRow(e, t) \subseteq 0 .. t /\ t \in Nat
  BY <1>1 DEF LowRow, Paper!SettledIn, Times
<1>3. IsFiniteSet(0 .. t)
  <2>1. 0 \in Int /\ t \in Int
    BY <1>2
  <2>2. QED
    BY <2>1, FS_Interval
<1>4. IsFiniteSet(LowRow(e, t))
  BY <1>2, <1>3, FS_Subset
<1>5. QED
  BY <1>4, FS_CardinalityType

LEMMA PaperInvSound ==
    ASSUME PaperInv
    PROVE  PaperTradesSound
<1>1. DOMAIN paid = 1 .. Len(paid)
  BY DEF PaperInv
<1>2. ASSUME NEW k \in DOMAIN paid PROVE TradeInv(paid[k]) /\ data \in PaperInputs
  <2>1. paid # << >>
    BY <1>1, <1>2 DEF PaperInv
  <2>2. QED
    BY <1>1, <1>2, <2>1 DEF PaperInv
<1>3. Paper!HoldingCapped
  BY <1>2 DEF TradeInv, Paper!HoldingCapped
<1>4. Paper!IncomeMatchesHolding
  BY <1>2 DEF TradeInv, Paper!IncomeMatchesHolding
<1>5. ASSUME NEW k \in DOMAIN paid,
             NEW t \in Paper!SettledIn(paid[k].entry, paid[k].exit) \cup {paid[k].exit}
      PROVE  LET held == Paper!SettledIn(paid[k].entry, paid[k].exit)
                 before == {s \in held : s <= t}
                 low == {s \in before : \A r \in before :
                           r >= s => Paper!Rate(r) < costs.settlement}
             IN  Paper!Cardinality(low) = Cardinality(LowRow(paid[k].entry, t))
  <2>1. paid[k].exit \in Nat /\ data \in PaperInputs
    BY <1>2 DEF TradeInv
  <2>2. {s \in Paper!SettledIn(paid[k].entry, paid[k].exit) : s <= t}
          = Paper!SettledIn(paid[k].entry, t)
    BY <2>1, HeldBy
  <2>3. \A S : Paper!Cardinality(S) = Cardinality(S)
    BY DEF Paper!Cardinality, Cardinality
  <2>4. QED
    BY <2>2, <2>3, Zenon DEF LowRow
<1>6. Paper!DecayIsPersistent
  <2>1. ASSUME NEW k \in DOMAIN paid
        PROVE  LET held == Paper!SettledIn(paid[k].entry, paid[k].exit)
                   LastLow(t) ==
                     LET before == {s \in held : s <= t}
                         low == {s \in before : \A r \in before :
                                   r >= s => Paper!Rate(r) < costs.settlement}
                     IN  Paper!Cardinality(low) >= LOW_FUNDING_CONSECUTIVE
               IN  /\ paid[k].reason = "funding_decayed" => LastLow(paid[k].exit)
                   /\ \A t \in held : t < paid[k].exit => ~LastLow(t)
    <3> DEFINE t == paid[k]
               LastLow(x) ==
                 LET before == {s \in Paper!SettledIn(t.entry, t.exit) : s <= x}
                     low == {s \in before : \A r \in before :
                               r >= s => Paper!Rate(r) < costs.settlement}
                 IN  Paper!Cardinality(low) >= LOW_FUNDING_CONSECUTIVE
    <3>1. TradeInv(t)
      BY <1>2, <2>1
    <3>2. \A x \in Paper!SettledIn(t.entry, t.exit) \cup {t.exit} :
             LastLow(x) <=> Cardinality(LowRow(t.entry, x)) >= LOW_FUNDING_CONSECUTIVE
      BY <1>5, <2>1, Zenon
    <3>3. \A x \in Paper!SettledIn(t.entry, t.exit) \cup {t.exit} :
             Cardinality(LowRow(t.entry, x)) \in Nat
      BY <1>2, <2>1, <3>1, RowIsFinite DEF TradeInv
    <3>4. LOW_FUNDING_CONSECUTIVE \in Nat
      BY PaperParams, Zenon
    <3>5. t.reason = "funding_decayed" => LastLow(t.exit)
      <4> HIDE DEF LastLow
      <4>1. QED
        BY <3>1, <3>2 DEF TradeInv
    <3>6. ASSUME NEW x \in Paper!SettledIn(t.entry, t.exit), x < t.exit
          PROVE  ~LastLow(x)
      <4>1. Cardinality(LowRow(t.entry, x)) < LOW_FUNDING_CONSECUTIVE
        BY <3>1, <3>6 DEF TradeInv
      <4> HIDE DEF LastLow
      <4>2. QED
        BY <3>2, <3>3, <3>4, <4>1
    <3>7. QED
      BY <3>5, <3>6, Zenon
  <2>2. QED
    BY <2>1 DEF Paper!DecayIsPersistent
<1>7. QED
  BY <1>3, <1>4, <1>6 DEF PaperInv, PaperTradesSound, Paper!PaperTradesSound

-----------------------------------------------------------------------------
(* Paper trading with fees and without.  What a list of trades leaves of    *)
(* the signals after its j-th: what is not before the end of that trade.    *)
Sent == Paper!LoadSignals(data)

After(signals, list, j) ==
    {h \in signals : j # 0 => h > list[j].entry /\ h >= list[j].exit}

IsNext(h, S) == h \in S /\ \A other \in S : h <= other

(* Each trade is entered at the first signal that is left. *)
Chained(signals, list) ==
    \A k \in 1 .. Len(list) : IsNext(list[k].entry, After(signals, list, k - 1))

(* What was entered at e may be held until x: no rate was negative before.  *)
MayHold(e, x) ==
    /\ x <= data.now /\ x <= e + MAX_HOLDING_HOURS
    /\ \A t \in Times : e < t /\ t < x => Paper!Rate(t) >= 0

(* It is left there at the latest. *)
MustLeave(e, x) ==
    \/ x = data.now \/ x = e + MAX_HOLDING_HOURS
    \/ x \in Times /\ e < x /\ Paper!Rate(x) < 0

Gross(e, x) ==
    Paper!SumOfRates(Paper!SettledIn(e, x)) + Paper!BasisAt(data.metrics, e)
        - Paper!BasisAt(data.metrics, x)

(* A trade that is only given up early for a decay, and pays once. *)
Accounted(t, once) ==
    /\ MayHold(t.entry, t.exit)
    /\ t.reason # "funding_decayed" => MustLeave(t.entry, t.exit)
    /\ t.net = Gross(t.entry, t.exit) - once

(* Between two positions, and while one is held: the signals that are left. *)
Waiting ==
    /\ After(Sent, paid, Len(paid)) \subseteq todo
    /\ Len(paid) # 0 => \A h \in todo : h > paid[Len(paid)].entry

Holding ==
    /\ position.count \in Nat
    /\ IsNext(position.entry, After(Sent, paid, Len(paid)))
    /\ todo = {h \in Sent : h > position.entry}
    /\ \A t \in Times :
          position.entry < t /\ t <= position.last => Paper!Rate(t) >= 0

(* The run with fees, when it has ended. *)
RealInv ==
    /\ real \in Seq(PaidTrades) /\ Chained(Sent, real)
    /\ After(Sent, real, Len(real)) = {}
    /\ \A k \in 1 .. Len(real) : Accounted(real[k], OneTimeCost)

NoneDecayed(list) == \A k \in 1 .. Len(list) : list[k].reason # "funding_decayed"

FeesInv ==
    /\ paid \in Seq(PaidTrades)
    /\ data = None => real = None
    /\ data # None =>
          /\ \A k \in 1 .. Len(paid) : Accounted(paid[k], costs.once)
          /\ Chained(Sent, paid) /\ todo \subseteq Sent
          /\ position = None => Waiting
          /\ position # None => Holding
          /\ real = None => costs = Paper!RealCosts
          /\ real # None => costs = Paper!NoCosts /\ RealInv /\ NoneDecayed(paid)

LEMMA BasisIsInt ==
    ASSUME data \in PaperInputs, NEW time \in Int
    PROVE  Paper!BasisAt(data.metrics, time) \in Int
<1>1. \A m \in data.metrics : m.at \in Int /\ m.basis \in Int
  BY PaperParams
<1>2. CASE data.metrics = {}
  BY <1>2 DEF Paper!BasisAt
<1>3. CASE data.metrics # {}
  <2> DEFINE far(m) == Paper!Distance(m.at, time)
             S == {far(m) : m \in data.metrics}
  <2>1. \A m \in data.metrics : far(m) \in Nat
    BY <1>1 DEF Paper!Distance
  <2> HIDE DEF far
  <2>2. S \in SUBSET Nat /\ S # {}
    BY <1>3, <2>1
  <2>3. PICK n \in S : \A other \in S : n <= other
    BY <2>2, Smallest
  <2>4. \E m \in data.metrics : \A other \in data.metrics : far(m) <= far(other)
    BY <2>3
  <2>5. (CHOOSE m \in data.metrics : \A other \in data.metrics : far(m) <= far(other))
          \in data.metrics
    BY <2>4, Zenon
  <2>6. Paper!BasisAt(data.metrics, time)
          = (CHOOSE m \in data.metrics : \A other \in data.metrics : far(m) <= far(other)).basis
    BY <1>3, Zenon DEF Paper!BasisAt, far
  <2>7. QED
    BY <1>1, <2>5, <2>6
<1>4. QED
  BY <1>2, <1>3

LEMMA GrossIsInt ==
    ASSUME data \in PaperInputs, NEW e \in Nat, NEW x \in Nat
    PROVE  /\ Gross(e, x) \in Int
           /\ Paper!SumOfRates(Paper!SettledIn(e, x)) \in Int
           /\ Paper!BasisAt(data.metrics, e) \in Int
           /\ Paper!BasisAt(data.metrics, x) \in Int
<1>1. Paper!BasisAt(data.metrics, e) \in Int /\ Paper!BasisAt(data.metrics, x) \in Int
  BY BasisIsInt
<1>2. Paper!SumOfRates(Paper!SettledIn(e, x)) \in Int
  <2> DEFINE held == Paper!SettledIn(e, x)
  <2>1. held \in SUBSET Times
    BY DEF Paper!SettledIn, Times
  <2> HIDE DEF held
  <2>2. /\ data.now \in Nat /\ Paper!SumOfRates(held) = SumTo(held)[data.now]
        /\ \A t \in 0 .. data.now : SumTo(held)[t] \in Int
    BY <2>1, SumIs
  <2>3. data.now \in 0 .. data.now
    BY <2>2
  <2>4. Paper!SumOfRates(held) \in Int
    BY <2>2, <2>3
  <2>5. QED
    BY <2>4 DEF held
<1>3. QED
  BY <1>1, <1>2 DEF Gross

LEMMA SameAccounts ==
    ASSUME UNCHANGED data
    PROVE  /\ Sent' = Sent /\ Times' = Times
           /\ \A t : Paper!Rate(t)' = Paper!Rate(t)
           /\ \A t, once : Accounted(t, once)' <=> Accounted(t, once)
<1>1. Sent' = Sent /\ Times' = Times
  BY DEF Sent, Times
<1>2. \A t : Paper!Rate(t)' = Paper!Rate(t)
  BY DEF Paper!Rate
<1>3. \A e, x : Paper!SettledIn(e, x)' = Paper!SettledIn(e, x)
  BY DEF Paper!SettledIn
<1>4. \A S : Paper!SumOfRates(S)' = Paper!SumOfRates(S)
  BY <1>2, Zenon DEF Paper!SumOfRates
<1>5. \A e, x : Gross(e, x)' = Gross(e, x)
  BY <1>3, <1>4 DEF Gross
<1>6. \A e, x : MayHold(e, x)' <=> MayHold(e, x)
  BY <1>1, <1>2 DEF MayHold
<1>7. \A e, x : MustLeave(e, x)' <=> MustLeave(e, x)
  BY <1>1, <1>2 DEF MustLeave
<1>8. \A t, once : Accounted(t, once)' <=> Accounted(t, once)
  BY <1>5, <1>6, <1>7 DEF Accounted
<1>9. QED
  BY <1>1, <1>2, <1>8

(* What stays as it is in every step of a run. *)
LEMMA FeesBy ==
    ASSUME FeesInv, data # None, UNCHANGED <<costs, data, real>>,
           paid' \in Seq(PaidTrades), todo' \subseteq Sent,
           \A k \in 1 .. Len(paid') : Accounted(paid'[k], costs.once),
           Chained(Sent, paid'), real # None => NoneDecayed(paid'),
           position' = None => Waiting', position' # None => Holding'
    PROVE  FeesInv'
<1>1. Sent' = Sent /\ Times' = Times
      /\ \A t, once : Accounted(t, once)' <=> Accounted(t, once)
  BY SameAccounts
<1>2. \A k \in 1 .. Len(paid') : Accounted(paid[k], costs.once)'
  <2>1. ASSUME NEW k \in 1 .. Len(paid') PROVE Accounted(paid[k], costs.once)'
    <3>1. Accounted(paid'[k], costs.once)
      OBVIOUS
    <3>2. QED
      BY <1>1, <3>1
  <2>2. QED
    BY <2>1
<1>3. Chained(Sent, paid)'
  BY <1>1 DEF Chained, After
<1>4. real # None => RealInv'
  <2>1. ASSUME real # None PROVE RealInv'
    <3>1. RealInv
      BY <2>1 DEF FeesInv
    <3>2. \A k \in 1 .. Len(real') : Accounted(real[k], OneTimeCost)'
      BY <1>1, <3>1 DEF RealInv
    <3>3. QED
      BY <1>1, <3>1, <3>2 DEF RealInv, Chained, After
  <2>2. QED
    BY <2>1
<1>5. Paper!RealCosts' = Paper!RealCosts /\ Paper!NoCosts' = Paper!NoCosts
  BY DEF Paper!RealCosts, Paper!NoCosts
<1>6. real # None => NoneDecayed(paid)'
  BY DEF NoneDecayed
<1>7. QED
  BY <1>1, <1>2, <1>3, <1>4, <1>5, <1>6 DEF FeesInv

(* The steps that pay nothing. *)
LEMMA FeesEnter ==
    ASSUME PaperInv, FeesInv, Paper!Enter, UNCHANGED real
    PROVE  FeesInv'
<1> DEFINE e == Paper!Signal
           m == Len(paid)
<1>1. /\ position = None /\ todo # {} /\ e >= Paper!LastExit
      /\ todo' = todo \ {e} /\ position' = Paper!Entered(e)
      /\ UNCHANGED <<costs, data, paid, real>>
  BY DEF Paper!Enter
<1>2. data # None /\ data \in PaperInputs /\ todo \subseteq 1 .. data.now
  BY <1>1 DEF PaperInv
<1>3. data.now \in Nat
  BY <1>2, PaperParams, Zenon
<1>4. e \in todo /\ (\A h \in todo : e <= h) /\ todo \in SUBSET Nat
  <2>1. todo \in SUBSET Nat
    BY <1>2, <1>3
  <2>2. QED
    BY <1>1, <2>1, LowestIs DEF Paper!Signal
<1>5. /\ paid \in Seq(PaidTrades) /\ todo \subseteq Sent
      /\ \A k \in 1 .. m : Accounted(paid[k], costs.once)
      /\ Chained(Sent, paid) /\ Waiting
      /\ real # None => NoneDecayed(paid)
  BY <1>1, <1>2 DEF FeesInv
<1>6. m \in Nat /\ Sent \in SUBSET Nat
  BY <1>3, <1>5 DEF Sent, Paper!LoadSignals
<1>7. m # 0 => /\ paid[m].entry \in Nat /\ paid[m].exit \in Nat
               /\ Paper!LastExit = paid[m].exit
  <2>1. m # 0 => m \in 1 .. m /\ paid # << >>
    BY <1>5, <1>6
  <2>2. m # 0 => paid[m] \in PaidTrades
    BY <1>5, <2>1
  <2>3. QED
    BY <2>1, <2>2, TradesAre DEF PaidTrades
<1> HIDE DEF e
<1>8. e \in After(Sent, paid, m)
  BY <1>1, <1>4, <1>5, <1>6, <1>7 DEF After, Waiting
<1>9. IsNext(e, After(Sent, paid, m))
  BY <1>4, <1>5, <1>8 DEF IsNext, Waiting
<1>10. todo' = {h \in Sent : h > e}
  <2>1. ASSUME NEW h \in Sent, h > e PROVE h \in todo'
    <3>1. h \in After(Sent, paid, m)
      <4>1. ASSUME m # 0 PROVE h > paid[m].entry /\ h >= paid[m].exit
        BY <1>4, <1>5, <1>6, <1>7, <1>8, <2>1, <4>1 DEF After
      <4>2. QED
        BY <4>1 DEF After
    <3>2. h # e
      BY <1>4, <1>6, <2>1
    <3>3. QED
      BY <1>1, <1>5, <3>1, <3>2 DEF Waiting
  <2>2. ASSUME NEW h \in todo' PROVE h \in Sent /\ h > e
    <3>1. h \in todo /\ h # e /\ h \in Nat /\ e \in Nat /\ e <= h
      BY <1>1, <1>4, <2>2
    <3>2. QED
      BY <1>5, <3>1
  <2>3. QED
    BY <2>1, <2>2
<1>11. /\ position'.entry = e /\ position'.last = e /\ position'.count = 0
  BY <1>1 DEF Paper!Entered
<1>12. Sent' = Sent /\ Times' = Times
  BY <1>1, SameAccounts
<1>13. Times \in SUBSET Nat /\ e \in Nat
  BY <1>2, <1>4, RateIsInt
<1>14. Holding'
  <2>1. ~(\E t \in Times : e < t /\ t <= e)
    BY <1>13
  <2>2. IsNext(e, After(Sent', paid', Len(paid')))
    BY <1>1, <1>9, <1>12
  <2>3. IsNext(position.entry, After(Sent, paid, Len(paid)))'
    BY <1>11, <2>2 DEF IsNext, After
  <2>4. QED
    BY <1>10, <1>11, <1>12, <2>1, <2>3 DEF Holding
<1>15. todo' \subseteq Sent
  BY <1>10
<1>16. position' # None
  <2>1. Paper!Entered(e) \in HeldPositions
    BY <1>13 DEF Paper!Entered, HeldPositions
  <2>2. QED
    BY <1>1, <2>1, PaperParams
<1>17. QED
  BY <1>1, <1>2, <1>5, <1>14, <1>15, <1>16, FeesBy

LEMMA FeesSkip ==
    ASSUME PaperInv, FeesInv, Paper!Skip, UNCHANGED real
    PROVE  FeesInv'
<1> DEFINE s == Paper!Signal
           m == Len(paid)
<1>1. /\ position = None /\ todo # {} /\ s < Paper!LastExit
      /\ todo' = todo \ {s} /\ UNCHANGED <<costs, data, position, paid, real>>
  BY DEF Paper!Skip
<1>2. data # None /\ data \in PaperInputs /\ todo \subseteq 1 .. data.now
  BY <1>1 DEF PaperInv
<1>3. data.now \in Nat
  BY <1>2, PaperParams, Zenon
<1>4. s \in Nat
  <2>1. todo \in SUBSET Nat
    BY <1>2, <1>3
  <2>2. QED
    BY <1>1, <2>1, LowestIs DEF Paper!Signal
<1>5. /\ paid \in Seq(PaidTrades) /\ todo \subseteq Sent
      /\ \A k \in 1 .. m : Accounted(paid[k], costs.once)
      /\ Chained(Sent, paid) /\ Waiting
      /\ real # None => NoneDecayed(paid)
  BY <1>1, <1>2 DEF FeesInv
<1> HIDE DEF s
<1>6. s \notin After(Sent, paid, m)
  <2>1. m # 0
    <3>1. m = 0 => paid = << >>
      BY <1>5
    <3>2. paid = << >> => Paper!LastExit = -1
      BY DEF Paper!LastExit
    <3>3. QED
      BY <1>1, <1>4, <3>1, <3>2
  <2>2. paid # << >>
    BY <2>1
  <2>3. Paper!LastExit = paid[m].exit /\ Paper!LastExit \in Int
    BY <2>2, TradesAre
  <2>4. ~(s >= paid[m].exit)
    BY <1>1, <1>4, <2>3
  <2>5. QED
    BY <2>1, <2>4 DEF After
<1>7. Sent' = Sent
  BY <1>1, SameAccounts
<1>8. Waiting'
  <2>1. After(Sent, paid, m) \subseteq todo'
    BY <1>1, <1>5, <1>6 DEF Waiting
  <2>2. After(Sent, paid, Len(paid))' = After(Sent, paid, m)
    BY <1>1, <1>7 DEF After
  <2>3. Len(paid') # 0 => \A h \in todo' : h > paid'[Len(paid')].entry
    BY <1>1, <1>5 DEF Waiting
  <2>4. QED
    BY <2>1, <2>2, <2>3 DEF Waiting
<1>9. QED
  BY <1>1, <1>2, <1>5, <1>8, FeesBy

LEMMA FeesCollect ==
    ASSUME PaperInv, FeesInv, Paper!Collect, UNCHANGED real
    PROVE  FeesInv'
<1> DEFINE next == Paper!Settlement
<1>1. /\ position # None /\ Paper!Coming # {} /\ Paper!Rate(next) >= 0
      /\ UNCHANGED <<costs, data, todo, paid, real>>
      /\ position' = [position EXCEPT
             !.last = next, !.count = @ + 1,
             !.income = @ + Paper!Rate(next), !.streak = Paper!Streak(Paper!Rate(next))]
  BY DEF Paper!Collect, Paper!Settling
<1>2. /\ data # None /\ data \in PaperInputs /\ data.now \in Nat /\ Times \in SUBSET Nat
      /\ position.entry \in Nat /\ position.last \in Nat
  BY <1>1, PositionIs
<1>3. next \in Nat /\ \A t \in Paper!Coming : next <= t
  BY <1>1, <1>2, SettlementIs
<1>4. /\ paid \in Seq(PaidTrades) /\ todo \subseteq Sent
      /\ \A k \in 1 .. Len(paid) : Accounted(paid[k], costs.once)
      /\ Chained(Sent, paid) /\ Holding
      /\ real # None => NoneDecayed(paid)
  BY <1>1, <1>2 DEF FeesInv
<1>a. position' = [entry |-> position.entry, last |-> next, count |-> position.count + 1,
                   income |-> position.income + Paper!Rate(next),
                   streak |-> Paper!Streak(Paper!Rate(next))]
  <2>1. IsPosition(position)
    BY <1>1 DEF PaperInv, PositionInv
  <2> HIDE DEF next
  <2>2. QED
    BY <1>1, <2>1 DEF IsPosition
<1>5. /\ position'.entry = position.entry /\ position'.last = next
      /\ position'.count = position.count + 1
  BY <1>a
<1> HIDE DEF next
<1>6. ASSUME NEW t \in Times, position.entry < t, t <= next
      PROVE  Paper!Rate(t) >= 0
  <2>1. CASE t <= position.last
    BY <1>4, <1>6, <2>1 DEF Holding
  <2>2. CASE ~(t <= position.last)
    <3>1. t \in Nat /\ next <= data.now
      BY <1>1, <1>2, SettlementIs DEF next
    <3>2. t \in Paper!Coming
      BY <1>2, <1>3, <1>6, <2>2, <3>1 DEF Paper!Coming, Times
    <3>3. t = next
      BY <1>3, <1>6, <3>1, <3>2
    <3>4. QED
      BY <1>1, <3>3
  <2>3. QED
    BY <2>1, <2>2
<1>7. Sent' = Sent /\ Times' = Times /\ \A t : Paper!Rate(t)' = Paper!Rate(t)
  BY <1>1, SameAccounts
<1>8. Holding'
  <2>1. position.count + 1 \in Nat
    BY <1>4 DEF Holding
  <2>2. IsNext(position.entry, After(Sent, paid, Len(paid)))'
    <3>1. IsNext(position'.entry, After(Sent', paid', Len(paid')))
      BY <1>1, <1>4, <1>5, <1>7 DEF Holding
    <3>2. QED
      BY <3>1 DEF IsNext, After
  <2>3. todo' = {h \in Sent' : h > position'.entry}
    BY <1>1, <1>4, <1>5, <1>7 DEF Holding
  <2>4. \A t \in Times' : position'.entry < t /\ t <= position'.last
                            => Paper!Rate(t)' >= 0
    BY <1>5, <1>6, <1>7
  <2>5. QED
    BY <1>5, <2>1, <2>2, <2>3, <2>4 DEF Holding
<1>9. position' # None
  <2>1. position.income = Paper!SumOfRates(Paper!SettledIn(position.entry, position.last))
    BY <1>1 DEF PaperInv, PositionInv
  <2>2. position.income + Paper!Rate(next) \in Int
    BY <1>1, <1>2, <2>1, GrossIsInt, SettlementIs, RateIsInt DEF next
  <2>3. Paper!Streak(Paper!Rate(next)) \in Nat
    <3>1. Cardinality(LowRow(position.entry, next)) = Paper!Streak(Paper!Rate(next))
      BY <1>1, RowCounted DEF next
    <3>2. Cardinality(LowRow(position.entry, next)) \in Nat
      BY <1>2, <1>3, RowIsFinite
    <3>3. QED
      BY <3>1, <3>2
  <2>4. position' \in HeldPositions
    <3>1. position.count + 1 \in Nat
      BY <1>4 DEF Holding
    <3>2. QED
      BY <1>2, <1>3, <1>a, <2>2, <2>3, <3>1 DEF HeldPositions
  <2>5. QED
    BY <2>4, PaperParams
<1>10. QED
  BY <1>1, <1>2, <1>4, <1>8, <1>9, FeesBy

(* The ways out.  The trade ends before every settlement that is to come,   *)
(* or at the first.                                                         *)
LEMMA FeesLeave ==
    ASSUME PaperInv, FeesInv, PaperInv', position # None, UNCHANGED real,
           NEW final \in Nat, NEW reason, NEW count \in Nat, NEW income,
           Paper!Leave(final, reason, count, income),
           reason \in {"max_holding", "negative_funding", "funding_decayed", "open"},
           final <= data.now, final <= Paper!Horizon,
           \A t \in Paper!Coming : final <= t,
           reason # "funding_decayed" => MustLeave(position.entry, final),
           reason = "funding_decayed" => real = None
    PROVE  FeesInv'
<1> DEFINE e == position.entry
           m == Len(paid)
           t == [entry |-> e, exit |-> final, reason |-> reason,
                 count |-> count, income |-> income,
                 net |-> income - Paper!Costs
                           + Paper!BasisAt(data.metrics, e)
                           - Paper!BasisAt(data.metrics, final)]
<1>1. /\ paid' = Append(paid, t) /\ position' = None
      /\ UNCHANGED <<costs, data, todo, real>>
  BY DEF Paper!Leave
<1>2. /\ t.entry = e /\ t.exit = final /\ t.reason = reason /\ t.income = income
      /\ t.net = income - Paper!Costs
                   + Paper!BasisAt(data.metrics, e) - Paper!BasisAt(data.metrics, final)
      /\ t = [entry |-> t.entry, exit |-> t.exit, reason |-> t.reason,
              count |-> count, income |-> t.income, net |-> t.net]
  OBVIOUS
<1> HIDE DEF t
<1>3. /\ data # None /\ data \in PaperInputs /\ data.now \in Nat /\ Times \in SUBSET Nat
      /\ e \in Nat /\ position.last \in Nat
  BY PositionIs
<1>4. /\ paid \in Seq(PaidTrades) /\ todo \subseteq Sent
      /\ \A k \in 1 .. m : Accounted(paid[k], costs.once)
      /\ Chained(Sent, paid) /\ Holding
      /\ real # None => NoneDecayed(paid)
      /\ real = None => costs = Paper!RealCosts
      /\ real # None => costs = Paper!NoCosts
  BY <1>3 DEF FeesInv
<1>5. costs.once \in Int /\ Paper!Costs = costs.once
  BY <1>4, PaperParams DEF Paper!RealCosts, Paper!NoCosts, Paper!Costs
<1>6. /\ m \in Nat /\ Len(paid') = m + 1 /\ paid'[m + 1] = t
      /\ \A k \in 1 .. m : paid'[k] = paid[k]
      /\ \A k \in 1 .. Len(paid') : k \in 1 .. m \/ k = m + 1
  BY <1>1, <1>4
<1>7. t.income = Paper!SumOfRates(Paper!SettledIn(t.entry, t.exit))
  <2>1. ASSUME NEW k \in 1 .. Len(paid') PROVE TradeInv(paid'[k])
    <3>1. TradeInv(paid[k])'
      BY DEF PaperInv
    <3>2. QED
      BY <1>1, <3>1, SameData
  <2>2. m + 1 \in 1 .. Len(paid')
    BY <1>6
  <2>3. TradeInv(t)
    BY <1>6, <2>1, <2>2
  <2>4. QED
    BY <2>3 DEF TradeInv
<1>8. t \in PaidTrades /\ t.net = Gross(e, final) - costs.once
  <2>1. /\ Paper!SumOfRates(Paper!SettledIn(e, final)) \in Int
        /\ Paper!BasisAt(data.metrics, e) \in Int
        /\ Paper!BasisAt(data.metrics, final) \in Int
    BY <1>3, GrossIsInt
  <2>2. income = Paper!SumOfRates(Paper!SettledIn(e, final))
    BY <1>2, <1>7
  <2>3. t.net = Gross(e, final) - costs.once /\ t.net \in Int
    BY <1>2, <1>5, <2>1, <2>2 DEF Gross
  <2>4. t \in PaidTrades
    <3> HIDE DEF e
    <3>1. QED
      BY <1>2, <1>3, <2>1, <2>2, <2>3 DEF PaidTrades
  <2>5. QED
    BY <2>3, <2>4
<1>9. MayHold(e, final)
  <2>1. ASSUME NEW x \in Times, e < x, x < final PROVE Paper!Rate(x) >= 0
    <3>1. CASE x <= position.last
      BY <1>4, <2>1, <3>1 DEF Holding
    <3>2. CASE ~(x <= position.last)
      <4>1. x \in Nat
        BY <1>3
      <4>2. x \in Paper!Coming
        BY <1>3, <2>1, <3>2, <4>1 DEF Paper!Coming, Times
      <4>3. QED
        BY <2>1, <4>1, <4>2
    <3>3. QED
      BY <3>1, <3>2
  <2>2. QED
    BY <2>1 DEF MayHold, Paper!Horizon
<1>10. Accounted(t, costs.once)
  BY <1>2, <1>8, <1>9 DEF Accounted
<1>11. \A k \in 1 .. Len(paid') : Accounted(paid'[k], costs.once)
  BY <1>4, <1>6, <1>10
<1>12. paid' \in Seq(PaidTrades)
  BY <1>1, <1>4, <1>8
<1>13. Chained(Sent, paid')
  <2>1. ASSUME NEW k \in 1 .. Len(paid')
        PROVE  IsNext(paid'[k].entry, After(Sent, paid', k - 1))
    <3>1. k - 1 \in 0 .. m
      BY <1>6
    <3>2. After(Sent, paid', k - 1) = After(Sent, paid, k - 1)
      BY <1>6, <3>1 DEF After
    <3>3. CASE k \in 1 .. m
      BY <1>4, <1>6, <3>2, <3>3 DEF Chained
    <3>4. CASE k = m + 1
      <4>1. k - 1 = m /\ paid'[k].entry = e
        BY <1>2, <1>6, <3>4
      <4>2. QED
        BY <1>4, <3>2, <4>1 DEF Holding
    <3>5. QED
      BY <1>6, <3>3, <3>4
  <2>2. QED
    BY <2>1 DEF Chained
<1>14. real # None => NoneDecayed(paid')
  BY <1>2, <1>4, <1>6 DEF NoneDecayed
<1>15. Waiting'
  <2>1. paid'[Len(paid')].entry = e
    BY <1>2, <1>6
  <2>2. After(Sent, paid', Len(paid')) \subseteq todo
    BY <1>4, <1>6, <2>1 DEF After, Holding
  <2>3. \A h \in todo : h > paid'[Len(paid')].entry
    BY <1>4, <2>1 DEF Holding
  <2>4. Sent' = Sent
    BY <1>1, SameAccounts
  <2>5. (After(Sent, paid, Len(paid)) \subseteq todo)'
    BY <1>1, <2>2, <2>4 DEF After
  <2>6. QED
    BY <1>1, <2>3, <2>5 DEF Waiting
<1>16. todo' \subseteq Sent
  BY <1>1, <1>4
<1>17. QED
  BY <1>1, <1>3, <1>11, <1>12, <1>13, <1>14, <1>15, <1>16, FeesBy

LEMMA FeesMaxHolding ==
    ASSUME PaperInv, FeesInv, PaperInv', Paper!MaxHolding, UNCHANGED real
    PROVE  FeesInv'
<1>1. /\ position # None /\ Paper!Coming # {} /\ Paper!Settlement > Paper!Horizon
      /\ Paper!Leave(Paper!Horizon, "max_holding", position.count, position.income)
  BY Zenon DEF Paper!MaxHolding
<1>2. Paper!Horizon \in Nat /\ data.now \in Nat /\ Paper!Coming \in SUBSET Nat /\ data # None
  BY <1>1, PositionIs
<1>3. Paper!Settlement \in 1 .. data.now /\ \A t \in Paper!Coming : Paper!Settlement <= t
  BY <1>1, SettlementIs
<1>4. Paper!Horizon <= data.now /\ \A t \in Paper!Coming : Paper!Horizon <= t
  BY <1>1, <1>2, <1>3
<1>5. position.count \in Nat
  BY <1>1, <1>2 DEF FeesInv, Holding
<1>6. MustLeave(position.entry, Paper!Horizon) /\ Paper!Horizon <= Paper!Horizon
  BY <1>2 DEF MustLeave, Paper!Horizon
<1>7. "max_holding" # "funding_decayed"
  OBVIOUS
<1>8. "max_holding" \in {"max_holding", "negative_funding", "funding_decayed", "open"}
  OBVIOUS
<1>9. QED
  BY <1>1, <1>2, <1>4, <1>5, <1>6, <1>7, <1>8, FeesLeave

LEMMA FeesRunOut ==
    ASSUME PaperInv, FeesInv, PaperInv', Paper!RunOut, UNCHANGED real
    PROVE  FeesInv'
<1> DEFINE final == Paper!Lowest({data.now, Paper!Horizon})
<1>1. /\ position # None /\ Paper!Coming = {}
      /\ Paper!Leave(final, "open", position.count, position.income)
  BY Zenon DEF Paper!RunOut
<1>2. Paper!Horizon \in Nat /\ data.now \in Nat /\ data # None
  BY <1>1, PositionIs
<1>3. final \in {data.now, Paper!Horizon} /\ final <= data.now /\ final <= Paper!Horizon
  <2>1. {data.now, Paper!Horizon} \in SUBSET Nat /\ {data.now, Paper!Horizon} # {}
    BY <1>2
  <2>2. QED
    BY <2>1, LowestIs
<1> HIDE DEF final
<1>4. final \in Nat /\ \A t \in Paper!Coming : final <= t
  BY <1>1, <1>2, <1>3
<1>5. position.count \in Nat
  BY <1>1, <1>2 DEF FeesInv, Holding
<1>6. MustLeave(position.entry, final)
  BY <1>3 DEF MustLeave, Paper!Horizon
<1>7. "open" # "funding_decayed"
  OBVIOUS
<1>8. "open" \in {"max_holding", "negative_funding", "funding_decayed", "open"}
  OBVIOUS
<1>9. QED
  BY <1>1, <1>3, <1>4, <1>5, <1>6, <1>7, <1>8, FeesLeave

(* Without costs no rate is low that is not negative. *)
LEMMA FreeNeverDecays ==
    ASSUME FeesInv, data # None, real # None, NEW rate \in Int, rate >= 0
    PROVE  ~Paper!Decayed(rate)
<1>1. costs = Paper!NoCosts
  BY DEF FeesInv
<1>2. costs.settlement = 0
  BY <1>1 DEF Paper!NoCosts
<1>3. Paper!Streak(rate) = 0
  BY <1>2 DEF Paper!Streak
<1>4. LOW_FUNDING_CONSECUTIVE \in Nat \ {0}
  BY PaperParams, Zenon
<1>5. QED
  BY <1>3, <1>4 DEF Paper!Decayed

LEMMA FeesAtSettlement ==
    ASSUME PaperInv, FeesInv, PaperInv', UNCHANGED real,
           Paper!Settling, NEW reason, Paper!LeaveAtSettlement(reason),
           reason \in {"negative_funding", "funding_decayed"},
           reason = "negative_funding" => Paper!Rate(Paper!Settlement) < 0,
           reason = "funding_decayed" =>
              /\ Paper!Rate(Paper!Settlement) >= 0
              /\ Paper!Decayed(Paper!Rate(Paper!Settlement))
    PROVE  FeesInv'
<1> DEFINE next == Paper!Settlement
           income == position.income + Paper!Rate(next)
           count == position.count + 1
<1>1. /\ position # None /\ Paper!Coming # {} /\ next <= Paper!Horizon
      /\ Paper!Leave(next, reason, count, income)
  BY Zenon DEF Paper!Settling, Paper!LeaveAtSettlement
<1>2. /\ data \in PaperInputs /\ data.now \in Nat /\ data # None
      /\ position.entry \in Nat /\ position.entry <= position.last /\ position.last \in Nat
  BY <1>1, PositionIs
<1>3. /\ next \in Times /\ next \in Nat /\ next <= data.now /\ position.last < next
      /\ \A t \in Paper!Coming : next <= t
  BY <1>1, <1>2, SettlementIs
<1>4. count \in Nat
  BY <1>1, <1>2 DEF FeesInv, Holding
<1>5. reason # "funding_decayed" => MustLeave(position.entry, next)
  BY <1>2, <1>3 DEF MustLeave
<1>6. reason = "funding_decayed" => real = None
  <2>1. Paper!Rate(next) \in Int
    BY <1>2, <1>3, RateIsInt
  <2>2. QED
    BY <1>2, <2>1, FreeNeverDecays
<1>7. reason \in {"max_holding", "negative_funding", "funding_decayed", "open"}
  OBVIOUS
<1> HIDE DEF next, income, count
<1>8. QED
  BY <1>1, <1>3, <1>4, <1>5, <1>6, <1>7, FeesLeave

(* The run with fees starts, and when it has ended, the run without. *)
LEMMA FeesStart ==
    ASSUME NEW input \in PaperInputs, FeesInv, Paper!StartReal(input)
    PROVE  FeesInv'
<1>1. /\ data = None /\ data' = input /\ todo' = Paper!LoadSignals(input)
      /\ costs' = Paper!RealCosts /\ paid' = << >> /\ position' = None /\ UNCHANGED real
  BY DEF Paper!StartReal, Paper!Start
<1>2. real' = None
  BY <1>1 DEF FeesInv
<1>3. paid' \in Seq(PaidTrades) /\ Len(paid') = 0
  BY <1>1
<1>4. Sent' = todo'
  BY <1>1 DEF Sent, Paper!LoadSignals
<1>5. Chained(Sent, paid)'
  BY <1>3 DEF Chained
<1>6. Waiting'
  BY <1>3, <1>4 DEF Waiting, After
<1>7. Paper!RealCosts' = Paper!RealCosts
  BY DEF Paper!RealCosts
<1>8. QED
  BY <1>1, <1>2, <1>3, <1>4, <1>5, <1>6, <1>7 DEF FeesInv

LEMMA FeesFree ==
    ASSUME PaperInv, FeesInv, Paper!StartFree
    PROVE  FeesInv'
<1>1. /\ data # None /\ todo = {} /\ position = None /\ real = None /\ real' = paid
      /\ data' = data /\ todo' = Paper!LoadSignals(data)
      /\ costs' = Paper!NoCosts /\ paid' = << >> /\ position' = None
  BY DEF Paper!StartFree, Paper!Start, Paper!Done
<1>2. /\ paid \in Seq(PaidTrades) /\ Chained(Sent, paid) /\ Waiting
      /\ \A k \in 1 .. Len(paid) : Accounted(paid[k], costs.once)
      /\ costs = Paper!RealCosts
  BY <1>1 DEF FeesInv
<1>3. paid' \in Seq(PaidTrades) /\ Len(paid') = 0
  BY <1>1
<1>4. /\ Sent' = Sent /\ todo' = Sent'
      /\ \A t, once : Accounted(t, once)' <=> Accounted(t, once)
  BY <1>1, SameAccounts DEF Sent, Paper!LoadSignals
<1>5. Chained(Sent, paid)'
  BY <1>3 DEF Chained
<1>6. Waiting'
  BY <1>3, <1>4 DEF Waiting, After
<1>7. Paper!NoCosts' = Paper!NoCosts
  BY DEF Paper!NoCosts
<1>8. RealInv'
  <2>1. costs.once = OneTimeCost
    BY <1>2 DEF Paper!RealCosts
  <2>2. \A k \in 1 .. Len(real') : Accounted(real[k], OneTimeCost)'
    <3>1. ASSUME NEW k \in 1 .. Len(real') PROVE Accounted(real[k], OneTimeCost)'
      <4>1. Accounted(real'[k], OneTimeCost)
        BY <1>1, <1>2, <2>1
      <4>2. QED
        BY <1>4, <4>1
    <3>2. QED
      BY <3>1
  <2>3. Chained(Sent, real)'
    <3>1. Chained(Sent', real')
      BY <1>1, <1>2, <1>4
    <3>2. QED
      BY <3>1 DEF Chained, After
  <2>4. (After(Sent, real, Len(real)) = {})'
    <3>1. After(Sent', real', Len(real')) = {}
      BY <1>1, <1>2, <1>4 DEF Waiting
    <3>2. QED
      BY <3>1 DEF After
  <2>5. QED
    BY <1>1, <1>2, <2>2, <2>3, <2>4 DEF RealInv
<1>9. real' # None
  BY <1>1, <1>2, PaperParams
<1>10. NoneDecayed(paid)'
  BY <1>3 DEF NoneDecayed
<1>11. QED
  BY <1>1, <1>3, <1>4, <1>5, <1>6, <1>7, <1>8, <1>9, <1>10 DEF FeesInv

LEMMA FeesStep ==
    ASSUME PaperInv, FeesInv, PaperTrading \/ UNCHANGED paperVars
    PROVE  FeesInv'
<1>1. PaperInv'
  BY PaperStep
<1>2. ASSUME NEW input \in PaperInputs, Paper!StartReal(input) PROVE FeesInv'
  BY <1>2, FeesStart
<1>3. ASSUME Paper!StartFree PROVE FeesInv'
  BY <1>3, FeesFree
<1>4. ASSUME Paper!SimulateSymbol PROVE FeesInv'
  <2>1. UNCHANGED real /\ Paper!Step
    BY <1>4 DEF Paper!SimulateSymbol
  <2>2. ASSUME Paper!NegativeFunding PROVE FeesInv'
    <3>1. /\ Paper!Settling /\ Paper!LeaveAtSettlement("negative_funding")
          /\ Paper!Rate(Paper!Settlement) < 0
      BY <2>2, Zenon DEF Paper!NegativeFunding
    <3>2. "negative_funding" \in {"negative_funding", "funding_decayed"}
          /\ "negative_funding" # "funding_decayed"
      OBVIOUS
    <3>3. QED
      BY <1>1, <2>1, <3>1, <3>2, FeesAtSettlement
  <2>3. ASSUME Paper!FundingDecayed PROVE FeesInv'
    <3>1. /\ Paper!Settling /\ Paper!LeaveAtSettlement("funding_decayed")
          /\ Paper!Rate(Paper!Settlement) >= 0
          /\ Paper!Decayed(Paper!Rate(Paper!Settlement))
      BY <2>3, Zenon DEF Paper!FundingDecayed
    <3>2. "funding_decayed" \in {"negative_funding", "funding_decayed"}
          /\ "negative_funding" # "funding_decayed"
      OBVIOUS
    <3>3. QED
      BY <1>1, <2>1, <3>1, <3>2, FeesAtSettlement
  <2>4. QED
    BY <1>1, <2>1, <2>2, <2>3, FeesSkip, FeesEnter, FeesCollect, FeesMaxHolding,
       FeesRunOut DEF Paper!Step
<1>5. ASSUME UNCHANGED paperVars PROVE FeesInv'
  <2>1. UNCHANGED <<costs, data, todo, position, paid, real>>
    BY <1>5 DEF paperVars
  <2>2. CASE data = None
    BY <2>1, <2>2 DEF FeesInv
  <2>3. CASE data # None
    <3>1. /\ paid \in Seq(PaidTrades) /\ todo \subseteq Sent
          /\ \A k \in 1 .. Len(paid) : Accounted(paid[k], costs.once)
          /\ Chained(Sent, paid)
          /\ real # None => NoneDecayed(paid)
          /\ position = None => Waiting
          /\ position # None => Holding
      BY <2>3 DEF FeesInv
    <3>2. Sent' = Sent /\ Times' = Times /\ \A t : Paper!Rate(t)' = Paper!Rate(t)
      BY <2>1, SameAccounts
    <3>3. Waiting => Waiting'
      BY <2>1, <3>2 DEF Waiting, After
    <3>4. Holding => Holding'
      BY <2>1, <3>2 DEF Holding, IsNext, After
    <3>5. QED
      BY <2>1, <2>3, <3>1, <3>3, <3>4, FeesBy
  <2>4. QED
    BY <2>2, <2>3
<1>6. QED
  BY <1>2, <1>3, <1>4, <1>5 DEF PaperTrading

(* Who may hold until y holds no longer than who must leave at x.           *)
LEMMA LeaveOnce ==
    ASSUME data \in PaperInputs, NEW e \in Nat, NEW x \in Nat, NEW y \in Nat,
           MustLeave(e, x), MayHold(e, y)
    PROVE  y <= x
<1>1. data.now \in Nat /\ MAX_HOLDING_HOURS \in Nat
  BY PaperParams, Zenon
<1> SUFFICES ASSUME x < y PROVE FALSE
  OBVIOUS
<1>2. x # data.now /\ x # e + MAX_HOLDING_HOURS
  BY <1>1 DEF MayHold
<1>3. x \in Times /\ e < x /\ Paper!Rate(x) < 0
  BY <1>2 DEF MustLeave
<1>4. Paper!Rate(x) >= 0
  BY <1>3 DEF MayHold
<1>5. Paper!Rate(x) \in Int
  BY <1>3, RateIsInt
<1>6. QED
  BY <1>3, <1>4, <1>5

(* What is known while the run without fees goes on. *)
LEMMA FreeIs ==
    ASSUME PaperInv, FeesInv, real # None
    PROVE  /\ data # None /\ data \in PaperInputs /\ Sent \in SUBSET Nat
           /\ paid \in Seq(PaidTrades) /\ real \in Seq(PaidTrades)
           /\ Len(paid) \in Nat /\ Len(real) \in Nat
           /\ \A k \in 1 .. Len(paid) :
                 /\ paid[k] \in PaidTrades
                 /\ MayHold(paid[k].entry, paid[k].exit)
                 /\ MustLeave(paid[k].entry, paid[k].exit)
                 /\ paid[k].net = Gross(paid[k].entry, paid[k].exit)
                 /\ IsNext(paid[k].entry, After(Sent, paid, k - 1))
           /\ \A k \in 1 .. Len(real) :
                 /\ real[k] \in PaidTrades
                 /\ MayHold(real[k].entry, real[k].exit)
                 /\ real[k].reason # "funding_decayed"
                       => MustLeave(real[k].entry, real[k].exit)
                 /\ real[k].net = Gross(real[k].entry, real[k].exit) - OneTimeCost
                 /\ IsNext(real[k].entry, After(Sent, real, k - 1))
           /\ After(Sent, real, Len(real)) = {}
<1>1. data # None /\ data \in PaperInputs
  BY DEF FeesInv, PaperInv
<1>2. /\ paid \in Seq(PaidTrades) /\ NoneDecayed(paid) /\ Chained(Sent, paid)
      /\ \A k \in 1 .. Len(paid) : Accounted(paid[k], costs.once)
      /\ costs = Paper!NoCosts /\ RealInv
  BY <1>1 DEF FeesInv
<1>3. Len(paid) \in Nat /\ \A k \in 1 .. Len(paid) : paid[k] \in PaidTrades
  BY <1>2
<1>4. /\ real \in Seq(PaidTrades) /\ Chained(Sent, real)
      /\ After(Sent, real, Len(real)) = {}
      /\ \A k \in 1 .. Len(real) : Accounted(real[k], OneTimeCost)
  BY <1>2 DEF RealInv
<1>5. Len(real) \in Nat /\ \A k \in 1 .. Len(real) : real[k] \in PaidTrades
  BY <1>4
<1>6. data.now \in Nat
  BY <1>1, PaperParams, Zenon
<1>7. Sent \in SUBSET Nat
  BY <1>6 DEF Sent, Paper!LoadSignals
<1>8. costs.once = 0
  BY <1>2 DEF Paper!NoCosts
<1>9. ASSUME NEW k \in 1 .. Len(paid)
      PROVE  /\ MayHold(paid[k].entry, paid[k].exit)
             /\ MustLeave(paid[k].entry, paid[k].exit)
             /\ paid[k].net = Gross(paid[k].entry, paid[k].exit)
             /\ IsNext(paid[k].entry, After(Sent, paid, k - 1))
  <2>1. Accounted(paid[k], 0) /\ paid[k].reason # "funding_decayed"
    BY <1>2, <1>8 DEF NoneDecayed
  <2>2. Gross(paid[k].entry, paid[k].exit) \in Int
    BY <1>1, <1>3, GrossIsInt DEF PaidTrades
  <2>3. IsNext(paid[k].entry, After(Sent, paid, k - 1))
    BY <1>2 DEF Chained
  <2>4. QED
    BY <2>1, <2>2, <2>3 DEF Accounted
<1>10. ASSUME NEW k \in 1 .. Len(real)
       PROVE  /\ MayHold(real[k].entry, real[k].exit)
              /\ real[k].reason # "funding_decayed"
                    => MustLeave(real[k].entry, real[k].exit)
              /\ real[k].net = Gross(real[k].entry, real[k].exit) - OneTimeCost
              /\ IsNext(real[k].entry, After(Sent, real, k - 1))
  BY <1>4 DEF Accounted, Chained
<1>11. QED
  BY <1>1, <1>3, <1>4, <1>5, <1>7, <1>9, <1>10, <1>2

LEMMA SameNext ==
    ASSUME NEW S \in SUBSET Nat, NEW x, NEW y, IsNext(x, S), IsNext(y, S)
    PROVE  x = y
  BY DEF IsNext

(* The first trade of each is of the first signal. *)
LEMMA FirstIsLonger ==
    ASSUME PaperInv, FeesInv, real # None, paid # << >>
    PROVE  paid[1].exit >= real[1].exit
<1>1. 1 \in 1 .. Len(paid)
  BY FreeIs
<1>2. After(Sent, paid, 0) = Sent /\ After(Sent, real, 0) = Sent
  BY DEF After
<1>3. /\ IsNext(paid[1].entry, Sent) /\ paid[1] \in PaidTrades
      /\ MustLeave(paid[1].entry, paid[1].exit)
  BY <1>1, <1>2, FreeIs
<1>4. 1 \in 1 .. Len(real)
  <2>1. Len(real) # 0
    BY <1>2, <1>3, FreeIs DEF IsNext
  <2>2. QED
    BY <2>1, FreeIs
<1>5. /\ IsNext(real[1].entry, Sent) /\ real[1] \in PaidTrades
      /\ MayHold(real[1].entry, real[1].exit)
  BY <1>2, <1>4, FreeIs
<1>6. paid[1].entry = real[1].entry
  BY <1>3, <1>5, SameNext, FreeIs
<1>7. /\ paid[1].entry \in Nat /\ paid[1].exit \in Nat /\ real[1].exit \in Nat
  BY <1>3, <1>5 DEF PaidTrades
<1>8. MayHold(paid[1].entry, real[1].exit) /\ data \in PaperInputs
  BY <1>5, <1>6, FreeIs
<1>9. real[1].exit <= paid[1].exit
  BY <1>3, <1>7, <1>8, LeaveOnce
<1>10. QED
  BY <1>7, <1>9

SameTrade(k) ==
    k # 0 => /\ k <= Len(real)
             /\ paid[k].entry = real[k].entry /\ paid[k].exit = real[k].exit

LEMMA SameTradeNext ==
    ASSUME PaperInv, FeesInv, real # None, NoneDecayed(real),
           NEW k \in 1 .. Len(paid), SameTrade(k - 1)
    PROVE  SameTrade(k)
<1>1. /\ data \in PaperInputs /\ Sent \in SUBSET Nat
      /\ Len(paid) \in Nat /\ Len(real) \in Nat /\ k \in Nat
  BY FreeIs
<1>2. After(Sent, paid, k - 1) = After(Sent, real, k - 1)
  BY DEF After, SameTrade
<1>3. /\ IsNext(paid[k].entry, After(Sent, paid, k - 1)) /\ paid[k] \in PaidTrades
      /\ MustLeave(paid[k].entry, paid[k].exit)
      /\ MayHold(paid[k].entry, paid[k].exit)
  BY FreeIs
<1>4. k \in 1 .. Len(real)
  <2>1. k - 1 # Len(real)
    <3>1. After(Sent, real, Len(real)) = {}
      BY FreeIs
    <3>2. After(Sent, real, k - 1) # {}
      BY <1>2, <1>3 DEF IsNext
    <3>3. QED
      BY <3>1, <3>2
  <2>2. k - 1 <= Len(real)
    BY <1>1 DEF SameTrade
  <2>3. QED
    BY <1>1, <2>1, <2>2
<1>5. /\ IsNext(real[k].entry, After(Sent, real, k - 1)) /\ real[k] \in PaidTrades
      /\ MustLeave(real[k].entry, real[k].exit)
      /\ MayHold(real[k].entry, real[k].exit)
  BY <1>4, FreeIs DEF NoneDecayed
<1>6. paid[k].entry = real[k].entry
  <2>1. After(Sent, real, k - 1) \in SUBSET Nat
    BY <1>1 DEF After
  <2>2. IsNext(paid[k].entry, After(Sent, real, k - 1))
    BY <1>2, <1>3
  <2>3. QED
    BY <1>5, <2>1, <2>2, SameNext
<1>7. paid[k].exit = real[k].exit
  <2>1. paid[k].entry \in Nat /\ paid[k].exit \in Nat /\ real[k].exit \in Nat
    BY <1>3, <1>5 DEF PaidTrades
  <2>2. MustLeave(paid[k].entry, real[k].exit) /\ MayHold(paid[k].entry, real[k].exit)
    BY <1>5, <1>6
  <2>3. real[k].exit <= paid[k].exit /\ paid[k].exit <= real[k].exit
    BY <1>1, <1>3, <2>1, <2>2, LeaveOnce
  <2>4. QED
    BY <2>1, <2>3
<1>8. QED
  BY <1>1, <1>4, <1>6, <1>7 DEF SameTrade

LEMMA SameTrades ==
    ASSUME PaperInv, FeesInv, real # None, NoneDecayed(real), Paper!Done
    PROVE  Len(paid) = Len(real) /\ \A k \in 0 .. Len(paid) : SameTrade(k)
<1> DEFINE P == {k \in 0 .. Len(paid) : SameTrade(k)}
<1>1. Len(paid) \in Nat /\ Len(real) \in Nat
  BY FreeIs
<1>2. 0 \in P
  BY <1>1 DEF SameTrade
<1>3. ASSUME NEW k \in 1 .. Len(paid), k - 1 \in P PROVE k \in P
  <2>1. SameTrade(k)
    BY <1>3, SameTradeNext
  <2>2. QED
    BY <1>1, <2>1
<1> HIDE DEF P
<1>4. \A k \in 0 .. Len(paid) : k \in P
  BY <1>1, <1>2, <1>3, StepByStep
<1>5. \A k \in 0 .. Len(paid) : SameTrade(k)
  BY <1>4 DEF P
<1>6. SameTrade(Len(paid))
  BY <1>1, <1>5
<1>7. After(Sent, paid, Len(paid)) = {}
  BY FreeIs DEF Paper!Done, FeesInv, Waiting
<1>8. After(Sent, real, Len(paid)) = {}
  BY <1>6, <1>7 DEF After, SameTrade
<1>9. ASSUME Len(paid) < Len(real) PROVE FALSE
  <2>1. Len(paid) + 1 \in 1 .. Len(real) /\ (Len(paid) + 1) - 1 = Len(paid)
    BY <1>1, <1>9
  <2>2. IsNext(real[Len(paid) + 1].entry, After(Sent, real, Len(paid)))
    BY <2>1, FreeIs
  <2>3. QED
    BY <1>8, <2>2 DEF IsNext
<1>10. Len(paid) <= Len(real)
  BY <1>1, <1>6 DEF SameTrade
<1>11. QED
  BY <1>1, <1>5, <1>9, <1>10

(* PnlDifference, trade by trade. *)
IsDifference(f) ==
    f = [k \in 0 .. Len(paid) |->
            IF k = 0 THEN 0 ELSE f[k - 1] + paid[k].net - real[k].net]

Difference == CHOOSE f : IsDifference(f)

LEMMA DifferenceIs ==
    ASSUME Len(paid) \in Nat,
           \A k \in 1 .. Len(paid) : paid[k].net \in Int /\ real[k].net \in Int
    PROVE  /\ Paper!PnlDifference = Difference[Len(paid)]
           /\ Difference[0] = 0
           /\ \A k \in 1 .. Len(paid) :
                 Difference[k] = Difference[k - 1] + paid[k].net - real[k].net
<1> DEFINE n == Len(paid)
           Step(k, x) == x + paid[k].net - real[k].net
           g == [k \in 1 .. n |-> [x \in Int |-> Step(k, x)]]
<1>1. n \in Nat
  OBVIOUS
<1>2. ASSUME NEW k \in 1 .. n, NEW x \in Int PROVE Step(k, x) \in Int
  OBVIOUS
<1> HIDE DEF Step
<1>3. \A k \in 1 .. n : \A x \in Int : g[k][x] = Step(k, x)
  OBVIOUS
<1>4. \A k \in 1 .. n : \A x \in Int : g[k][x] \in Int
  BY <1>2, <1>3
<1> HIDE DEF g, n
<1>5. PICK f : IsLoop(f, n, 0, g) /\ AllIn(f, n, Int)
  <2>1. 0 \in Int
    OBVIOUS
  <2>2. QED
    BY <1>1, <1>4, <2>1, LoopExists, Zenon
<1>6. IsDifference(f)
  <2>1. ASSUME NEW k \in 0 .. n
        PROVE  (IF k = 0 THEN 0 ELSE g[k][f[k - 1]])
                 = (IF k = 0 THEN 0 ELSE f[k - 1] + paid[k].net - real[k].net)
    <3>1. CASE k = 0
      BY <3>1
    <3>2. CASE k # 0
      <4>1. k \in 1 .. n /\ k - 1 \in 0 .. n
        BY <1>1, <3>2
      <4>2. g[k][f[k - 1]] = Step(k, f[k - 1])
        BY <1>3, <1>5, <4>1 DEF AllIn
      <4>3. QED
        BY <3>2, <4>2 DEF Step
    <3>3. QED
      BY <3>1, <3>2
  <2>2. QED
    BY <1>5, <2>1, Zenon DEF IsDifference, IsLoop, n
<1>7. IsDifference(Difference)
  BY <1>6, Zenon DEF Difference
<1>8. Paper!PnlDifference = Difference[n]
  BY Zenon DEF Paper!PnlDifference, Difference, IsDifference, n
<1> DEFINE h == Difference
<1>9. h[0] = 0 /\ \A k \in 1 .. n : h[k] = Step(k, h[k - 1])
  <2>1. 0 \in 0 .. n /\ \A k \in 1 .. n : k \in 0 .. n /\ k # 0
    BY <1>1
  <2> HIDE DEF h
  <2>2. h = [k \in 0 .. n |->
               IF k = 0 THEN 0 ELSE h[k - 1] + paid[k].net - real[k].net]
    BY <1>7, Zenon DEF IsDifference, n, h
  <2>3. QED
    BY <2>1, <2>2 DEF Step
<1>10. QED
  BY <1>8, <1>9 DEF h, n, Step

LEMMA FeesInvSound ==
    ASSUME PaperInv, FeesInv
    PROVE  FeesAreTheDifference
<1> SUFFICES ASSUME real # None
             PROVE  /\ Paper!FreeHoldsLonger
                    /\ Paper!Done /\ (\A k \in DOMAIN real : real[k].reason # "funding_decayed")
                          => /\ Len(paid) = Len(real)
                             /\ Paper!PnlDifference = Len(paid) * OneTimeCost
  BY DEF FeesAreTheDifference, Paper!FeesAreTheDifference
<1>1. /\ paid \in Seq(PaidTrades) /\ real \in Seq(PaidTrades) /\ data # None
      /\ Len(paid) \in Nat /\ DOMAIN paid = 1 .. Len(paid) /\ DOMAIN real = 1 .. Len(real)
  BY FreeIs
<1>2. Paper!FreeHoldsLonger
  <2>1. \A k \in DOMAIN paid : paid[k].reason # "funding_decayed"
    BY <1>1 DEF FeesInv, NoneDecayed
  <2>2. QED
    BY <2>1, FirstIsLonger DEF Paper!FreeHoldsLonger
<1>3. ASSUME Paper!Done, \A k \in DOMAIN real : real[k].reason # "funding_decayed"
      PROVE  Len(paid) = Len(real) /\ Paper!PnlDifference = Len(paid) * OneTimeCost
  <2>1. NoneDecayed(real)
    BY <1>1, <1>3 DEF NoneDecayed
  <2>2. Len(paid) = Len(real) /\ \A k \in 0 .. Len(paid) : SameTrade(k)
    BY <1>3, <2>1, SameTrades
  <2>3. OneTimeCost \in Int
    BY PaperParams
  <2>4. ASSUME NEW k \in 1 .. Len(paid)
        PROVE  /\ paid[k].net \in Int /\ real[k].net \in Int
               /\ paid[k].net - real[k].net = OneTimeCost
    <3>1. k \in 0 .. Len(paid) /\ k # 0 /\ k \in 1 .. Len(real)
      BY <1>1, <2>2
    <3>2. paid[k].entry = real[k].entry /\ paid[k].exit = real[k].exit
      BY <2>2, <3>1 DEF SameTrade
    <3>3. /\ paid[k] \in PaidTrades /\ real[k] \in PaidTrades
          /\ paid[k].net = Gross(paid[k].entry, paid[k].exit)
          /\ real[k].net = Gross(real[k].entry, real[k].exit) - OneTimeCost
      BY <3>1, FreeIs
    <3>4. paid[k].net \in Int /\ real[k].net \in Int
      BY <3>3 DEF PaidTrades
    <3>5. real[k].net = paid[k].net - OneTimeCost
      BY <3>2, <3>3
    <3>6. QED
      BY <2>3, <3>4, <3>5
  <2> DEFINE P == {k \in 0 .. Len(paid) : Difference[k] = k * OneTimeCost}
  <2>5. /\ Paper!PnlDifference = Difference[Len(paid)] /\ Difference[0] = 0
        /\ \A k \in 1 .. Len(paid) :
              Difference[k] = Difference[k - 1] + paid[k].net - real[k].net
    BY <1>1, <2>4, DifferenceIs
  <2>6. 0 \in P
    BY <1>1, <2>3, <2>5
  <2>7. ASSUME NEW k \in 1 .. Len(paid), k - 1 \in P PROVE k \in P
    <3>1. Difference[k - 1] = (k - 1) * OneTimeCost
      BY <2>7
    <3>2. Difference[k] = Difference[k - 1] + paid[k].net - real[k].net
      BY <2>5
    <3>3. (k - 1) * OneTimeCost \in Int
      BY <2>3
    <3>4. Difference[k] = (k - 1) * OneTimeCost + OneTimeCost
      BY <2>3, <2>4, <3>1, <3>2, <3>3
    <3>5. (k - 1) * OneTimeCost + OneTimeCost = k * OneTimeCost
      BY <2>3
    <3>6. k \in 0 .. Len(paid)
      BY <1>1
    <3>7. QED
      BY <3>4, <3>5, <3>6
  <2> HIDE DEF P
  <2>8. \A k \in 0 .. Len(paid) : k \in P
    BY <1>1, <2>6, <2>7, StepByStep
  <2>9. Difference[Len(paid)] = Len(paid) * OneTimeCost
    BY <1>1, <2>8 DEF P
  <2>10. QED
    BY <2>2, <2>5, <2>9
<1>4. QED
  BY <1>2, <1>3

-----------------------------------------------------------------------------
(* The momentum backtests.  The coins of a list with data enough. *)
IsCoin(coin) ==
    /\ coin.ts \in Seq(Nat) /\ coin.closes \in Seq(Int)
    /\ Len(coin.ts) = Len(coin.closes)

LongOf(list, hours) ==
    {list[k] : k \in {j \in 1 .. Len(list) : Len(list[j].closes) >= hours}}

IsKept(f, list, hours) ==
    f = [k \in 0 .. Len(list) |->
            IF k = 0 THEN << >>
            ELSE IF Len(list[k].closes) >= hours THEN Append(f[k - 1], list[k])
            ELSE f[k - 1]]

Kept(list, hours) == CHOOSE f : IsKept(f, list, hours)

LEMMA LongEnoughIs ==
    ASSUME NEW list, Len(list) \in Nat, NEW hours
    PROVE  Coins!LongEnough(list, hours) \in Seq(LongOf(list, hours))
<1> DEFINE n == Len(list)
           long(k) == Len(list[k].closes) >= hours
           S == Seq(LongOf(list, hours))
           Step(k, x) == IF long(k) THEN Append(x, list[k]) ELSE x
           g == [k \in 1 .. n |-> [x \in S |-> Step(k, x)]]
<1>1. << >> \in S
  OBVIOUS
<1>2. ASSUME NEW k \in 1 .. n, NEW x \in S PROVE Step(k, x) \in S
  <2>1. CASE long(k)
    <3>1. list[k] \in LongOf(list, hours)
      BY <2>1 DEF LongOf
    <3>2. QED
      BY <2>1, <3>1
  <2>2. CASE ~long(k)
    BY <2>2
  <2>3. QED
    BY <2>1, <2>2
<1> HIDE DEF Step, S
<1>3. \A k \in 1 .. n : \A x \in S : g[k][x] = Step(k, x)
  OBVIOUS
<1>4. \A k \in 1 .. n : \A x \in S : g[k][x] \in S
  BY <1>2, <1>3
<1>n. n \in Nat
  OBVIOUS
<1> HIDE DEF g, n
<1>5. PICK f : IsLoop(f, n, << >>, g) /\ AllIn(f, n, S)
  BY <1>n, <1>1, <1>4, LoopExists, Zenon
<1>6. IsKept(f, list, hours)
  <2>1. ASSUME NEW k \in 0 .. n
        PROVE  (IF k = 0 THEN << >> ELSE g[k][f[k - 1]])
                 = (IF k = 0 THEN << >>
                    ELSE IF long(k) THEN Append(f[k - 1], list[k]) ELSE f[k - 1])
    <3>1. CASE k = 0
      BY <3>1
    <3>2. CASE k # 0
      <4>1. k \in 1 .. n /\ k - 1 \in 0 .. n
        BY <1>n, <3>2
      <4>2. g[k][f[k - 1]] = Step(k, f[k - 1])
        BY <1>3, <1>5, <4>1 DEF AllIn
      <4>3. QED
        BY <3>2, <4>2, Zenon DEF Step
    <3>3. QED
      BY <3>1, <3>2
  <2>2. QED
    BY <1>5, <2>1, Zenon DEF IsKept, IsLoop, n
<1>7. IsKept(Kept(list, hours), list, hours)
  BY <1>6, Zenon DEF Kept
<1>8. Coins!LongEnough(list, hours) = Kept(list, hours)[n]
  BY Zenon DEF Coins!LongEnough, Kept, IsKept, n
<1> DEFINE h == Kept(list, hours)
<1>9. h[0] = << >> /\ \A k \in 1 .. n : h[k] = Step(k, h[k - 1])
  <2>1. 0 \in 0 .. n /\ \A k \in 1 .. n : k \in 0 .. n /\ k # 0
    BY <1>n
  <2>2. h = [k \in 0 .. n |-> IF k = 0 THEN << >> ELSE Step(k, h[k - 1])]
    BY <1>7, Zenon DEF IsKept, Step, n
  <2> HIDE DEF h
  <2>3. QED
    BY <2>1, <2>2
<1> HIDE DEF h
<1> DEFINE P == {k \in 0 .. n : h[k] \in S}
<1>10. 0 \in P
  BY <1>n, <1>1, <1>9
<1>11. ASSUME NEW k \in 1 .. n, k - 1 \in P PROVE k \in P
  <2>1. h[k] \in S
    BY <1>2, <1>9, <1>11
  <2>2. QED
    BY <1>n, <2>1
<1> HIDE DEF P
<1>12. \A k \in 0 .. n : k \in P
  BY <1>n, <1>10, <1>11, StepByStep
<1>13. h[n] \in S
  BY <1>n, <1>12 DEF P
<1>14. QED
  BY <1>8, <1>13 DEF h, S

LEMMA FirstHour ==
    ASSUME NEW S \in SUBSET Nat, S # {}
    PROVE  Coins!Lowest(S) \in S /\ \A n \in S : Coins!Lowest(S) <= n
  BY Smallest DEF Coins!Lowest

(* Of finitely many numbers, f[k] for k up to n, one is the highest. *)
LEMMA LastOf ==
    ASSUME NEW n \in Nat \ {0}, NEW f, \A k \in 1 .. n : f[k] \in Nat
    PROVE  LET S == {f[k] : k \in 1 .. n}
           IN  Coins!Highest(S) \in S /\ \A x \in S : x <= Coins!Highest(S)
<1> DEFINE S == {f[k] : k \in 1 .. n}
<1>1. n \in Nat /\ \A k \in 1 .. n : f[k] \in Int
  OBVIOUS
<1>2. PICK top \in Int : \A k \in 1 .. n : f[k] <= top
  BY <1>1, Bounded
<1>3. S \in SUBSET Int /\ S # {} /\ \A x \in S : x <= top
  <2>1. 1 \in 1 .. n
    OBVIOUS
  <2>2. QED
    BY <1>1, <1>2, <2>1
<1> HIDE DEF S
<1>4. PICK x \in S : \A y \in S : y <= x
  BY <1>3, Greatest
<1>5. Coins!Highest(S) \in S /\ \A y \in S : y <= Coins!Highest(S)
  BY <1>4, Zenon DEF Coins!Highest
<1>6. QED
  BY <1>5 DEF S

LEMMA CutIs ==
    ASSUME NEW S, NEW s \in Seq(S), NEW lo \in 1 .. Len(s), NEW hi \in 0 .. Len(s)
    PROVE  /\ SubSeq(s, lo, hi) \in Seq(S)
           /\ Len(SubSeq(s, lo, hi)) = IF lo <= hi THEN hi - lo + 1 ELSE 0
           /\ SubSeq(s, lo, hi) = [k \in 1 .. hi - lo + 1 |-> s[lo + k - 1]]
<1>1. Len(SubSeq(s, lo, hi)) = IF lo <= hi THEN hi - lo + 1 ELSE 0
  OBVIOUS
<1>2. SubSeq(s, lo, hi) = [k \in 1 .. hi - lo + 1 |-> s[lo + k - 1]]
  OBVIOUS
<1>3. \A k \in 1 .. hi - lo + 1 : s[lo + k - 1] \in S
  OBVIOUS
<1>4. SubSeq(s, lo, hi) \in Seq(S)
  BY <1>2, <1>3
<1>5. QED
  BY <1>1, <1>2, <1>4

(* A part of a coin is a coin, and one that misses no bar has all hours of  *)
(* the part.                                                                *)
LEMMA PartIs ==
    ASSUME NEW coin, IsCoin(coin), NEW first \in Nat, NEW final \in Nat
    PROVE  IsCoin(Coins!Within(coin, first, final))
<1> DEFINE kept == {k \in 1 .. Len(coin.ts) :
                      coin.ts[k] >= first /\ coin.ts[k] <= final}
           part_ == Coins!Within(coin, first, final)
<1>1. /\ coin.ts \in Seq(Nat) /\ coin.closes \in Seq(Int)
      /\ Len(coin.ts) = Len(coin.closes) /\ Len(coin.ts) \in Nat
  BY DEF IsCoin
<1>2. /\ part_.ts = IF kept = {} THEN << >>
                  ELSE SubSeq(coin.ts, Coins!Lowest(kept), Coins!Highest(kept))
      /\ part_.closes = IF kept = {} THEN << >>
                  ELSE SubSeq(coin.closes, Coins!Lowest(kept), Coins!Highest(kept))
  BY DEF Coins!Within
<1> HIDE DEF part_
<1>3. ASSUME kept = {} PROVE IsCoin(part_)
  BY <1>2, <1>3 DEF IsCoin
<1>4. ASSUME kept # {} PROVE IsCoin(part_)
  <2>1. kept \in SUBSET (1 .. Len(coin.ts))
    OBVIOUS
  <2> HIDE DEF kept
  <2>2. Coins!Lowest(kept) \in kept
    BY <1>1, <1>4, <2>1, FirstHour
  <2>3. Coins!Highest(kept) \in kept
    <3>1. PICK x \in kept : \A y \in kept : y <= x
      <4>1. kept \in SUBSET Int /\ \A y \in kept : y <= Len(coin.ts)
        BY <1>1, <2>1
      <4>2. Len(coin.ts) \in Int /\ kept # {}
        BY <1>1, <1>4
      <4>3. QED
        BY <4>1, <4>2, Greatest
    <3>2. QED
      BY <3>1, Zenon DEF Coins!Highest
  <2>4. PICK lo \in 1 .. Len(coin.ts), hi \in 1 .. Len(coin.ts) :
           lo = Coins!Lowest(kept) /\ hi = Coins!Highest(kept)
    BY <2>1, <2>2, <2>3
  <2>5. part_.ts = SubSeq(coin.ts, lo, hi) /\ part_.closes = SubSeq(coin.closes, lo, hi)
    BY <1>2, <1>4, <2>4
  <2>6. SubSeq(coin.ts, lo, hi) \in Seq(Nat) /\ SubSeq(coin.closes, lo, hi) \in Seq(Int)
    <3>1. /\ lo \in 1 .. Len(coin.closes) /\ hi \in 0 .. Len(coin.closes)
          /\ hi \in 0 .. Len(coin.ts)
      BY <1>1
    <3>2. SubSeq(coin.ts, lo, hi) \in Seq(Nat)
      BY <1>1, <3>1, CutIs, Zenon
    <3>3. SubSeq(coin.closes, lo, hi) \in Seq(Int)
      BY <1>1, <3>1, CutIs, Zenon
    <3>4. QED
      BY <3>2, <3>3
  <2>7. Len(SubSeq(coin.ts, lo, hi)) = Len(SubSeq(coin.closes, lo, hi))
    BY <1>1, CutIs
  <2>8. QED
    BY <2>5, <2>6, <2>7 DEF IsCoin
<1>5. QED
  BY <1>3, <1>4 DEF part_

(* Without a gap, the times of a coin follow from its first. *)
LEMMA HoursIs ==
    ASSUME NEW coin, IsCoin(coin), Coins!Gapless(coin), Len(coin.ts) # 0
    PROVE  \A k \in 1 .. Len(coin.ts) : coin.ts[k] = coin.ts[1] + k - 1
<1>1. coin.ts \in Seq(Nat) /\ Len(coin.ts) \in Nat
  BY DEF IsCoin
<1> DEFINE n == Len(coin.ts) - 1
           P == {k \in 0 .. n : coin.ts[k + 1] = coin.ts[1] + k}
<1>2. n \in Nat /\ coin.ts[1] \in Nat
  BY <1>1
<1>3. 0 \in P
  BY <1>2
<1>4. ASSUME NEW k \in 1 .. n, k - 1 \in P PROVE k \in P
  <2>1. coin.ts[k + 1] = coin.ts[k] + 1
    BY <1>1 DEF Coins!Gapless
  <2>2. coin.ts[k] = coin.ts[1] + k - 1
    BY <1>2, <1>4
  <2>3. QED
    BY <1>2, <2>1, <2>2
<1> HIDE DEF P
<1>5. \A k \in 0 .. n : k \in P
  BY <1>2, <1>3, <1>4, StepByStep
<1>6. ASSUME NEW k \in 1 .. Len(coin.ts) PROVE coin.ts[k] = coin.ts[1] + k - 1
  <2>1. k - 1 \in 0 .. n
    BY <1>1
  <2>2. k - 1 \in P
    BY <1>5, <2>1
  <2>3. QED
    BY <1>1, <2>2 DEF P
<1>7. QED
  BY <1>6

LEMMA HoursOfPart ==
    ASSUME NEW coin, IsCoin(coin), Coins!Gapless(coin), Len(coin.ts) # 0,
           NEW first \in Nat, NEW final \in Nat, coin.ts[1] <= first
    PROVE  LET times == Coins!Within(coin, first, final).ts
           IN  \A k \in 1 .. Len(times) : times[k] = first + k - 1
<1> DEFINE kept == {k \in 1 .. Len(coin.ts) :
                      coin.ts[k] >= first /\ coin.ts[k] <= final}
           times == Coins!Within(coin, first, final).ts
<1>1. /\ coin.ts \in Seq(Nat) /\ Len(coin.ts) \in Nat
      /\ coin.ts[1] \in Nat
      /\ \A k \in 1 .. Len(coin.ts) : coin.ts[k] = coin.ts[1] + k - 1
  <2>1. coin.ts \in Seq(Nat) /\ Len(coin.ts) \in Nat
    BY DEF IsCoin
  <2>2. QED
    BY <2>1, HoursIs
<1>2. times = IF kept = {} THEN << >>
              ELSE SubSeq(coin.ts, Coins!Lowest(kept), Coins!Highest(kept))
  BY DEF Coins!Within
<1>3. ASSUME kept # {}
      PROVE  \A k \in 1 .. Len(times) : times[k] = first + k - 1
  <2>1. /\ Coins!Lowest(kept) \in kept /\ Coins!Highest(kept) \in kept
        /\ \A k \in kept : Coins!Lowest(kept) <= k
    <3>1. kept \in SUBSET Nat /\ \A y \in kept : y <= Len(coin.ts)
      BY <1>1
    <3> HIDE DEF kept
    <3>2. PICK x \in kept : \A y \in kept : y <= x
      <4>1. kept \in SUBSET Int /\ Len(coin.ts) \in Int
        BY <1>1, <3>1
      <4>2. QED
        BY <1>3, <3>1, <4>1, Greatest
    <3>3. Coins!Highest(kept) \in kept
      BY <3>2, Zenon DEF Coins!Highest
    <3>4. QED
      BY <1>3, <3>1, <3>3, FirstHour
  <2>2. PICK lo \in 1 .. Len(coin.ts), hi \in 1 .. Len(coin.ts) :
           /\ lo = Coins!Lowest(kept) /\ hi = Coins!Highest(kept)
           /\ lo \in kept /\ \A k \in kept : lo <= k
    BY <2>1
  <2>3. \A k \in 1 .. Len(coin.ts) - lo + 1 : coin.ts[lo + k - 1] = first + k - 1
    <3>1. coin.ts[lo] >= first /\ coin.ts[lo] <= final
      BY <2>2
    <3>2. \A k \in 1 .. Len(coin.ts) :
             coin.ts[k] >= first /\ coin.ts[k] <= final => lo <= k
      BY <2>2
    <3>a. PICK f : f = coin.ts
      OBVIOUS
    <3>3. PICK n \in Nat, a \in Nat : n = Len(coin.ts) /\ a = f[1]
      BY <1>1, <3>a
    <3>4. /\ (\A k \in 1 .. n : f[k] = a + k - 1) /\ a <= first
          /\ lo \in 1 .. n /\ f[lo] >= first /\ f[lo] <= final
          /\ \A k \in 1 .. n : f[k] >= first /\ f[k] <= final => lo <= k
      BY <1>1, <3>1, <3>2, <3>3, <3>a
    <3>5. \A k \in 1 .. n - lo + 1 : f[lo + k - 1] = first + k - 1
      <4>0. n \in Nat /\ a \in Nat /\ first \in Int /\ lo \in Nat /\ 1 <= lo /\ lo <= n
            /\ a <= first
        BY <3>3, <3>4
      <4>f. f[lo] = a + lo - 1 /\ f[lo] >= first /\ f[lo] <= final
        BY <3>4
      <4>1. PICK m \in Nat : m = first - a + 1
        BY <4>0
      <4>2. lo >= m /\ m \in 1 .. n /\ f[m] = first
        <5>1. lo >= m
          BY <4>0, <4>1, <4>f
        <5>2. 1 <= m /\ m <= n
          BY <4>0, <4>1, <5>1
        <5>3. m \in 1 .. n
          BY <4>0, <4>1, <5>2
        <5>4. f[m] = a + m - 1
          BY <3>4, <5>3
        <5>5. f[m] = first
          BY <4>0, <4>1, <5>4
        <5>6. QED
          BY <5>1, <5>3, <5>5
      <4>3. lo = m
        <5>1. f[m] >= first /\ f[m] <= final
          <6>1. first <= final
            BY <4>0, <4>f
          <6>2. QED
            BY <4>0, <4>2, <6>1
        <5>2. lo <= m
          BY <3>4, <4>2, <5>1
        <5>3. QED
          BY <4>0, <4>1, <4>2, <5>2
      <4>4. first \in Int /\ a + m - 1 = first /\ m \in 1 .. n
        BY <3>4, <4>1, <4>2
      <4>5. ASSUME NEW k \in 1 .. n - m + 1
            PROVE  f[m + k - 1] = first + k - 1
        <5>1. m + k - 1 \in 1 .. n
          <6>1. n \in Nat /\ m \in Nat /\ k \in Nat /\ 1 <= m /\ 1 <= k /\ k <= n - m + 1
            BY <3>3, <4>1, <4>4
          <6>2. QED
            BY <6>1
        <5>2. f[m + k - 1] = a + (m + k - 1) - 1
          BY <3>4, <5>1
        <5>3. QED
          BY <4>4, <5>2
      <4>6. QED
        BY <4>3, <4>5
    <3>6. QED
      BY <3>3, <3>5, <3>a
  <2>4. times = SubSeq(coin.ts, lo, hi)
    BY <1>2, <1>3, <2>2
  <2>5. /\ Len(times) = IF lo <= hi THEN hi - lo + 1 ELSE 0
        /\ times = [k \in 1 .. hi - lo + 1 |-> coin.ts[lo + k - 1]]
    <3>1. hi \in 0 .. Len(coin.ts)
      OBVIOUS
    <3>2. QED
      BY <1>1, <2>4, <3>1, CutIs
  <2> HIDE DEF times
  <2>6. ASSUME NEW k \in 1 .. Len(times) PROVE times[k] = first + k - 1
    <3>1. k \in 1 .. hi - lo + 1 /\ k \in 1 .. Len(coin.ts) - lo + 1
      BY <1>1, <2>5
    <3>2. times[k] = coin.ts[lo + k - 1]
      BY <2>5, <3>1
    <3>3. QED
      BY <2>3, <3>1, <3>2
  <2>7. QED
    BY <2>6
<1>4. ASSUME kept = {}
      PROVE  \A k \in 1 .. Len(times) : times[k] = first + k - 1
  BY <1>2, <1>4
<1> HIDE DEF kept
<1>5. QED
  BY <1>3, <1>4

(* The coins that are loaded.  Those of v2 have the same hours, when no     *)
(* coin of the database misses one.                                         *)
IsReady(coin) == IsCoin(coin) /\ Len(coin.closes) >= LOOKBACK + Enough

AllGapless(list) == \A k \in DOMAIN list : Coins!Gapless(list[k])

LEMMA CutIsReady ==
    ASSUME NEW coin, IsReady(coin), NEW n \in Nat,
           n <= Len(coin.ts), n >= LOOKBACK + Enough
    PROVE  /\ IsReady(Coins!CutTo(coin, n))
           /\ Coins!CutTo(coin, n).ts = [k \in 1 .. n |-> coin.ts[k]]
<1>1. /\ coin.ts \in Seq(Nat) /\ coin.closes \in Seq(Int)
      /\ Len(coin.ts) = Len(coin.closes) /\ Len(coin.ts) \in Nat
      /\ n \in Nat /\ n >= 1
  <2>1. coin.ts \in Seq(Nat) /\ coin.closes \in Seq(Int)
        /\ Len(coin.ts) = Len(coin.closes)
    BY DEF IsReady, IsCoin
  <2>2. LOOKBACK \in Nat \ {0} /\ Enough \in Nat
    BY MomentumParams, Zenon
  <2>3. QED
    BY <2>1, <2>2
<1>2. /\ 1 \in 1 .. Len(coin.ts) /\ n \in 0 .. Len(coin.ts)
      /\ 1 \in 1 .. Len(coin.closes) /\ n \in 0 .. Len(coin.closes)
  BY <1>1
<1>3. /\ SubSeq(coin.ts, 1, n) \in Seq(Nat)
      /\ Len(SubSeq(coin.ts, 1, n)) = IF 1 <= n THEN n - 1 + 1 ELSE 0
      /\ SubSeq(coin.ts, 1, n) = [k \in 1 .. n - 1 + 1 |-> coin.ts[1 + k - 1]]
  <2>1. PICK s \in Seq(Nat) : s = coin.ts
    BY <1>1
  <2>2. QED
    BY <1>2, <2>1, CutIs
<1>4. /\ SubSeq(coin.closes, 1, n) \in Seq(Int)
      /\ Len(SubSeq(coin.closes, 1, n)) = IF 1 <= n THEN n - 1 + 1 ELSE 0
  BY <1>1, <1>2, CutIs, Zenon
<1>5. n - 1 + 1 = n /\ \A k \in 1 .. n : 1 + k - 1 = k
  BY <1>1
<1>6. /\ Len(SubSeq(coin.ts, 1, n)) = n /\ Len(SubSeq(coin.closes, 1, n)) = n
      /\ SubSeq(coin.ts, 1, n) = [k \in 1 .. n |-> coin.ts[k]]
  BY <1>1, <1>3, <1>4, <1>5
<1>7. /\ Coins!CutTo(coin, n).ts = SubSeq(coin.ts, 1, n)
      /\ Coins!CutTo(coin, n).closes = SubSeq(coin.closes, 1, n)
  BY DEF Coins!CutTo
<1>8. QED
  BY <1>3, <1>4, <1>6, <1>7 DEF IsReady, IsCoin

LEMMA BookIs ==
    ASSUME NEW list \in BooksV1 \cup BooksV2
    PROVE  /\ Len(list) \in Nat /\ DOMAIN list = 1 .. Len(list)
           /\ \A k \in 1 .. Len(list) : IsCoin(list[k])
<1>1. /\ list \in Seq({list[k] : k \in DOMAIN list})
      /\ \A k \in 1 .. Len(list) :
            /\ list[k].ts \in Seq(Nat) /\ list[k].closes \in Seq(Int)
            /\ Len(list[k].ts) = Len(list[k].closes)
  BY MomentumParams, Zenon
<1>2. PICK S : list \in Seq(S)
  BY <1>1
<1>3. Len(list) \in Nat /\ DOMAIN list = 1 .. Len(list)
  BY <1>2
<1>4. QED
  BY <1>1, <1>3 DEF IsCoin

(* What is loaded, and of which coins: ready, and of the same hours. *)
LoadedFrom(list, S) ==
    /\ list \in Seq(S)
    /\ \A coin \in S : IsReady(coin)

SameHours(S) == \A coin, other \in S : coin.ts = other.ts

LEMMA AllIsReady ==
    ASSUME NEW list \in BooksV1 \cup BooksV2
    PROVE  LoadedFrom(Coins!LongEnough(list, LOOKBACK + Enough),
                      LongOf(list, LOOKBACK + Enough))
<1>1. Len(list) \in Nat /\ \A k \in 1 .. Len(list) : IsCoin(list[k])
  BY BookIs
<1>2. \A coin \in LongOf(list, LOOKBACK + Enough) : IsReady(coin)
  BY <1>1 DEF LongOf, IsReady
<1>3. QED
  BY <1>1, <1>2, LongEnoughIs DEF LoadedFrom

LEMMA NoneLoaded == LoadedFrom(<< >>, {}) /\ SameHours({})
  BY DEF LoadedFrom, SameHours

LEMMA AlignedIs ==
    ASSUME NEW list \in BooksV1 \cup BooksV2
    PROVE  \E S : /\ LoadedFrom(Coins!FilterAndAlign(list), S)
                  /\ AllGapless(list) => SameHours(S)
<1> DEFINE old == Coins!LongEnough(list, LOOKBACK + MIN_HISTORY)
           first == Coins!CommonStart({old[k].ts[1] : k \in 1 .. Len(old)})
           final == Coins!Lowest({old[k].ts[Len(old[k].ts)] : k \in 1 .. Len(old)})
           parts == [k \in 1 .. Len(old) |-> Coins!Within(old[k], first, final)]
           common == Coins!LongEnough(parts, LOOKBACK + Enough)
           shortest == Coins!Lowest({Len(common[k].ts) : k \in 1 .. Len(common)})
           cut == [k \in 1 .. Len(common) |-> Coins!CutTo(common[k], shortest)]
<1>1. Coins!FilterAndAlign(list)
        = IF old = << >> THEN << >>
          ELSE IF first >= final \/ common = << >> THEN << >> ELSE cut
  BY Zenon DEF Coins!FilterAndAlign
<1>2. CASE old = << >> \/ first >= final \/ common = << >>
  <2>1. Coins!FilterAndAlign(list) = << >>
    BY <1>1, <1>2, Zenon
  <2>2. QED
    BY <2>1, NoneLoaded, Zenon
<1>3. CASE ~(old = << >> \/ first >= final \/ common = << >>)
  <2>1. Coins!FilterAndAlign(list) = cut
    BY <1>1, <1>3, Zenon
  <2>2. /\ LOOKBACK \in Nat \ {0} /\ Enough \in Nat /\ MIN_HISTORY \in Nat
        /\ Len(list) \in Nat /\ DOMAIN list = 1 .. Len(list)
        /\ \A k \in 1 .. Len(list) : IsCoin(list[k])
    BY BookIs, MomentumParams, Zenon
  <2>3. /\ old \in Seq(LongOf(list, LOOKBACK + MIN_HISTORY))
        /\ Len(old) \in Nat \ {0}
    <3>1. old \in Seq(LongOf(list, LOOKBACK + MIN_HISTORY))
      BY <2>2, LongEnoughIs
    <3>2. old # << >>
      BY <1>3
    <3> HIDE DEF old
    <3>3. QED
      BY <3>1, <3>2
  <2> HIDE DEF old
  <2>4. ASSUME NEW k \in 1 .. Len(old)
        PROVE  /\ IsCoin(old[k]) /\ Len(old[k].ts) \in Nat \ {0}
               /\ old[k].ts[1] \in Nat /\ old[k].ts[Len(old[k].ts)] \in Nat
               /\ AllGapless(list) => Coins!Gapless(old[k])
    <3>1. old[k] \in LongOf(list, LOOKBACK + MIN_HISTORY)
      BY <2>3
    <3>2. PICK j \in 1 .. Len(list) :
             old[k] = list[j] /\ Len(list[j].closes) >= LOOKBACK + MIN_HISTORY
      BY <3>1 DEF LongOf
    <3>3. IsCoin(old[k])
      BY <2>2, <3>2
    <3>4. old[k].ts \in Seq(Nat) /\ Len(old[k].ts) \in Nat \ {0}
      BY <2>2, <3>2, <3>3 DEF IsCoin
    <3>5. AllGapless(list) => Coins!Gapless(old[k])
      BY <2>2, <3>2 DEF AllGapless
    <3>6. QED
      BY <3>3, <3>4, <3>5
  <2>5. first \in Nat /\ \A k \in 1 .. Len(old) : old[k].ts[1] <= first
    <3> DEFINE f == [k \in 1 .. Len(old) |-> old[k].ts[1]]
    <3>1. \A k \in 1 .. Len(old) : f[k] \in Nat /\ f[k] = old[k].ts[1]
      BY <2>4
    <3> HIDE DEF f
    <3>2. /\ Coins!Highest({f[k] : k \in 1 .. Len(old)}) \in {f[k] : k \in 1 .. Len(old)}
          /\ \A x \in {f[k] : k \in 1 .. Len(old)} :
                x <= Coins!Highest({f[k] : k \in 1 .. Len(old)})
      BY <2>3, <3>1, LastOf
    <3>3. {f[k] : k \in 1 .. Len(old)} = {old[k].ts[1] : k \in 1 .. Len(old)}
      BY <3>1
    <3>4. first = Coins!Highest({f[k] : k \in 1 .. Len(old)})
      BY <3>3, Zenon DEF Coins!CommonStart
    <3> HIDE DEF first
    <3>5. QED
      BY <3>1, <3>2, <3>4
  <2>6. final \in Nat
    <3> DEFINE finals == {old[k].ts[Len(old[k].ts)] : k \in 1 .. Len(old)}
    <3>1. finals \in SUBSET Nat
      BY <2>4
    <3>2. finals # {}
      <4>1. 1 \in 1 .. Len(old)
        BY <2>3
      <4>2. QED
        BY <4>1
    <3> HIDE DEF finals
    <3>3. Coins!Lowest(finals) \in Nat
      BY <3>1, <3>2, FirstHour
    <3>4. QED
      BY <3>3 DEF finals
  <2> HIDE DEF first, final
  <2>7. /\ Len(parts) = Len(old)
        /\ \A k \in 1 .. Len(old) :
              /\ IsCoin(parts[k])
              /\ AllGapless(list) =>
                    \A i \in 1 .. Len(parts[k].ts) : parts[k].ts[i] = first + i - 1
    <3>1. Len(parts) = Len(old)
      BY <2>3
    <3>2. ASSUME NEW k \in 1 .. Len(old)
          PROVE  /\ IsCoin(Coins!Within(old[k], first, final))
                 /\ AllGapless(list) =>
                      \A i \in 1 .. Len(Coins!Within(old[k], first, final).ts) :
                         Coins!Within(old[k], first, final).ts[i] = first + i - 1
      <4>1. IsCoin(Coins!Within(old[k], first, final))
        BY <2>4, <2>5, <2>6, PartIs
      <4>2. Len(old[k].ts) # 0 /\ old[k].ts[1] <= first /\ IsCoin(old[k])
        BY <2>4, <2>5
      <4>3. QED
        BY <2>4, <2>5, <2>6, <4>1, <4>2, HoursOfPart
    <3>3. QED
      BY <3>1, <3>2
  <2> HIDE DEF parts
  <2>8. /\ common \in Seq(LongOf(parts, LOOKBACK + Enough))
        /\ Len(common) \in Nat \ {0}
    <3>1. Len(parts) \in Nat
      BY <2>3, <2>7
    <3>2. common \in Seq(LongOf(parts, LOOKBACK + Enough))
      BY <3>1, LongEnoughIs
    <3>3. common # << >>
      BY <1>3
    <3> HIDE DEF common
    <3>4. QED
      BY <3>2, <3>3
  <2> HIDE DEF common
  <2>9. ASSUME NEW k \in 1 .. Len(common)
        PROVE  /\ IsReady(common[k]) /\ Len(common[k].ts) \in Nat
               /\ Len(common[k].ts) >= LOOKBACK + Enough
               /\ AllGapless(list) =>
                    \A i \in 1 .. Len(common[k].ts) : common[k].ts[i] = first + i - 1
    <3>1. common[k] \in LongOf(parts, LOOKBACK + Enough)
      BY <2>8
    <3>2. PICK j \in 1 .. Len(old) :
             common[k] = parts[j] /\ Len(parts[j].closes) >= LOOKBACK + Enough
      BY <2>7, <3>1 DEF LongOf
    <3>3. IsReady(common[k])
      BY <2>7, <3>2 DEF IsReady
    <3>4. Len(common[k].ts) \in Nat /\ Len(common[k].ts) >= LOOKBACK + Enough
      BY <2>2, <3>3 DEF IsReady, IsCoin
    <3>5. QED
      BY <2>7, <3>2, <3>3, <3>4
  <2>10. /\ shortest \in Nat /\ shortest >= LOOKBACK + Enough
         /\ \A k \in 1 .. Len(common) : shortest <= Len(common[k].ts)
    <3> DEFINE lengths == {Len(common[k].ts) : k \in 1 .. Len(common)}
    <3>1. lengths \in SUBSET Nat /\ \A n \in lengths : n >= LOOKBACK + Enough
      BY <2>9
    <3>2. lengths # {}
      <4>1. 1 \in 1 .. Len(common)
        BY <2>8
      <4>2. QED
        BY <4>1
    <3>3. \A k \in 1 .. Len(common) : Len(common[k].ts) \in lengths
      OBVIOUS
    <3> HIDE DEF lengths
    <3>4. Coins!Lowest(lengths) \in lengths /\ \A n \in lengths : Coins!Lowest(lengths) <= n
      BY <3>1, <3>2, FirstHour
    <3>5. shortest = Coins!Lowest(lengths)
      BY Zenon DEF lengths
    <3> HIDE DEF shortest
    <3>6. QED
      BY <3>1, <3>3, <3>4, <3>5
  <2> HIDE DEF shortest
  <2>11. ASSUME NEW k \in 1 .. Len(common)
         PROVE  /\ IsReady(Coins!CutTo(common[k], shortest))
                /\ AllGapless(list) =>
                     Coins!CutTo(common[k], shortest).ts
                       = [i \in 1 .. shortest |-> first + i - 1]
    <3>1. /\ IsReady(Coins!CutTo(common[k], shortest))
          /\ Coins!CutTo(common[k], shortest).ts
               = [i \in 1 .. shortest |-> common[k].ts[i]]
      BY <2>9, <2>10, CutIsReady
    <3>2. \A i \in 1 .. shortest : i \in 1 .. Len(common[k].ts)
      BY <2>9, <2>10
    <3>3. QED
      BY <2>9, <3>1, <3>2
  <2> DEFINE S == {Coins!CutTo(common[k], shortest) : k \in 1 .. Len(common)}
  <2>12. cut \in Seq(S)
    BY <2>8
  <2>13. \A coin \in S : IsReady(coin)
    BY <2>11
  <2>14. AllGapless(list) => SameHours(S)
    BY <2>11 DEF SameHours
  <2> HIDE DEF S, cut
  <2>15. LoadedFrom(cut, S)
    BY <2>12, <2>13 DEF LoadedFrom
  <2>16. QED
    BY <2>1, <2>14, <2>15, Zenon
<1>4. QED
  BY <1>2, <1>3

(* The bars up to b at which a position may be decided, and that the last   *)
(* of them decided for a side.                                              *)
PricedAt(coin, j) ==
    coin.closes[j + 1] > 0 /\ coin.closes[j] > 0 /\ coin.closes[j - LOOKBACK + 1] > 0

Decided(coin, b) == {j \in LOOKBACK .. b - 1 : PricedAt(coin, j)}

SideAt(coin, j) ==
    Coins!Sign(coin.closes[j + 1] - coin.closes[j - LOOKBACK + 1])

DecidedFor(coin, b, side) ==
    \E j \in Decided(coin, b) :
        /\ \A other \in Decided(coin, b) : other <= j
        /\ side = SideAt(coin, j)

(* A position that is open has paid one side less than two. *)
Open(side) == IF side = 0 THEN 0 ELSE 1

(* A curve after a bar over which held was held and fees were paid. *)
Extended(curve, held, fees) ==
    Append(curve, [held |-> held, sides |-> curve[Len(curve)].sides + fees])

IsRun(r) ==
    r = [coin |-> r.coin, i |-> r.i, position |-> r.position, entry |-> r.entry,
         trades |-> r.trades, stops |-> r.stops, curve |-> r.curve]

RunInv(r) ==
    /\ IsRun(r) /\ IsReady(r.coin)
    /\ r.i \in LOOKBACK .. Len(r.coin.closes)
    /\ r.position \in {-1, 0, 1} /\ r.trades \in Nat
    /\ \E S : r.curve \in Seq(S)
    /\ Len(r.curve) = r.i - LOOKBACK + 1
    /\ r.curve[Len(r.curve)].sides = 2 * r.trades - Open(r.position)
    /\ r.position # 0 => DecidedFor(r.coin, r.i, r.position)
    /\ \A k \in 2 .. Len(r.curve) :
          r.curve[k].held # 0 =>
             DecidedFor(r.coin, LOOKBACK + k - 2, r.curve[k].held)

(* What the running position has lost by the last bar with a price. *)
LossInv ==
    run.position # 0 =>
        /\ run.entry \in Int /\ run.entry > 0
        /\ part = "m2" =>
             LET last == run.i - 1
                 c(i) == run.coin.closes[i + 1]
             IN  c(last) > 0 /\ c(last - 1) > 0 =>
                   (c(last) - run.entry) * run.position * 100
                      >= -Coins!MAX_LOSS * run.entry

MomentumInv ==
    \E S :
        /\ \A coin \in S : IsReady(coin)
        /\ coins \in Seq(S)
        /\ run # None => RunInv(run) /\ run.coin \in S /\ LossInv
        /\ \E R : results \in Seq(R)
        /\ \A r \in 1 .. Len(results) : RunInv(results[r]) /\ results[r].coin \in S
        /\ part = "m2" /\ AllGapless(book) => SameHours(S)
        /\ book = << >> => coins = << >> /\ run = None /\ results = << >>

LEMMA RunIs ==
    ASSUME NEW r, RunInv(r)
    PROVE  /\ LOOKBACK \in Nat \ {0} /\ r.i \in Nat /\ LOOKBACK <= r.i
           /\ Len(r.coin.closes) \in Nat /\ r.i <= Len(r.coin.closes)
           /\ \A k \in 1 .. Len(r.coin.closes) : r.coin.closes[k] \in Int
           /\ Len(r.curve) \in Nat /\ Len(r.curve) = r.i - LOOKBACK + 1
           /\ r.position \in Int /\ r.trades \in Nat
<1>1. LOOKBACK \in Nat \ {0}
  BY MomentumParams, Zenon
<1>2. r.coin.closes \in Seq(Int)
  BY DEF RunInv, IsReady, IsCoin
<1>3. r.i \in LOOKBACK .. Len(r.coin.closes) /\ r.position \in {-1, 0, 1} /\ r.trades \in Nat
  BY DEF RunInv
<1>4. Len(r.curve) \in Nat
  <2>1. PICK S : r.curve \in Seq(S)
    BY DEF RunInv
  <2>2. QED
    BY <2>1
<1>5. Len(r.curve) = r.i - LOOKBACK + 1
  BY DEF RunInv
<1>6. Len(r.coin.closes) \in Nat /\ \A k \in 1 .. Len(r.coin.closes) : r.coin.closes[k] \in Int
  BY <1>2
<1>7. r.i \in Nat /\ LOOKBACK <= r.i /\ r.i <= Len(r.coin.closes)
  BY <1>1, <1>3, <1>6
<1>8. r.position \in Int
  BY <1>3
<1>9. QED
  BY <1>1, <1>3, <1>4, <1>5, <1>6, <1>7, <1>8

(* A bar with the three prices decides; without them the decision is the    *)
(* one before.                                                              *)
LEMMA DecidedNext ==
    ASSUME NEW coin, NEW b \in Nat, LOOKBACK \in Nat, LOOKBACK <= b
    PROVE  /\ PricedAt(coin, b) => DecidedFor(coin, b + 1, SideAt(coin, b))
           /\ ~PricedAt(coin, b) =>
                \A side : DecidedFor(coin, b, side) => DecidedFor(coin, b + 1, side)
<1>1. Decided(coin, b + 1) = {j \in LOOKBACK .. b : PricedAt(coin, j)}
  BY DEF Decided
<1>2. ASSUME PricedAt(coin, b) PROVE DecidedFor(coin, b + 1, SideAt(coin, b))
  <2>1. b \in Decided(coin, b + 1) /\ \A j \in Decided(coin, b + 1) : j <= b
    BY <1>1, <1>2
  <2>2. QED
    BY <2>1 DEF DecidedFor
<1>3. ASSUME ~PricedAt(coin, b) PROVE Decided(coin, b + 1) = Decided(coin, b)
  BY <1>1, <1>3 DEF Decided
<1>4. QED
  BY <1>2, <1>3 DEF DecidedFor

LEMMA CurveGrows ==
    ASSUME NEW S, NEW curve \in Seq(S), NEW held, NEW fees
    PROVE  LET grown == Extended(curve, held, fees)
           IN  /\ \E T : grown \in Seq(T)
               /\ Len(grown) = Len(curve) + 1
               /\ grown[Len(grown)].held = held
               /\ grown[Len(grown)].sides = curve[Len(curve)].sides + fees
               /\ \A k \in 1 .. Len(curve) : grown[k] = curve[k]
<1> DEFINE point == [held |-> held, sides |-> curve[Len(curve)].sides + fees]
<1>1. point.held = held /\ point.sides = curve[Len(curve)].sides + fees
  OBVIOUS
<1>2. Extended(curve, held, fees) = Append(curve, point)
  BY DEF Extended
<1> HIDE DEF point
<1>3. Append(curve, point) \in Seq(S \cup {point})
  OBVIOUS
<1>4. /\ Len(Append(curve, point)) = Len(curve) + 1
      /\ Append(curve, point)[Len(curve) + 1] = point
      /\ \A k \in 1 .. Len(curve) : Append(curve, point)[k] = curve[k]
  OBVIOUS
<1>5. QED
  BY <1>1, <1>2, <1>3, <1>4

(* The end of a bar over which the position, or nothing, was held. *)
LEMMA EndOfBarKeeps ==
    ASSUME NEW r, RunInv(r), r.i < Len(r.coin.closes),
           NEW held \in {0, r.position}, NEW fees \in Int,
           NEW position_ \in {-1, 0, 1}, NEW trades_ \in Nat, NEW u, IsRun(u),
           u.coin = r.coin, u.i = r.i + 1, u.position = position_,
           u.trades = trades_,
           u.curve = Extended(r.curve, held, fees),
           fees = 2 * (trades_ - r.trades) - Open(position_)
                    + Open(r.position),
           position_ # 0 => DecidedFor(r.coin, r.i + 1, position_)
    PROVE  RunInv(u)
<1>1. /\ LOOKBACK \in Nat \ {0} /\ r.i \in Nat /\ LOOKBACK <= r.i
      /\ Len(r.coin.closes) \in Nat /\ Len(r.curve) \in Nat
      /\ Len(r.curve) = r.i - LOOKBACK + 1 /\ r.trades \in Nat
  BY RunIs
<1>2. PICK S : r.curve \in Seq(S)
  BY DEF RunInv
<1>6. r.curve[Len(r.curve)].sides = 2 * r.trades - Open(r.position)
  BY DEF RunInv
<1>5. /\ \E T : u.curve \in Seq(T)
      /\ Len(u.curve) = Len(r.curve) + 1
      /\ u.curve[Len(u.curve)].held = held
      /\ u.curve[Len(u.curve)].sides = r.curve[Len(r.curve)].sides + fees
      /\ \A k \in 1 .. Len(r.curve) : u.curve[k] = r.curve[k]
  BY <1>2, CurveGrows
<1>7. u.curve[Len(u.curve)].sides = 2 * u.trades - Open(u.position)
  <2>1. r.trades \in Nat /\ Open(r.position) \in {0, 1} /\ Open(position_) \in {0, 1}
    BY <1>1 DEF Open
  <2>2. r.curve[Len(r.curve)].sides + fees = 2 * trades_ - Open(position_)
    BY <1>6, <2>1
  <2>3. QED
    BY <1>5, <2>2
<1> PICK n \in Nat : n = Len(r.curve)
  BY <1>1
<1>n. n = r.i - LOOKBACK + 1 /\ Len(u.curve) = n + 1
  BY <1>1, <1>5
<1>i. /\ r.i + 1 \in LOOKBACK .. Len(r.coin.closes)
      /\ n + 1 = (r.i + 1) - LOOKBACK + 1
      /\ LOOKBACK + (n + 1) - 2 = r.i
  <2>1. PICK i \in Nat : i = r.i
    BY <1>1
  <2>2. PICK length \in Nat : length = Len(r.coin.closes)
    BY <1>1
  <2>3. LOOKBACK \in Nat /\ LOOKBACK <= i /\ i < length /\ n = i - LOOKBACK + 1
    BY <1>1, <1>n, <2>1, <2>2
  <2>4. i + 1 \in LOOKBACK .. length
    BY <2>3
  <2>5. n + 1 = (i + 1) - LOOKBACK + 1
    BY <2>3
  <2>6. LOOKBACK + (n + 1) - 2 = i
    BY <2>3
  <2>7. QED
    BY <2>1, <2>2, <2>4, <2>5, <2>6
<1>8. ASSUME NEW k \in 2 .. Len(u.curve), u.curve[k].held # 0
      PROVE  DecidedFor(u.coin, LOOKBACK + k - 2, u.curve[k].held)
  <2>1. CASE k \in 2 .. Len(r.curve)
    <3>1. u.curve[k] = r.curve[k]
      <4>1. Len(r.curve) \in Nat
        BY <1>1
      <4>2. k \in 1 .. Len(r.curve)
        BY <2>1, <4>1
      <4>3. QED
        BY <1>5, <4>2, Zenon
    <3>2. QED
      BY <1>8, <2>1, <3>1 DEF RunInv
  <2>2. CASE k = Len(r.curve) + 1
    <3>0. k = Len(u.curve)
      BY <1>n, <2>2
    <3>1. u.curve[k].held = held /\ LOOKBACK + k - 2 = r.i
      <4>1. u.curve[k].held = held
        BY <1>5, <3>0
      <4>2. LOOKBACK + k - 2 = r.i
        BY <1>i, <1>n, <2>2, Zenon
      <4>3. QED
        BY <4>1, <4>2
    <3>2. held = r.position /\ held # 0
      BY <1>8, <3>1
    <3>3. DecidedFor(r.coin, r.i, r.position)
      BY <3>2 DEF RunInv
    <3>4. QED
      BY <3>1, <3>2, <3>3
  <2>3. k \in 2 .. Len(r.curve) \/ k = Len(r.curve) + 1
    BY <1>n
  <2>4. QED
    BY <2>1, <2>2, <2>3
<1>9. /\ IsReady(u.coin) /\ u.i \in LOOKBACK .. Len(u.coin.closes)
      /\ Len(u.curve) = u.i - LOOKBACK + 1
  <2>1. IsReady(r.coin)
    BY DEF RunInv
  <2>2. u.i = r.i + 1 /\ u.coin = r.coin
    OBVIOUS
  <2>3. u.i \in LOOKBACK .. Len(u.coin.closes)
    BY <1>i, <2>2, Zenon
  <2>4. Len(u.curve) = u.i - LOOKBACK + 1
    <3>1. Len(u.curve) = (r.i + 1) - LOOKBACK + 1
      BY <1>i, <1>n, Zenon
    <3>2. QED
      BY <2>2, <3>1, Zenon
  <2>5. QED
    BY <2>1, <2>2, <2>3, <2>4
<1>10. QED
  BY <1>5, <1>7, <1>8, <1>9 DEF RunInv

(* The prices a bar looks at. *)
LEMMA PriceIs ==
    ASSUME RunInv(run), run.i < Len(run.coin.closes)
    PROVE  LET b == run.i
               first == run.i - LOOKBACK + 1
           IN  /\ b \in Nat /\ b >= 1 /\ LOOKBACK <= b /\ LOOKBACK \in Nat
               /\ Coins!Price = run.coin.closes[b + 1] /\ Coins!Price \in Int
               /\ Coins!Close(b - 1) = run.coin.closes[b]
               /\ run.coin.closes[b] \in Int
               /\ Coins!Close(b - LOOKBACK) = run.coin.closes[first]
               /\ run.coin.closes[first] \in Int
<1>1. /\ LOOKBACK \in Nat \ {0} /\ run.i \in Nat /\ LOOKBACK <= run.i
      /\ Len(run.coin.closes) \in Nat
      /\ \A k \in 1 .. Len(run.coin.closes) : run.coin.closes[k] \in Int
  BY RunIs
<1>2. PICK b \in Nat : b = run.i
  BY <1>1
<1>3. PICK n \in Nat : n = Len(run.coin.closes)
  BY <1>1
<1>4. LOOKBACK \in Nat \ {0} /\ LOOKBACK <= b /\ b < n
  BY <1>1, <1>2, <1>3
<1>5. /\ b + 1 \in 1 .. n /\ b \in 1 .. n /\ b - LOOKBACK + 1 \in 1 .. n
      /\ (b - 1) + 1 = b /\ (b - LOOKBACK) + 1 = b - LOOKBACK + 1 /\ b >= 1
  BY <1>4
<1>6. /\ run.coin.closes[b + 1] \in Int /\ run.coin.closes[b] \in Int
      /\ run.coin.closes[b - LOOKBACK + 1] \in Int
  BY <1>1, <1>3, <1>5
<1>7. Coins!Close(b - 1) = run.coin.closes[b]
  BY <1>5 DEF Coins!Close
<1>8. Coins!Close(b - LOOKBACK) = run.coin.closes[b - LOOKBACK + 1]
  BY <1>5 DEF Coins!Close
<1>9. Coins!Price = run.coin.closes[b + 1]
  BY <1>2 DEF Coins!Price, Coins!Close
<1>10. QED
  BY <1>1, <1>2, <1>4, <1>5, <1>6, <1>7, <1>8, <1>9

(* What is decided by the bar, and what one without its prices decides. *)
LEMMA BarDecides ==
    ASSUME RunInv(run), run.i < Len(run.coin.closes)
    PROVE  /\ ~Coins!Unpriced /\ Coins!Close(run.i - LOOKBACK) > 0 =>
                DecidedFor(run.coin, run.i + 1, Coins!Target)
           /\ Coins!Unpriced \/ Coins!Close(run.i - LOOKBACK) <= 0 =>
                \A side : DecidedFor(run.coin, run.i, side) =>
                            DecidedFor(run.coin, run.i + 1, side)
<1> DEFINE first == run.i - LOOKBACK + 1
<1>1. /\ run.i \in Nat /\ LOOKBACK <= run.i /\ LOOKBACK \in Nat
      /\ Coins!Price = run.coin.closes[run.i + 1] /\ Coins!Price \in Int
      /\ Coins!Close(run.i - 1) = run.coin.closes[run.i]
      /\ run.coin.closes[run.i] \in Int
      /\ Coins!Close(run.i - LOOKBACK) = run.coin.closes[first]
      /\ run.coin.closes[first] \in Int
  BY PriceIs
<1>2. PricedAt(run.coin, run.i) <=>
         run.coin.closes[run.i + 1] > 0 /\ run.coin.closes[run.i] > 0
            /\ run.coin.closes[first] > 0
  BY DEF PricedAt
<1>3. SideAt(run.coin, run.i) = Coins!Target
  BY <1>1 DEF SideAt, Coins!Target
<1> HIDE DEF first
<1>4. PricedAt(run.coin, run.i) <=>
         ~Coins!Unpriced /\ ~(Coins!Close(run.i - LOOKBACK) <= 0)
  <2>1. PICK p \in Int, q \in Int, f \in Int :
           /\ p = Coins!Price /\ p = run.coin.closes[run.i + 1]
           /\ q = Coins!Close(run.i - 1) /\ q = run.coin.closes[run.i]
           /\ f = Coins!Close(run.i - LOOKBACK) /\ f = run.coin.closes[first]
    BY <1>1
  <2>2. PricedAt(run.coin, run.i) <=> p > 0 /\ q > 0 /\ f > 0
    BY <1>2, <2>1
  <2>3. Coins!Unpriced <=> q <= 0 \/ p <= 0
    BY <2>1, Zenon DEF Coins!Unpriced
  <2>4. (p > 0 /\ q > 0 /\ f > 0) <=> ~(q <= 0 \/ p <= 0) /\ ~(f <= 0)
    OBVIOUS
  <2>5. QED
    BY <2>1, <2>2, <2>3, <2>4, Zenon
<1>5. /\ PricedAt(run.coin, run.i) =>
            DecidedFor(run.coin, run.i + 1, SideAt(run.coin, run.i))
      /\ ~PricedAt(run.coin, run.i) =>
            \A side : DecidedFor(run.coin, run.i, side) =>
                        DecidedFor(run.coin, run.i + 1, side)
  BY <1>1, DecidedNext
<1>6. Coins!Close(run.i - LOOKBACK) \in Int
  BY <1>1
<1>7. Coins!Close(run.i - LOOKBACK) > 0 => ~(Coins!Close(run.i - LOOKBACK) <= 0)
  BY <1>6
<1>8. QED
  BY <1>3, <1>4, <1>5, <1>7

(* What a bar leaves behind of the run. *)
LEMMA EndOfBarIs ==
    ASSUME NEW held, NEW fees, NEW next, IsRun(next), next.i = run.i,
           next.curve = run.curve, Coins!EndOfBar(held, fees, next)
    PROVE  /\ IsRun(run') /\ run'.coin = next.coin /\ run'.i = run.i + 1
           /\ run'.position = next.position /\ run'.entry = next.entry
           /\ run'.trades = next.trades
           /\ run'.curve = Extended(run.curve, held, fees)
<1>1. PICK coin, i, position_, entry, sold, stops, curve :
         next = [coin |-> coin, i |-> i, position |-> position_, entry |-> entry,
                 trades |-> sold, stops |-> stops, curve |-> curve]
  BY DEF IsRun
<1>2. i = run.i /\ curve = run.curve
  BY <1>1
<1> DEFINE grown == Append(run.curve, [held |-> held, sides |-> Coins!Sides + fees])
<1>3. grown = Extended(run.curve, held, fees)
  BY DEF Extended, Coins!Sides
<1>4. run' = [next EXCEPT !.i = run.i + 1, !.curve = grown]
  BY <1>1, <1>2 DEF Coins!EndOfBar
<1> HIDE DEF grown
<1>5. run' = [coin |-> coin, i |-> run.i + 1, position |-> position_, entry |-> entry,
              trades |-> sold, stops |-> stops, curve |-> grown]
  BY <1>1, <1>4
<1>6. QED
  BY <1>1, <1>3, <1>5 DEF IsRun

(* A bar keeps the invariant of a run when what it decides was decided by   *)
(* its prices and what it pays is for the sides it turned.                  *)
LEMMA BarKeeps ==
    ASSUME MomentumInv, run # None, run.i < Len(run.coin.closes), part' = part,
           NEW held \in {0, run.position}, NEW fees \in Int, NEW next, IsRun(next),
           next.coin = run.coin, next.i = run.i, next.curve = run.curve,
           next.position \in {-1, 0, 1}, next.trades \in Nat,
           fees = 2 * (next.trades - run.trades) - Open(next.position)
                    + Open(run.position),
           next.position # 0 => DecidedFor(run.coin, run.i + 1, next.position),
           Coins!EndOfBar(held, fees, next), LossInv'
    PROVE  MomentumInv'
<1>1. PICK S :
        /\ \A coin \in S : IsReady(coin)
        /\ coins \in Seq(S)
        /\ run # None => RunInv(run) /\ run.coin \in S /\ LossInv
        /\ \E R : results \in Seq(R)
        /\ \A r \in 1 .. Len(results) : RunInv(results[r]) /\ results[r].coin \in S
        /\ part = "m2" /\ AllGapless(book) => SameHours(S)
        /\ book = << >> => coins = << >> /\ run = None /\ results = << >>
  BY Zenon DEF MomentumInv
<1>2. RunInv(run) /\ run.coin \in S
  BY <1>1
<1>3. /\ IsRun(run') /\ run'.coin = run.coin /\ run'.i = run.i + 1
      /\ run'.position = next.position /\ run'.trades = next.trades
      /\ run'.curve = Extended(run.curve, held, fees)
  BY EndOfBarIs
<1>4. RunInv(run')
  <2>1. run'.position \in {-1, 0, 1} /\ run'.trades \in Nat
    BY <1>3
  <2>2. fees = 2 * (run'.trades - run.trades) - Open(run'.position) + Open(run.position)
    BY <1>3, Zenon
  <2>3. run'.position # 0 => DecidedFor(run.coin, run.i + 1, run'.position)
    BY <1>3, Zenon
  <2>4. QED
    BY <1>2, <1>3, <2>1, <2>2, <2>3, EndOfBarKeeps, Zenon
<1>5. UNCHANGED <<book, coins, results>>
  BY DEF Coins!EndOfBar
<1>6. /\ coins' \in Seq(S)
      /\ run' # None => RunInv(run') /\ run'.coin \in S /\ LossInv'
      /\ \E R : results' \in Seq(R)
      /\ \A r \in 1 .. Len(results') : RunInv(results'[r]) /\ results'[r].coin \in S
      /\ part' = "m2" /\ AllGapless(book') => SameHours(S)
      /\ book' # << >>
  BY <1>1, <1>2, <1>3, <1>4, <1>5
<1>7. QED
  BY <1>1, <1>6 DEF MomentumInv

(* What a position has lost at the end of a bar. *)
LEMMA LossFrom ==
    ASSUME RunInv(run), run.i < Len(run.coin.closes), part' = part,
           run'.i = run.i + 1, run'.coin = run.coin,
           NEW held, run'.position = held, NEW entry, run'.entry = entry,
           held # 0 =>
              /\ entry \in Int /\ entry > 0
              /\ part = "m2" /\ ~Coins!Unpriced =>
                   (Coins!Price - entry) * held * 100 >= -Coins!MAX_LOSS * entry
    PROVE  LossInv'
<1>1. /\ run.i \in Nat
      /\ Coins!Price = run.coin.closes[run.i + 1] /\ Coins!Price \in Int
      /\ Coins!Close(run.i - 1) = run.coin.closes[run.i]
      /\ run.coin.closes[run.i] \in Int
  BY PriceIs
<1>2. /\ ((run.i + 1) - 1) + 1 = run.i + 1
      /\ (((run.i + 1) - 1) - 1) + 1 = run.i
  BY <1>1
<1> DEFINE c(i) == run'.coin.closes[i + 1]
           last == run'.i - 1
<1>3. c(last) = Coins!Price /\ c(last - 1) = Coins!Close(run.i - 1)
  <2>1. last = (run.i + 1) - 1
    OBVIOUS
  <2>2. c(last) = run.coin.closes[((run.i + 1) - 1) + 1]
    BY <2>1
  <2>3. c(last - 1) = run.coin.closes[(((run.i + 1) - 1) - 1) + 1]
    BY <2>1
  <2>4. QED
    BY <1>1, <1>2, <2>2, <2>3
<1>4. c(last) > 0 /\ c(last - 1) > 0 => ~Coins!Unpriced
  <2>1. PICK p \in Int, q \in Int : p = Coins!Price /\ q = Coins!Close(run.i - 1)
    BY <1>1
  <2>2. Coins!Unpriced <=> q <= 0 \/ p <= 0
    BY <2>1, Zenon DEF Coins!Unpriced
  <2>3. p > 0 /\ q > 0 => ~(q <= 0 \/ p <= 0)
    OBVIOUS
  <2> HIDE DEF c, last
  <2>4. QED
    BY <1>3, <2>1, <2>2, <2>3, Zenon
<1>5. SUFFICES ASSUME held # 0
               PROVE  /\ entry \in Int /\ entry > 0
                      /\ part = "m2" =>
                           (c(last) > 0 /\ c(last - 1) > 0 =>
                              (c(last) - entry) * held * 100
                                 >= -Coins!MAX_LOSS * entry)
  BY Zenon DEF LossInv
<1> HIDE DEF c, last
<1>6. QED
  BY <1>3, <1>4, <1>5, Zenon

(* The bars, one by one.  One without a price changes nothing ... *)
LEMMA SkipBarKeeps ==
    ASSUME MomentumInv, Coins!SkipBar, part' = part
    PROVE  MomentumInv'
<1>1. /\ run # None /\ run.i < Len(run.coin.closes) /\ Coins!Unpriced
      /\ Coins!EndOfBar(0, 0, run)
  BY DEF Coins!SkipBar, Coins!Running
<1>2. RunInv(run) /\ LossInv
  BY <1>1, Zenon DEF MomentumInv
<1>3. IsRun(run) /\ run.position \in {-1, 0, 1} /\ run.trades \in Nat
  BY <1>2 DEF RunInv
<1>4. run.position # 0 => DecidedFor(run.coin, run.i + 1, run.position)
  BY <1>1, <1>2, BarDecides DEF RunInv
<1>5. /\ run'.coin = run.coin /\ run'.i = run.i + 1
      /\ run'.position = run.position /\ run'.entry = run.entry
  BY <1>1, <1>3, EndOfBarIs
<1>6. LossInv'
  <2>1. run.position # 0 => run.entry \in Int /\ run.entry > 0
    BY <1>2 DEF LossInv
  <2>2. QED
    BY <1>1, <1>2, <1>5, <2>1, LossFrom, Zenon
<1>7. 0 \in Int /\ 0 = 2 * (run.trades - run.trades) - Open(run.position) + Open(run.position)
  <2>1. Open(run.position) \in {0, 1}
    BY DEF Open
  <2>2. QED
    BY <1>3, <2>1
<1>8. 0 \in {0, run.position}
  OBVIOUS
<1>9. QED
  BY <1>1, <1>3, <1>4, <1>6, <1>7, <1>8, BarKeeps, Zenon

(* ... one at which the loss is too large ends the position ... *)
LEMMA StopOutKeeps ==
    ASSUME MomentumInv, Coins!StopOut, part' = part
    PROVE  MomentumInv'
<1> DEFINE next == [run EXCEPT !.position = 0, !.entry = 0, !.stops = @ + 1]
<1>1. /\ run # None /\ run.i < Len(run.coin.closes) /\ Coins!Lost(Coins!Price)
      /\ Coins!EndOfBar(run.position, 1, next)
  BY DEF Coins!StopOut, Coins!Running
<1>2. RunInv(run)
  BY <1>1, Zenon DEF MomentumInv
<1>3. IsRun(run) /\ run.trades \in Nat
  BY <1>2 DEF RunInv
<1>4. run.position # 0
  BY <1>1 DEF Coins!Lost
<1>5. /\ IsRun(next) /\ next.coin = run.coin /\ next.i = run.i
      /\ next.curve = run.curve /\ next.position = 0 /\ next.trades = run.trades
  <2>1. PICK coin, i, position_, entry, sold, stops, curve :
           run = [coin |-> coin, i |-> i, position |-> position_, entry |-> entry,
                  trades |-> sold, stops |-> stops, curve |-> curve]
    BY <1>3 DEF IsRun
  <2> DEFINE none == 0
             more == run.stops + 1
  <2>a. next = [run EXCEPT !.position = none, !.entry = none, !.stops = more]
    OBVIOUS
  <2>b. none = 0
    OBVIOUS
  <2> HIDE DEF next, none, more
  <2>2. next = [coin |-> coin, i |-> i, position |-> none, entry |-> none,
                trades |-> sold, stops |-> more, curve |-> curve]
    BY <2>1, <2>a
  <2>3. QED
    BY <2>1, <2>2, <2>b DEF IsRun
<1> HIDE DEF next
<1>6. run'.position = 0
  BY <1>1, <1>5, EndOfBarIs
<1>7. LossInv'
  BY <1>6 DEF LossInv
<1>8. 1 \in Int /\ 1 = 2 * (next.trades - run.trades) - Open(next.position) + Open(run.position)
  <2>1. Open(run.position) = 1 /\ Open(next.position) = 0
    BY <1>4, <1>5 DEF Open
  <2>2. QED
    BY <1>3, <1>5, <2>1
<1>9. next.position \in {-1, 0, 1} /\ next.trades \in Nat
  BY <1>3, <1>5
<1>10. run.position \in {0, run.position}
  OBVIOUS
<1>11. QED
  BY <1>1, <1>5, <1>7, <1>8, <1>9, <1>10, BarKeeps, Zenon

(* ... one that decides nothing, or the same, keeps it ... *)
LEMMA KeepKeeps ==
    ASSUME MomentumInv, Coins!Keep, part' = part
    PROVE  MomentumInv'
<1>1. /\ run # None /\ run.i < Len(run.coin.closes)
      /\ ~Coins!Unpriced /\ ~Coins!Lost(Coins!Price)
      /\ Coins!Close(run.i - LOOKBACK) <= 0 \/ Coins!Target = run.position
      /\ Coins!EndOfBar(run.position, 0, run)
  BY Zenon DEF Coins!Keep, Coins!Running
<1>2. RunInv(run) /\ LossInv
  BY <1>1, Zenon DEF MomentumInv
<1>3. IsRun(run) /\ run.position \in {-1, 0, 1} /\ run.trades \in Nat
  BY <1>2 DEF RunInv
<1>p. PICK f \in Int : f = Coins!Close(run.i - LOOKBACK)
  BY <1>1, <1>2, PriceIs
<1>4. run.position # 0 => DecidedFor(run.coin, run.i + 1, run.position)
  <2>1. f <= 0 \/ f > 0
    BY <1>p
  <2>2. run.position # 0 => DecidedFor(run.coin, run.i, run.position)
    BY <1>2 DEF RunInv
  <2>3. QED
    BY <1>1, <1>2, <1>p, <2>1, <2>2, BarDecides, Zenon
<1>5. /\ run'.coin = run.coin /\ run'.i = run.i + 1
      /\ run'.position = run.position /\ run'.entry = run.entry
  BY <1>1, <1>3, EndOfBarIs
<1>6. LossInv'
  <2>1. run.position # 0 => run.entry \in Int /\ run.entry > 0
    BY <1>2 DEF LossInv
  <2>2. ASSUME run.position # 0, part = "m2"
        PROVE  (Coins!Price - run.entry) * run.position * 100
                  >= -Coins!MAX_LOSS * run.entry
    <3>1. ~((Coins!Price - run.entry) * run.position * 100
               < -Coins!MAX_LOSS * run.entry)
      BY <1>1, <2>1, <2>2, Zenon DEF Coins!Lost
    <3>2. Coins!Price \in Int
      BY <1>1, <1>2, PriceIs
    <3>3. (Coins!Price - run.entry) * run.position * 100 \in Int
      BY <1>3, <2>1, <2>2, <3>2
    <3>4. -Coins!MAX_LOSS * run.entry \in Int
      BY <2>1, <2>2 DEF Coins!MAX_LOSS
    <3>5. QED
      BY <3>1, <3>3, <3>4
  <2>3. QED
    BY <1>1, <1>2, <1>5, <2>1, <2>2, LossFrom, Zenon
<1>7. 0 \in Int /\ 0 = 2 * (run.trades - run.trades) - Open(run.position) + Open(run.position)
  <2>1. Open(run.position) \in {0, 1}
    BY DEF Open
  <2>2. QED
    BY <1>3, <2>1
<1>8. run.position \in {0, run.position}
  OBVIOUS
<1>9. QED
  BY <1>1, <1>3, <1>4, <1>6, <1>7, <1>8, BarKeeps, Zenon

(* ... and one that decides for the other side turns it. *)
LEMMA TurnKeeps ==
    ASSUME MomentumInv, Coins!Turn, part' = part
    PROVE  MomentumInv'
<1> DEFINE fees == IF run.position # 0 THEN 2 ELSE 1
<1>1. /\ run # None /\ run.i < Len(run.coin.closes)
      /\ ~Coins!Unpriced /\ Coins!Close(run.i - LOOKBACK) > 0
      /\ Coins!EndOfBar(run.position, fees, Coins!Turned)
  BY Zenon DEF Coins!Turn, Coins!Running
<1>2. RunInv(run)
  BY <1>1, Zenon DEF MomentumInv
<1>3. IsRun(run) /\ run.trades \in Nat
  BY <1>2 DEF RunInv
<1>4. Coins!Target \in {-1, 1}
  BY DEF Coins!Target, Coins!Sign
<1>5. /\ IsRun(Coins!Turned) /\ Coins!Turned.coin = run.coin
      /\ Coins!Turned.i = run.i /\ Coins!Turned.curve = run.curve
      /\ Coins!Turned.position = Coins!Target
      /\ Coins!Turned.entry = Coins!Price
      /\ Coins!Turned.trades = run.trades + 1
  <2>1. PICK coin, i, position_, entry, sold, stops, curve :
           run = [coin |-> coin, i |-> i, position |-> position_, entry |-> entry,
                  trades |-> sold, stops |-> stops, curve |-> curve]
    BY <1>3 DEF IsRun
  <2> DEFINE target == Coins!Target
             price == Coins!Price
  <2>2. Coins!Turned = [run EXCEPT !.position = target, !.entry = price, !.trades = @ + 1]
    BY DEF Coins!Turned
  <2> HIDE DEF target, price
  <2>3. Coins!Turned = [coin |-> coin, i |-> i, position |-> target, entry |-> price,
                        trades |-> sold + 1, stops |-> stops, curve |-> curve]
    BY <2>1, <2>2
  <2>4. QED
    BY <2>1, <2>3 DEF IsRun, target, price
<1>6. DecidedFor(run.coin, run.i + 1, Coins!Target)
  BY <1>1, <1>2, BarDecides
<1>7. /\ run'.coin = run.coin /\ run'.i = run.i + 1
      /\ run'.position = Coins!Target /\ run'.entry = Coins!Price
  BY <1>1, <1>5, EndOfBarIs
<1>8. LossInv'
  <2>1. PICK p \in Int : p = Coins!Price
    BY <1>1, <1>2, PriceIs
  <2>2. ~(p <= 0)
    BY <1>1, <2>1, Zenon DEF Coins!Unpriced
  <2>3. p > 0
    BY <2>2
  <2>4. Coins!Target \in Int
    BY <1>4
  <2>5. (p - p) * Coins!Target * 100 >= -Coins!MAX_LOSS * p
    BY <2>3, <2>4 DEF Coins!MAX_LOSS
  <2>6. QED
    BY <1>1, <1>2, <1>7, <2>1, <2>3, <2>5, LossFrom, Zenon
<1>9. fees \in Int
  OBVIOUS
<1>10. fees = 2 * (Coins!Turned.trades - run.trades) - Open(Coins!Turned.position)
                + Open(run.position)
  <2>1. Open(Coins!Turned.position) = 1
    BY <1>4, <1>5 DEF Open
  <2>2. 2 * (Coins!Turned.trades - run.trades) = 2
    BY <1>3, <1>5
  <2>3. fees = 1 + Open(run.position)
    BY DEF Open
  <2> HIDE DEF fees
  <2>4. Open(run.position) \in {0, 1}
    BY DEF Open
  <2>5. QED
    BY <2>1, <2>2, <2>3, <2>4
<1> HIDE DEF fees
<1>11. Coins!Turned.position \in {-1, 0, 1} /\ Coins!Turned.trades \in Nat
  BY <1>3, <1>4, <1>5
<1>12. run.position \in {0, run.position}
  OBVIOUS
<1>13. Coins!Turned.position # 0 =>
          DecidedFor(run.coin, run.i + 1, Coins!Turned.position)
  BY <1>5, <1>6, Zenon
<1>14. QED
  BY <1>1, <1>5, <1>8, <1>9, <1>10, <1>11, <1>12, <1>13, BarKeeps, Zenon

(* The next coin starts without a position. *)
LEMMA StartIsRun ==
    ASSUME NEW coin, IsReady(coin)
    PROVE  RunInv([coin |-> coin, i |-> LOOKBACK, position |-> 0, entry |-> 0,
                   trades |-> 0, stops |-> 0,
                   curve |-> <<[held |-> 0, sides |-> 0]>>])
<1> DEFINE first == [held |-> 0, sides |-> 0]
           curve == <<first>>
           none == 0
           r == [coin |-> coin, i |-> LOOKBACK, position |-> none, entry |-> none,
                 trades |-> none, stops |-> none, curve |-> curve]
<1>1. LOOKBACK \in Nat \ {0} /\ Enough \in Nat
  BY MomentumParams, Zenon
<1>2. Len(coin.closes) \in Nat /\ Len(coin.closes) >= LOOKBACK + Enough
  BY DEF IsReady, IsCoin
<1>3. first.sides = 0
  OBVIOUS
<1> HIDE DEF first
<1>4. /\ curve \in Seq({first}) /\ Len(curve) = 1 /\ curve[1] = first
  OBVIOUS
<1> HIDE DEF curve
<1>n. none = 0 /\ none \in Nat
  OBVIOUS
<1> HIDE DEF none
<1>5. /\ IsRun(r) /\ r.coin = coin /\ r.i = LOOKBACK /\ r.position = none
      /\ r.trades = none /\ r.curve = curve
  BY DEF IsRun
<1> HIDE DEF r
<1>6. LOOKBACK \in LOOKBACK .. Len(coin.closes) /\ (LOOKBACK - LOOKBACK) + 1 = 1
  BY <1>1, <1>2
<1>7. Open(none) = 0
  BY <1>n DEF Open
<1>8. r.curve[Len(r.curve)].sides = 2 * r.trades - Open(r.position)
  <2>1. r.curve[Len(r.curve)].sides = 0
    BY <1>3, <1>4, <1>5
  <2>2. 2 * r.trades - Open(r.position) = 0
    BY <1>n, <1>5, <1>7
  <2>3. QED
    BY <2>1, <2>2
<1>9. /\ r.position \in {-1, 0, 1} /\ r.trades \in Nat
      /\ Len(r.curve) = r.i - LOOKBACK + 1
      /\ r.position = 0
  BY <1>n, <1>4, <1>5, <1>6
<1>10. \A k \in 2 .. Len(r.curve) : FALSE
  BY <1>4, <1>5
<1>11. r.i \in LOOKBACK .. Len(r.coin.closes) /\ IsReady(r.coin)
  BY <1>5, <1>6
<1>12. \E S : r.curve \in Seq(S)
  BY <1>4, <1>5
<1>13. RunInv(r)
  BY <1>5, <1>8, <1>9, <1>10, <1>11, <1>12 DEF RunInv
<1>14. QED
  BY <1>13, <1>n DEF r, curve, first

LEMMA StartCoinKeeps ==
    ASSUME MomentumInv, Coins!StartCoin, part' = part
    PROVE  MomentumInv'
<1>1. PICK S :
        /\ \A coin \in S : IsReady(coin)
        /\ coins \in Seq(S)
        /\ run # None => RunInv(run) /\ run.coin \in S /\ LossInv
        /\ \E R : results \in Seq(R)
        /\ \A r \in 1 .. Len(results) : RunInv(results[r]) /\ results[r].coin \in S
        /\ part = "m2" /\ AllGapless(book) => SameHours(S)
        /\ book = << >> => coins = << >> /\ run = None /\ results = << >>
  BY Zenon DEF MomentumInv
<1>2. coins # << >> /\ coins' = Tail(coins) /\ UNCHANGED <<book, results>>
  BY DEF Coins!StartCoin
<1>3. Head(coins) \in S /\ Tail(coins) \in Seq(S)
  BY <1>1, <1>2
<1> DEFINE coin == Head(coins)
<1>4. run' = [coin |-> coin, i |-> LOOKBACK, position |-> 0, entry |-> 0,
              trades |-> 0, stops |-> 0, curve |-> <<[held |-> 0, sides |-> 0]>>]
  BY Zenon DEF Coins!StartCoin
<1>5. run'.coin = coin /\ run'.position = 0
  BY <1>4
<1>6. RunInv(run')
  <2>1. IsReady(coin)
    BY <1>1, <1>3
  <2> HIDE DEF coin
  <2>2. QED
    BY <1>4, <2>1, StartIsRun, Zenon
<1>7. LossInv'
  BY <1>5 DEF LossInv
<1> HIDE DEF coin
<1>8. run'.coin \in S
  BY <1>3, <1>5 DEF coin
<1>9. /\ coins' \in Seq(S)
      /\ run' # None => RunInv(run') /\ run'.coin \in S /\ LossInv'
      /\ \E R : results' \in Seq(R)
      /\ \A r \in 1 .. Len(results') : RunInv(results'[r]) /\ results'[r].coin \in S
      /\ part' = "m2" /\ AllGapless(book') => SameHours(S)
      /\ book' # << >>
  BY <1>1, <1>2, <1>3, <1>6, <1>7, <1>8
<1>10. QED
  BY <1>1, <1>9 DEF MomentumInv

LEMMA FinishKeeps ==
    ASSUME MomentumInv, Coins!Finish, part' = part
    PROVE  MomentumInv'
<1>1. PICK S :
        /\ \A coin \in S : IsReady(coin)
        /\ coins \in Seq(S)
        /\ run # None => RunInv(run) /\ run.coin \in S /\ LossInv
        /\ \E R : results \in Seq(R)
        /\ \A r \in 1 .. Len(results) : RunInv(results[r]) /\ results[r].coin \in S
        /\ part = "m2" /\ AllGapless(book) => SameHours(S)
        /\ book = << >> => coins = << >> /\ run = None /\ results = << >>
  BY Zenon DEF MomentumInv
<1>2. /\ run # None /\ results' = Append(results, run) /\ run' = None
      /\ UNCHANGED <<book, coins>>
  BY DEF Coins!Finish
<1>3. PICK R : results \in Seq(R)
  BY <1>1
<1>4. RunInv(run) /\ run.coin \in S
  BY <1>1, <1>2
<1>5. results' \in Seq(R \cup {run})
  BY <1>2, <1>3
<1>6. ASSUME NEW r \in 1 .. Len(results')
      PROVE  RunInv(results'[r]) /\ results'[r].coin \in S
  <2>1. r \in 1 .. Len(results) \/ r = Len(results) + 1
    BY <1>2, <1>3
  <2>2. CASE r \in 1 .. Len(results)
    <3>1. results'[r] = results[r]
      BY <1>2, <1>3, <2>2
    <3>2. QED
      BY <1>1, <2>2, <3>1
  <2>3. CASE r = Len(results) + 1
    <3>1. results'[r] = run
      BY <1>2, <1>3, <2>3
    <3>2. QED
      BY <1>4, <3>1
  <2>4. QED
    BY <2>1, <2>2, <2>3
<1>7. /\ coins' \in Seq(S)
      /\ run' = None
      /\ \E T : results' \in Seq(T)
      /\ part' = "m2" /\ AllGapless(book') => SameHours(S)
      /\ book' # << >>
  BY <1>1, <1>2, <1>5
<1>8. QED
  BY <1>1, <1>6, <1>7 DEF MomentumInv

(* What is loaded is long enough, and in v2 of the same hours. *)
LEMMA NothingLoads ==
    /\ \A hours : Coins!LongEnough(<< >>, hours) = << >>
    /\ Coins!FilterAndAlign(<< >>) = << >>
<1>1. ASSUME NEW hours PROVE Coins!LongEnough(<< >>, hours) = << >>
  <2>1. Len(<< >>) \in Nat /\ LongOf(<< >>, hours) = {}
    BY DEF LongOf
  <2>2. Coins!LongEnough(<< >>, hours) \in Seq(LongOf(<< >>, hours))
    BY <2>1, LongEnoughIs
  <2>3. QED
    BY <2>1, <2>2
<1>2. Coins!FilterAndAlign(<< >>) = << >>
  BY <1>1, Zenon DEF Coins!FilterAndAlign
<1>3. QED
  BY <1>1, <1>2

LEMMA LoadKeeps ==
    ASSUME MomentumInv, Coins!Loading, part' = part,
           NEW list \in BooksV1 \cup BooksV2, book' = list,
           NEW S, LoadedFrom(coins', S), UNCHANGED <<run, results>>,
           list = << >> => coins' = << >>,
           part = "m2" /\ AllGapless(list) => SameHours(S)
    PROVE  MomentumInv'
<1>1. run = None /\ results = << >>
  BY DEF MomentumInv, Coins!Loading
<1>2. /\ \A coin \in S : IsReady(coin)
      /\ coins' \in Seq(S)
  BY DEF LoadedFrom
<1>3. results' \in Seq({}) /\ Len(results') = 0 /\ run' = None
  BY <1>1
<1>4. /\ \A r \in 1 .. Len(results') : RunInv(results'[r]) /\ results'[r].coin \in S
      /\ \E R : results' \in Seq(R)
      /\ part' = "m2" /\ AllGapless(book') => SameHours(S)
      /\ book' = << >> => coins' = << >> /\ run' = None /\ results' = << >>
  BY <1>1, <1>3
<1>5. QED
  BY <1>2, <1>3, <1>4 DEF MomentumInv

LEMMA MomentumStep ==
    ASSUME MomentumInv, MomentumRuns \/ UNCHANGED <<part, momentumVars>>
    PROVE  MomentumInv'
<1>1. ASSUME part' = part, UNCHANGED <<book, coins, run, results>>
      PROVE  MomentumInv'
  <2>1. LossInv' <=> LossInv
    BY <1>1 DEF LossInv
  <2>2. QED
    BY <1>1, <2>1 DEF MomentumInv
<1>2. ASSUME part' = part, NEW database \in BooksV1, Coins!LoadV1(database), part = "m1"
      PROVE  MomentumInv'
  <2>1. /\ Coins!Loading /\ book' = database /\ UNCHANGED <<run, results>>
        /\ coins' = Coins!LongEnough(database, LOOKBACK + Enough)
    BY <1>2, Zenon DEF Coins!LoadV1
  <2>2. database = << >> => coins' = << >>
    BY <2>1, NothingLoads, Zenon
  <2>3. LoadedFrom(coins', LongOf(database, LOOKBACK + Enough))
    BY <2>1, AllIsReady
  <2>4. part # "m2"
    BY <1>2
  <2>5. QED
    BY <1>2, <2>1, <2>2, <2>3, <2>4, LoadKeeps
<1>3. ASSUME part' = part, NEW database \in BooksV2, Coins!LoadV2(database)
      PROVE  MomentumInv'
  <2>1. /\ Coins!Loading /\ book' = database /\ UNCHANGED <<run, results>>
        /\ coins' = Coins!FilterAndAlign(database)
    BY <1>3, Zenon DEF Coins!LoadV2
  <2>2. database = << >> => coins' = << >>
    BY <2>1, NothingLoads, Zenon
  <2>3. PICK S : LoadedFrom(coins', S) /\ (AllGapless(database) => SameHours(S))
    BY <2>1, AlignedIs
  <2>4. QED
    BY <1>3, <2>1, <2>2, <2>3, LoadKeeps
<1>4. ASSUME part' = part, NEW hours, Coins!Aggregate(hours) PROVE MomentumInv'
  BY <1>1, <1>4 DEF Coins!Aggregate
<1>5. ASSUME part' = part, Coins!Coin PROVE MomentumInv'
  BY <1>5, StartCoinKeeps, SkipBarKeeps, StopOutKeeps, KeepKeeps, TurnKeeps,
     FinishKeeps, Zenon DEF Coins!Coin, Coins!Bar
<1>6. CASE MomentumRuns
  <2>1. part' = part
    BY <1>6 DEF MomentumRuns
  <2>2. \/ part = "m1" /\ \E database \in BooksV1 : Coins!LoadV1(database)
        \/ part = "m2" /\ \E database \in BooksV2 : Coins!LoadV2(database)
        \/ Coins!AggregateV1 \/ Coins!AggregateV2 \/ Coins!Coin
    BY <1>6, Zenon DEF MomentumRuns
  <2>3. Coins!AggregateV1 \/ Coins!AggregateV2 => \E hours : Coins!Aggregate(hours)
    BY Zenon DEF Coins!AggregateV1, Coins!AggregateV2
  <2>4. QED
    BY <1>2, <1>3, <1>4, <1>5, <2>1, <2>2, <2>3, Zenon
<1>7. CASE UNCHANGED <<part, momentumVars>>
  BY <1>1, <1>7 DEF momentumVars
<1>8. QED
  BY <1>6, <1>7

LEMMA MomentumInit ==
    ASSUME ScriptsInit
    PROVE  MomentumInv
<1>1. /\ book = << >> /\ coins = << >> /\ run = None /\ results = << >>
      /\ coins \in Seq({}) /\ results \in Seq({}) /\ Len(results) = 0
  BY DEF ScriptsInit
<1>2. SameHours({})
  BY NoneLoaded
<1>3. QED
  BY <1>1, <1>2 DEF MomentumInv

(* The curve of every run is that of its decisions. *)
LEMMA RunIsSound ==
    ASSUME NEW r, RunInv(r)
    PROVE  LET c(i) == r.coin.closes[i + 1]
               Priced(b) == {j \in LOOKBACK .. b - 1 :
                                 c(j) > 0 /\ c(j - 1) > 0 /\ c(j - LOOKBACK) > 0}
           IN  \A k \in 2 .. Len(r.curve) :
                  LET b == LOOKBACK + k - 2
                      held == r.curve[k].held
                  IN  held # 0 =>
                        \E j \in Priced(b) :
                           /\ \A other \in Priced(b) : other <= j
                           /\ held = Coins!Sign(c(j) - c(j - LOOKBACK))
<1> DEFINE c(i) == r.coin.closes[i + 1]
           D(b) == {j \in LOOKBACK .. b - 1 :
                       c(j) > 0 /\ c(j - 1) > 0 /\ c(j - LOOKBACK) > 0}
<1>1. LOOKBACK \in Nat
  BY RunIs
<1>2. ASSUME NEW b \in Int PROVE D(b) = Decided(r.coin, b)
  <2>1. ASSUME NEW j \in LOOKBACK .. b - 1 PROVE c(j - 1) = r.coin.closes[j]
    <3>1. (j - 1) + 1 = j
      BY <1>1
    <3>2. QED
      BY <3>1
  <2>2. ASSUME NEW j \in LOOKBACK .. b - 1
        PROVE  (c(j) > 0 /\ c(j - 1) > 0 /\ c(j - LOOKBACK) > 0)
                 <=> PricedAt(r.coin, j)
    BY <2>1 DEF PricedAt
  <2> HIDE DEF c
  <2>3. QED
    BY <2>2 DEF Decided
<1>3. ASSUME NEW j PROVE Coins!Sign(c(j) - c(j - LOOKBACK)) = SideAt(r.coin, j)
  BY DEF SideAt
<1> HIDE DEF c, D
<1>4. ASSUME NEW k \in 2 .. Len(r.curve), r.curve[k].held # 0
      PROVE  \E j \in D(LOOKBACK + k - 2) :
                /\ \A other \in D(LOOKBACK + k - 2) : other <= j
                /\ r.curve[k].held = Coins!Sign(c(j) - c(j - LOOKBACK))
  <2>1. DecidedFor(r.coin, LOOKBACK + k - 2, r.curve[k].held)
    BY <1>4 DEF RunInv
  <2>2. LOOKBACK + k - 2 \in Int
    BY <1>1
  <2>3. D(LOOKBACK + k - 2) = Decided(r.coin, LOOKBACK + k - 2)
    BY <1>2, <2>2
  <2>4. QED
    BY <1>3, <2>1, <2>3, Zenon DEF DecidedFor
<1>5. QED
  BY <1>4, Zenon DEF c, D

LEMMA MomentumInvSound ==
    ASSUME MomentumInv
    PROVE  MomentumSound
<1>1. PICK S :
        /\ run # None => RunInv(run) /\ run.coin \in S /\ LossInv
        /\ \E R : results \in Seq(R)
        /\ \A r \in 1 .. Len(results) : RunInv(results[r]) /\ results[r].coin \in S
        /\ part = "m2" /\ AllGapless(book) => SameHours(S)
  BY Zenon DEF MomentumInv
<1>2. DOMAIN results = 1 .. Len(results)
  BY <1>1
<1>3. ASSUME NEW r \in Coins!Runs PROVE RunInv(r)
  BY <1>1, <1>2, <1>3 DEF Coins!Runs
<1>4. Coins!CurveComplete
  BY <1>3 DEF Coins!CurveComplete, RunInv
<1>5. Coins!FeesPerTurn
  BY <1>3 DEF Coins!FeesPerTurn, RunInv, Open
<1>6. Coins!HeldIsYesterdays
  BY <1>3, RunIsSound, Zenon DEF Coins!HeldIsYesterdays
<1>7. Coins!LossLimited
  BY <1>1, Zenon DEF Coins!LossLimited, LossInv
<1>8. Coins!AlignedWithoutGaps
  BY <1>1, <1>2 DEF Coins!AlignedWithoutGaps, AllGapless, SameHours
<1>9. QED
  BY <1>4, <1>5, <1>6, <1>7, <1>8 DEF MomentumSound, Coins!MomentumSound

-----------------------------------------------------------------------------
(* The scripts together: a step of one leaves the others as they are. *)
ScriptsInv ==
    PairInv /\ KlineInv /\ FundingInv /\ FillInv /\ PaperInv /\ FeesInv /\ MomentumInv

LEMMA ScriptsInitInv ==
    ASSUME ScriptsInit
    PROVE  ScriptsInv
<1>1. PairInv
  BY SelectionParams
     DEF ScriptsInit, Pairs!Init, PairInv, FilesInv, Pairs!WhitelistIsLatest
<1>2. KlineInv
  BY DEF ScriptsInit, Collectors!Init, KlineInv, Collectors!CandlesAsPolled,
      Collectors!Polled
<1>3. FundingInv
  <2>1. table = << >> /\ table \in Seq({}) /\ Len(table) = 0
    BY DEF ScriptsInit, Collectors!Init
  <2>2. snapshot.of = 0 /\ snapshot.rows = {} /\ cycle = 0 /\ attempt = 0
    BY DEF ScriptsInit, Collectors!Init
  <2>3. QED
    BY <2>1, <2>2 DEF FundingInv, ByTime, Collectors!LastRatePerSettlement
<1>4. FillInv
  <2>1. queue = << >> /\ pages = {} /\ stored = {}
    BY DEF ScriptsInit, Collectors!Init
  <2>2. RowsInv
    BY <2>1 DEF RowsInv, HasHour, Loaded, Collectors!LoopsOf
  <2>3. QED
    BY <2>1, <2>2, CollectorParams DEF ScriptsInit, Collectors!Init, FillInv
<1>5. PaperInv
  <2>1. /\ data = None /\ paid = << >> /\ position = None /\ todo = {}
        /\ paid \in Seq({}) /\ Len(paid) = 0
    BY DEF ScriptsInit
  <2>2. QED
    BY <2>1 DEF PaperInv, Paper!OnePositionPerSymbol
<1>6. FeesInv
  <2>1. data = None /\ real = None /\ paid \in Seq(PaidTrades)
    BY DEF ScriptsInit
  <2>2. QED
    BY <2>1 DEF FeesInv
<1>7. MomentumInv
  BY MomentumInit
<1>8. QED
  BY <1>1, <1>2, <1>3, <1>4, <1>5, <1>6, <1>7 DEF ScriptsInv

LEMMA ScriptsStepInv ==
    ASSUME ScriptsInv, RunScripts \/ UNCHANGED <<part, scriptVars>>
    PROVE  ScriptsInv'
<1>1. PairSelecting \/ UNCHANGED <<part, pairVars>>
  BY DEF RunScripts, MomentumRuns, PaperTrading, Collecting, scriptVars
<1>2. Collectors!CollectKlines \/ UNCHANGED klineVars
  BY DEF RunScripts, MomentumRuns, PaperTrading, PairSelecting, Collecting, scriptVars
<1>3. \/ Collectors!CollectFunding
      \/ \E list \in TickerLists : Collectors!Fetch(list)
      \/ UNCHANGED fundingVars
  BY DEF RunScripts, MomentumRuns, PaperTrading, PairSelecting, Collecting, scriptVars
<1>4. \/ Collectors!Backfill
      \/ \E e \in Exchanges : Collectors!Start(e)
      \/ UNCHANGED fillVars
  BY DEF RunScripts, MomentumRuns, PaperTrading, PairSelecting, Collecting, scriptVars
<1>5. PaperTrading \/ UNCHANGED paperVars
  BY DEF RunScripts, MomentumRuns, PairSelecting, Collecting, scriptVars
<1>6. MomentumRuns \/ UNCHANGED <<part, momentumVars>>
  BY DEF RunScripts, PaperTrading, PairSelecting, Collecting, scriptVars
<1>7. QED
  BY <1>1, <1>2, <1>3, <1>4, <1>5, <1>6, PairStep, KlineStep, FundingStep,
      FillStep, PaperStep, FeesStep, MomentumStep DEF ScriptsInv

LEMMA CollectedSound ==
    ASSUME ScriptsInv
    PROVE  CollectedIsTrue
  BY FillSound DEF ScriptsInv, KlineInv, FundingInv, CollectedIsTrue,
      Collectors!CollectedIsTrue
=============================================================================
