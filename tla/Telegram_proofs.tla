--------------------------- MODULE Telegram_proofs ---------------------------
(***************************************************************************)
(* Proofs about the notifications: the limiter, the notifier's calls and    *)
(* the splitting of texts, for every limit, window and lateness of the      *)
(* stamps, every number of attempts and chunks, every way an attempt can    *)
(* fail, every limit of a chunk and every text.                             *)
(***************************************************************************)
EXTENDS MCTelegram, Extrema, SequenceTheorems

-----------------------------------------------------------------------------
(* The limiter. *)

(* The deque e of a key against all the grants g of that key: e holds the   *)
(* stamps of the last grants, a stamp is never later than the real time of  *)
(* its grant and behind it by no more than the slack, and every grant that  *)
(* is not in the deque any more is at least a window, less the slack, old.  *)
Aligned(e, g, r) ==
    /\ Len(e) <= MaxMessages
    /\ Len(e) <= Len(g)
    /\ \A i \in 1 .. Len(g) - Len(e) : r - g[i] >= WindowMs - MaxSlack
    /\ \A i \in 1 .. Len(e) :
          LET born == g[Len(g) - Len(e) + i]
          IN  e[i] <= born /\ born - e[i] <= MaxSlack
    /\ \A i \in 1 .. Len(g) - MaxMessages :
          g[i + MaxMessages] - g[i] >= WindowMs - MaxSlack

(* The inductive invariant: the types, the clock, and the alignment of      *)
(* every key.                                                               *)
LimiterInv ==
    /\ Limiter!TypeOK
    /\ clock <= real /\ real - clock <= MaxSlack
    /\ \A k \in Types : Aligned(events[k], granted[k], real)

(* A stamp that has expired, and the grant it stands for. *)
LEMMA Aged ==
    ASSUME NEW stamp \in Int, NEW born \in Int, NEW c \in Int, NEW r \in Int,
           c <= r, born - stamp <= MaxSlack, stamp <= c - WindowMs
    PROVE  r - born >= WindowMs - MaxSlack
<1>1. WindowMs \in Int /\ MaxSlack \in Int
  BY LimiterParams, LimiterBounds
<1>2. QED
  BY <1>1

(* Expired timestamps leave the deque: their grants are a window old. *)
LEMMA CleanupAligned ==
    ASSUME NEW e \in Seq(Int), NEW g \in Seq(Nat), NEW c \in Int, NEW r \in Nat,
           NEW n \in 0 .. Len(e), Aligned(e, g, r), c <= r,
           \A i \in 1 .. n : e[i] <= c - WindowMs
    PROVE  LET t == SubSeq(e, n + 1, Len(e))
           IN  /\ t \in Seq(Int)
               /\ Len(t) = Len(e) - n
               /\ Aligned(t, g, r)
<1> DEFINE t == SubSeq(e, n + 1, Len(e))
<1>1. /\ Len(e) \in Nat /\ Len(g) \in Nat
      /\ \A i \in 1 .. Len(e) : e[i] \in Int
      /\ \A i \in 1 .. Len(g) : g[i] \in Nat
  BY LenProperties
<1>2. /\ t \in Seq(Int)
      /\ Len(t) = Len(e) - n
      /\ \A i \in 1 .. Len(e) - n : t[i] = e[n + i]
  <2>1. \A i \in n + 1 .. Len(e) : e[i] \in Int
    BY <1>1
  <2>2. QED
    BY <1>1, <2>1, SubSeqProperties
<1> HIDE DEF t
<1>3. Len(t) <= MaxMessages /\ Len(t) <= Len(g)
  BY <1>1, <1>2, LimiterParams DEF Aligned
<1>4. ASSUME NEW i \in 1 .. Len(g) - Len(t)
      PROVE  r - g[i] >= WindowMs - MaxSlack
  <2>1. CASE i \in 1 .. Len(g) - Len(e)
    BY <2>1 DEF Aligned
  <2>2. CASE i \notin 1 .. Len(g) - Len(e)
    <3> DEFINE j == i - (Len(g) - Len(e))
    <3>1. j \in 1 .. n /\ i = Len(g) - Len(e) + j /\ j \in 1 .. Len(e)
      BY <1>1, <1>2, <2>2 DEF Aligned
    <3>2. g[i] - e[j] <= MaxSlack /\ e[j] <= c - WindowMs
      BY <3>1 DEF Aligned
    <3>3. e[j] \in Int /\ g[i] \in Nat
      BY <1>1, <1>2, <3>1
    <3> HIDE DEF j
    <3>4. c \in Int /\ r \in Int /\ g[i] \in Int
      BY <3>3
    <3>5. QED
      BY <3>2, <3>3, <3>4, Aged
  <2>3. QED
    BY <2>1, <2>2
<1>5. ASSUME NEW i \in 1 .. Len(t)
      PROVE  LET born == g[Len(g) - Len(t) + i]
             IN  t[i] <= born /\ born - t[i] <= MaxSlack
  <2>1. /\ n + i \in 1 .. Len(e)
        /\ Len(g) - Len(t) + i = Len(g) - Len(e) + (n + i)
        /\ t[i] = e[n + i]
    BY <1>1, <1>2
  <2>2. QED
    BY <2>1 DEF Aligned
<1>6. Aligned(t, g, r)
  BY <1>3, <1>4, <1>5 DEF Aligned
<1>7. QED
  BY <1>2, <1>6 DEF t

(* A grant with room in the deque: the grant that the window limit compares *)
(* it with has left the deque.                                              *)
LEMMA GrantAligned ==
    ASSUME NEW e \in Seq(Int), NEW g \in Seq(Nat), NEW c \in Int, NEW r \in Nat,
           Aligned(e, g, r), Len(e) < MaxMessages, c <= r, r - c <= MaxSlack
    PROVE  Aligned(Append(e, c), Append(g, r), r)
<1> DEFINE e1 == Append(e, c)  g1 == Append(g, r)
<1>1. /\ Len(e) \in Nat /\ Len(g) \in Nat
      /\ \A i \in 1 .. Len(e) : e[i] \in Int
      /\ \A i \in 1 .. Len(g) : g[i] \in Nat
  BY LenProperties
<1>2. /\ Len(e1) = Len(e) + 1
      /\ \A i \in 1 .. Len(e) : e1[i] = e[i]
      /\ e1[Len(e) + 1] = c
  BY AppendProperties
<1>3. /\ Len(g1) = Len(g) + 1
      /\ \A i \in 1 .. Len(g) : g1[i] = g[i]
      /\ g1[Len(g) + 1] = r
  BY AppendProperties
<1> HIDE DEF e1, g1
<1>4. Len(e1) <= MaxMessages /\ Len(e1) <= Len(g1)
  BY <1>1, <1>2, <1>3, LimiterParams DEF Aligned
<1>5. ASSUME NEW i \in 1 .. Len(g1) - Len(e1)
      PROVE  r - g1[i] >= WindowMs - MaxSlack
  <2>1. i \in 1 .. Len(g) - Len(e)
    BY <1>1, <1>2, <1>3
  <2>2. g1[i] = g[i]
    BY <1>1, <1>3, <2>1
  <2>3. QED
    BY <2>1, <2>2 DEF Aligned
<1>6. ASSUME NEW i \in 1 .. Len(e1)
      PROVE  LET born == g1[Len(g1) - Len(e1) + i]
             IN  e1[i] <= born /\ born - e1[i] <= MaxSlack
  <2>1. CASE i \in 1 .. Len(e)
    <3>1. /\ Len(g1) - Len(e1) + i = Len(g) - Len(e) + i
          /\ Len(g) - Len(e) + i \in 1 .. Len(g)
      BY <1>1, <1>2, <1>3, <2>1 DEF Aligned
    <3>2. QED
      BY <1>2, <1>3, <2>1, <3>1 DEF Aligned
  <2>2. CASE i = Len(e) + 1
    <3>1. Len(g1) - Len(e1) + i = Len(g) + 1
      BY <1>1, <1>2, <1>3, <2>2
    <3>2. QED
      BY <1>2, <1>3, <2>2, <3>1
  <2>3. QED
    BY <1>1, <1>2, <2>1, <2>2
<1>7. ASSUME NEW i \in 1 .. Len(g1) - MaxMessages
      PROVE  g1[i + MaxMessages] - g1[i] >= WindowMs - MaxSlack
  <2>1. i \in 1 .. Len(g) /\ i \in 1 .. Len(g) - Len(e)
    BY <1>1, <1>3, LimiterParams
  <2>2. CASE i + MaxMessages = Len(g) + 1
    <3>1. r - g[i] >= WindowMs - MaxSlack
      BY <2>1 DEF Aligned
    <3>2. QED
      BY <1>3, <2>1, <2>2, <3>1
  <2>3. CASE i + MaxMessages # Len(g) + 1
    <3> DEFINE m == Len(g)
    <3>a. m \in Nat /\ MaxMessages \in Nat /\ i \in 1 .. (m + 1) - MaxMessages
      BY <1>1, <1>3, LimiterParams
    <3> HIDE DEF m
    <3>b. i \in 1 .. m - MaxMessages /\ i + MaxMessages \in 1 .. m
      <4>1. i + MaxMessages # m + 1
        BY <2>3 DEF m
      <4>2. QED
        BY <3>a, <4>1
    <3>1. i \in 1 .. Len(g) - MaxMessages /\ i + MaxMessages \in 1 .. Len(g)
      BY <3>b DEF m
    <3>2. QED
      BY <1>3, <2>1, <3>1 DEF Aligned
  <2>4. QED
    BY <2>2, <2>3
<1>8. QED
  BY <1>4, <1>5, <1>6, <1>7 DEF Aligned, e1, g1

(* Time: the grants that have left the deque grow older. *)
LEMMA TimeAligned ==
    ASSUME NEW e \in Seq(Int), NEW g \in Seq(Nat), NEW r \in Nat,
           NEW r1 \in Nat, Aligned(e, g, r), r <= r1
    PROVE  Aligned(e, g, r1)
<1>1. /\ Len(e) \in Nat /\ Len(g) \in Nat
      /\ \A i \in 1 .. Len(g) : g[i] \in Nat
  BY LenProperties
<1>2. ASSUME NEW i \in 1 .. Len(g) - Len(e)
      PROVE  r1 - g[i] >= WindowMs - MaxSlack
  <2>1. r - g[i] >= WindowMs - MaxSlack /\ g[i] \in Nat
    BY <1>1 DEF Aligned
  <2>2. QED
    BY <2>1, LimiterParams, LimiterBounds
<1>3. QED
  BY <1>2 DEF Aligned

(* LimiterInv holds at the start. *)
LEMMA InitLimiterInv == Limiter!Init => LimiterInv
<1> SUFFICES ASSUME Limiter!Init PROVE LimiterInv
  OBVIOUS
<1>1. << >> \in Seq(Int) /\ << >> \in Seq(Nat) /\ Len(<< >>) = 0
  OBVIOUS
<1>2. Limiter!TypeOK /\ clock <= real /\ real - clock <= MaxSlack
  BY <1>1, LimiterParams, LimiterBounds DEF Limiter!Init, Limiter!TypeOK
<1>3. ASSUME NEW k \in Types
      PROVE  Aligned(events[k], granted[k], real)
  <2>1. events[k] = << >> /\ granted[k] = << >>
    BY DEF Limiter!Init
  <2>2. Aligned(<< >>, << >>, real)
    BY <1>1, LimiterParams DEF Aligned
  <2>3. QED
    BY <2>1, <2>2
<1>4. QED
  BY <1>2, <1>3 DEF LimiterInv

(* What a cleanup leaves of the deque of k. *)
LEMMA LiveAligned ==
    ASSUME LimiterInv, NEW k \in Types, NEW n \in 0 .. Len(events[k]), Limiter!Expires(k, n)
    PROVE  /\ Limiter!Live(k, n) \in Seq(Int)
           /\ Len(Limiter!Live(k, n)) = Len(events[k]) - n
           /\ Aligned(Limiter!Live(k, n), granted[k], real)
<1>1. events[k] \in Seq(Int) /\ granted[k] \in Seq(Nat)
      /\ clock \in Int /\ real \in Nat
      /\ clock <= real /\ real - clock <= MaxSlack
  BY DEF LimiterInv, Limiter!TypeOK
<1>2. Aligned(events[k], granted[k], real)
  BY DEF LimiterInv
<1>3. \A i \in 1 .. n : events[k][i] <= clock - WindowMs
  BY DEF Limiter!Expires
<1>4. QED
  BY <1>1, <1>2, <1>3, CleanupAligned DEF Limiter!Live

(* A step that only changes the deque and the grants of one key. *)
LEMMA OneKeyStep ==
    ASSUME LimiterInv, NEW k \in Types, NEW e \in Seq(Int), NEW g \in Seq(Nat),
           events' = [events EXCEPT ![k] = e],
           granted' = [granted EXCEPT ![k] = g],
           UNCHANGED <<clock, real>>,
           Aligned(e, g, real)
    PROVE  LimiterInv'
<1>1. events \in [Types -> Seq(Int)] /\ granted \in [Types -> Seq(Nat)]
  BY DEF LimiterInv, Limiter!TypeOK
<1>2. ASSUME NEW q \in Types
      PROVE  Aligned(events'[q], granted'[q], real)
  <2>1. CASE q = k
    BY <1>1, <2>1
  <2>2. CASE q # k
    <3>1. events'[q] = events[q] /\ granted'[q] = granted[q]
      BY <1>1, <2>2
    <3>2. QED
      BY <3>1 DEF LimiterInv
  <2>3. QED
    BY <2>1, <2>2
<1>3. \A q \in Types : Len(events'[q]) <= MaxMessages
  BY <1>2 DEF Aligned
<1>4. Limiter!TypeOK'
  BY <1>1, <1>3 DEF LimiterInv, Limiter!TypeOK
<1>5. \A q \in Types : Aligned(events'[q], granted'[q], real')
  BY <1>2
<1>6. clock' <= real' /\ real' - clock' <= MaxSlack
  BY DEF LimiterInv
<1>7. QED
  BY <1>4, <1>5, <1>6 DEF LimiterInv, Aligned

(* Every step of the limiter keeps LimiterInv. *)
LEMMA NextLimiterInv == LimiterInv /\ [Limiter!Next]_(Limiter!vars) => LimiterInv'
<1> SUFFICES ASSUME LimiterInv, [Limiter!Next]_(Limiter!vars) PROVE LimiterInv'
  OBVIOUS
<1>0. /\ events \in [Types -> Seq(Int)] /\ granted \in [Types -> Seq(Nat)]
      /\ clock \in Int /\ real \in Nat
      /\ clock <= real /\ real - clock <= MaxSlack
  BY DEF LimiterInv, Limiter!TypeOK
<1>1. ASSUME NEW k \in Types, Limiter!Grant(k) PROVE LimiterInv'
  <2>1. PICK n \in 0 .. Len(events[k]) :
           /\ Limiter!Expires(k, n)
           /\ Len(Limiter!Live(k, n)) < MaxMessages
           /\ events' = [events EXCEPT ![k] = Append(Limiter!Live(k, n), clock)]
           /\ granted' = [granted EXCEPT ![k] = Append(granted[k], real)]
           /\ UNCHANGED <<clock, real>>
    BY <1>1 DEF Limiter!Grant
  <2>2. Limiter!Live(k, n) \in Seq(Int) /\ Aligned(Limiter!Live(k, n), granted[k], real)
    BY <2>1, LiveAligned
  <2>3. Aligned(Append(Limiter!Live(k, n), clock), Append(granted[k], real), real)
    BY <1>0, <2>1, <2>2, GrantAligned
  <2>4. Append(Limiter!Live(k, n), clock) \in Seq(Int) /\ Append(granted[k], real) \in Seq(Nat)
    BY <1>0, <2>2, AppendProperties
  <2>5. QED
    BY <2>1, <2>3, <2>4, OneKeyStep
<1>2. ASSUME NEW k \in Types, Limiter!Refuse(k) \/ Limiter!Remaining(k) PROVE LimiterInv'
  <2>1. PICK n \in 0 .. Len(events[k]) :
           /\ Limiter!Expires(k, n)
           /\ events' = [events EXCEPT ![k] = Limiter!Live(k, n)]
           /\ UNCHANGED <<clock, real, granted>>
    BY <1>2 DEF Limiter!Refuse, Limiter!Remaining
  <2>2. Limiter!Live(k, n) \in Seq(Int) /\ Aligned(Limiter!Live(k, n), granted[k], real)
    BY <2>1, LiveAligned
  <2>3. granted' = [granted EXCEPT ![k] = granted[k]] /\ granted[k] \in Seq(Nat)
    BY <1>0, <2>1
  <2>4. QED
    BY <2>1, <2>2, <2>3, OneKeyStep
<1>3. << >> \in Seq(Int) /\ << >> \in Seq(Nat) /\ Len(<< >>) = 0
  OBVIOUS
<1>4. Aligned(<< >>, << >>, real)
  BY <1>3, LimiterParams DEF Aligned
<1>5. ASSUME NEW k \in Types, Limiter!Reset(k) PROVE LimiterInv'
  BY <1>3, <1>4, <1>5, OneKeyStep DEF Limiter!Reset
<1>6. CASE Limiter!ResetAll
  <2>1. \A k \in Types : events'[k] = << >> /\ granted'[k] = << >>
    BY <1>6 DEF Limiter!ResetAll
  <2>2. Limiter!TypeOK'
    BY <1>0, <1>3, <1>6, LimiterParams DEF Limiter!ResetAll, Limiter!TypeOK
  <2>3. \A k \in Types : Aligned(events'[k], granted'[k], real')
    BY <1>4, <1>6, <2>1 DEF Limiter!ResetAll
  <2>4. clock' <= real' /\ real' - clock' <= MaxSlack
    BY <1>0, <1>6 DEF Limiter!ResetAll
  <2>5. QED
    BY <2>2, <2>3, <2>4 DEF LimiterInv, Aligned
<1>7. CASE Limiter!Tick \/ Limiter!StepBack \/ Limiter!CatchUp
  <2>1. /\ clock' \in Int /\ real' \in Nat
        /\ real <= real'
        /\ UNCHANGED <<events, granted>>
    BY <1>0, <1>7, LimiterBounds DEF Limiter!Tick, Limiter!StepBack, Limiter!CatchUp
  <2>2. Limiter!TypeOK'
    BY <1>0, <2>1 DEF LimiterInv, Limiter!TypeOK
  <2>2b. clock' <= real' /\ real' - clock' <= MaxSlack
    BY <1>0, <1>7, LimiterBounds DEF Limiter!Tick, Limiter!StepBack, Limiter!CatchUp
  <2>3. ASSUME NEW k \in Types
        PROVE  Aligned(events[k], granted[k], real')
    <3>1. events[k] \in Seq(Int) /\ granted[k] \in Seq(Nat)
      BY <1>0
    <3>2. Aligned(events[k], granted[k], real)
      BY DEF LimiterInv
    <3>3. QED
      BY <1>0, <2>1, <3>1, <3>2, TimeAligned
  <2>4. QED
    BY <2>1, <2>2, <2>2b, <2>3 DEF LimiterInv, Aligned
<1>8. CASE UNCHANGED Limiter!vars
  BY <1>8 DEF Limiter!vars, LimiterInv, Limiter!TypeOK, Aligned
<1>9. QED
  BY <1>1, <1>2, <1>5, <1>6, <1>7, <1>8 DEF Limiter!Next, Limiter!Allow

LEMMA RefusalJustified == LimiterInv => Limiter!RefusalHasCause
<1>1. ASSUME LimiterInv, NEW k \in Types, Limiter!Full(k)
      PROVE  /\ Len(granted[k]) >= MaxMessages
             /\ real - granted[k][Len(granted[k]) - MaxMessages + 1]
                   < WindowMs + (real - clock)
  <2> DEFINE e == events[k]  g == granted[k]
  <2>1. /\ e \in Seq(Int) /\ g \in Seq(Nat) /\ clock \in Int /\ real \in Nat
        /\ Aligned(e, g, real)
    BY <1>1 DEF LimiterInv, Limiter!TypeOK
  <2>2. /\ Len(e) \in Nat /\ Len(g) \in Nat
        /\ \A i \in 1 .. Len(e) : e[i] \in Int
        /\ \A i \in 1 .. Len(g) : g[i] \in Nat
    BY <2>1, LenProperties
  <2>3. PICK n \in 0 .. Len(e) : Limiter!Expires(k, n) /\ Len(Limiter!Live(k, n)) >= MaxMessages
    BY <1>1 DEF Limiter!Full
  <2>4. Len(Limiter!Live(k, n)) = Len(e) - n
    BY <1>1, <2>3, LiveAligned
  <2>5. n = 0 /\ Len(e) = MaxMessages /\ Len(e) > 0 /\ Len(g) >= MaxMessages
    BY <2>1, <2>2, <2>3, <2>4, LimiterParams DEF Aligned
  <2>6. e[1] > clock - WindowMs
    BY <2>3, <2>5 DEF Limiter!Expires
  <2>7. e[1] <= g[Len(g) - MaxMessages + 1]
    BY <2>1, <2>2, <2>5 DEF Aligned
  <2>8. Len(g) - MaxMessages + 1 \in 1 .. Len(g)
    BY <2>2, <2>5, LimiterParams
  <2>9. e[1] \in Int /\ g[Len(g) - MaxMessages + 1] \in Nat
    BY <2>2, <2>5, <2>8
  <2> HIDE DEF e, g
  <2>10. real - g[Len(g) - MaxMessages + 1] < WindowMs + (real - clock)
    BY <2>1, <2>6, <2>7, <2>9, LimiterParams
  <2>11. QED
    BY <2>5, <2>10 DEF g
<1>2. QED
  BY <1>1 DEF Limiter!RefusalHasCause

-----------------------------------------------------------------------------
(* A call of the notifier. *)

(* The chunks in front of the one being posted have arrived, those behind   *)
(* it have not, and the one being posted at most once for each attempt that *)
(* is over.                                                                 *)
Posting ==
    pc = "posting" =>
        /\ chunk \in 1 .. chunks
        /\ copies[chunk] < attempt
        /\ \A i \in 1 .. chunk - 1 : copies[i] > 0
        /\ \A i \in chunk + 1 .. MaxChunks : copies[i] = 0

CallInv == TypeOK /\ Posting /\ InOrder

LEMMA AttemptsType == MaxAttempts \in Nat \ {0} /\ MaxChunks \in Nat
  BY NotifierParams DEF MaxAttempts

LEMMA InitCallInv == Init => CallInv
  BY AttemptsType DEF Init, NoCopies, CallInv, TypeOK, Posting, InOrder

LEMMA StartIs ==
    ASSUME NEW t \in Types, NEW n \in 0 .. MaxChunks,
           NEW status \in {"none", "failed", "suppressed"}, Start(t, n, status),
           pc' \in {"idle", "posting"}, pc' = "posting" => n > 0
    PROVE  CallInv'
<1>1. /\ type' = t /\ chunks' = n /\ chunk' = 1 /\ attempt' = 1
      /\ result' = status /\ copies' = [i \in 1 .. MaxChunks |-> 0]
  BY DEF Start, NoCopies
<1>2. TypeOK'
  BY <1>1, AttemptsType DEF TypeOK
<1>3. Posting'
  BY <1>1, AttemptsType DEF Posting
<1>4. InOrder'
  BY <1>1, AttemptsType DEF InOrder
<1>5. QED
  BY <1>2, <1>3, <1>4 DEF CallInv

LEMMA StartStep ==
    ASSUME CallInv, NEW t \in Types, NEW n \in 0 .. MaxChunks,
           SuppressByConfig(t, n) \/ SuppressByLimiter(t, n) \/ SendAlert(t, n)
    PROVE  CallInv'
<1>1. CASE SuppressByConfig(t, n) \/ SuppressByLimiter(t, n)
  <2>1. Start(t, n, "suppressed") /\ pc' = "idle"
    BY <1>1 DEF SuppressByConfig, SuppressByLimiter, Start
  <2>2. QED
    BY <2>1, StartIs
<1>2. CASE SendAlert(t, n)
  <2>1. CASE n = 0
    <3>1. Start(t, n, "failed") /\ pc' = "idle"
      BY <1>2, <2>1 DEF SendAlert, Start
    <3>2. QED
      BY <3>1, StartIs
  <2>2. CASE n # 0
    <3>1. Start(t, n, "none") /\ pc' = "posting" /\ n > 0
      BY <1>2, <2>2 DEF SendAlert
    <3>2. QED
      BY <3>1, StartIs
  <2>3. QED
    BY <2>1, <2>2
<1>3. QED
  BY <1>1, <1>2

(* One more copy of the chunk being posted keeps the order. *)
LEMMA ArriveIs ==
    ASSUME CallInv, pc = "posting", NEW arrived \in BOOLEAN, Arrive(arrived)
    PROVE  /\ copies' \in [1 .. MaxChunks -> 0 .. MaxAttempts]
           /\ arrived => copies'[chunk] > 0
           /\ copies'[chunk] <= attempt
           /\ \A i \in 1 .. MaxChunks : i # chunk => copies'[i] = copies[i]
           /\ InOrder'
<1>1. /\ copies \in [1 .. MaxChunks -> 0 .. MaxAttempts]
      /\ chunk \in 1 .. MaxChunks /\ attempt \in 1 .. MaxAttempts
      /\ copies[chunk] < attempt
      /\ \A i \in 1 .. chunk - 1 : copies[i] > 0
      /\ \A i \in chunk + 1 .. MaxChunks : copies[i] = 0
      /\ MaxAttempts \in Nat /\ MaxChunks \in Nat
  BY AttemptsType DEF CallInv, TypeOK, Posting
<1>2. copies' = IF arrived THEN [copies EXCEPT ![chunk] = copies[chunk] + 1]
                           ELSE copies
  BY DEF Arrive
<1>3. /\ copies[chunk] + 1 \in 0 .. MaxAttempts
      /\ copies[chunk] + 1 <= attempt
      /\ copies[chunk] + 1 > 0
  BY <1>1
<1>4. /\ copies' \in [1 .. MaxChunks -> 0 .. MaxAttempts]
      /\ arrived => copies'[chunk] > 0
      /\ copies'[chunk] <= attempt
      /\ \A i \in 1 .. MaxChunks : i # chunk => copies'[i] = copies[i]
  BY <1>1, <1>2, <1>3
<1>5. InOrder'
  <2>1. \A i \in 1 .. MaxChunks : copies'[i] <= MaxAttempts
    BY <1>4, <1>1
  <2>2. ASSUME NEW i \in 1 .. MaxChunks, copies'[i] > 0, NEW j \in 1 .. i
        PROVE  copies'[j] > 0
    <3>1. i <= chunk
      BY <1>1, <1>4, <2>2
    <3>2. CASE j = i
      BY <2>2, <3>2
    <3>3. CASE j # i
      <4>1. j \in 1 .. chunk - 1 /\ j \in 1 .. MaxChunks /\ j # chunk
        BY <1>1, <3>1, <3>3
      <4>2. QED
        BY <1>1, <1>4, <4>1
    <3>4. QED
      BY <3>2, <3>3
  <2>3. QED
    BY <2>1, <2>2 DEF InOrder
<1>6. QED
  BY <1>4, <1>5

LEMMA PostStep ==
    ASSUME CallInv, Post
    PROVE  CallInv'
<1>1. /\ pc = "posting" /\ chunk \in 1 .. chunks /\ chunks \in 0 .. MaxChunks
      /\ attempt \in 1 .. MaxAttempts /\ type \in Types
      /\ \A i \in 1 .. chunk - 1 : copies[i] > 0
      /\ \A i \in chunk + 1 .. MaxChunks : copies[i] = 0
      /\ MaxAttempts \in Nat \ {0} /\ MaxChunks \in Nat
      /\ result \in {"none", "sent", "failed", "suppressed"}
  BY AttemptsType
     DEF Post, Acknowledged, Retry, GiveUp, CallInv, TypeOK, Posting
<1>2. CASE Acknowledged
  <2>1. /\ copies' \in [1 .. MaxChunks -> 0 .. MaxAttempts]
        /\ copies'[chunk] > 0
        /\ \A i \in 1 .. MaxChunks : i # chunk => copies'[i] = copies[i]
        /\ InOrder'
    BY <1>1, <1>2, ArriveIs DEF Acknowledged
  <2>2. CASE chunk = chunks
    <3>1. /\ pc' = "idle" /\ result' = "sent"
          /\ UNCHANGED <<type, chunks, chunk, attempt>>
      BY <1>2, <2>2 DEF Acknowledged
    <3>2. QED
      BY <1>1, <2>1, <3>1 DEF CallInv, TypeOK, Posting
  <2>3. CASE chunk # chunks
    <3>1. /\ chunk' = chunk + 1 /\ attempt' = 1
          /\ UNCHANGED <<pc, result, type, chunks>>
      BY <1>2, <2>3 DEF Acknowledged
    <3>2. TypeOK'
      BY <1>1, <2>1, <2>3, <3>1 DEF TypeOK
    <3>3. Posting'
      <4>1. chunk' \in 1 .. chunks' /\ chunk' \in 1 .. MaxChunks
        BY <1>1, <2>3, <3>1
      <4>2. copies'[chunk'] < attempt'
        BY <1>1, <2>1, <3>1, <4>1
      <4>3. \A i \in 1 .. chunk' - 1 : copies'[i] > 0
        BY <1>1, <2>1, <3>1
      <4>4. \A i \in chunk' + 1 .. MaxChunks : copies'[i] = 0
        BY <1>1, <2>1, <3>1
      <4>5. QED
        BY <4>1, <4>2, <4>3, <4>4 DEF Posting
    <3>4. QED
      BY <2>1, <3>2, <3>3 DEF CallInv
  <2>4. QED
    BY <2>2, <2>3
<1>3. ASSUME NEW f \in Failures, Retry(f) PROVE CallInv'
  <2>1. f.arrived \in BOOLEAN
    BY NotifierParams DEF Failure
  <2>2. /\ copies' \in [1 .. MaxChunks -> 0 .. MaxAttempts]
        /\ copies'[chunk] <= attempt
        /\ \A i \in 1 .. MaxChunks : i # chunk => copies'[i] = copies[i]
        /\ InOrder'
    BY <1>1, <1>3, <2>1, ArriveIs DEF Retry
  <2>3. /\ attempt < MaxAttempts /\ attempt' = attempt + 1
        /\ UNCHANGED <<pc, type, chunks, chunk, result>>
    BY <1>3 DEF Retry
  <2>4. TypeOK'
    BY <1>1, <2>2, <2>3 DEF TypeOK
  <2>5. copies'[chunk] \in Nat /\ copies'[chunk] < attempt'
    BY <1>1, <2>2, <2>3
  <2>6. /\ \A i \in 1 .. chunk - 1 : copies'[i] > 0
        /\ \A i \in chunk + 1 .. MaxChunks : copies'[i] = 0
    BY <1>1, <2>2
  <2>7. QED
    BY <1>1, <2>2, <2>3, <2>4, <2>5, <2>6 DEF CallInv, Posting
<1>4. ASSUME NEW f \in Failures, GiveUp(f) PROVE CallInv'
  <2>1. f.arrived \in BOOLEAN
    BY NotifierParams DEF Failure
  <2>2. /\ copies' \in [1 .. MaxChunks -> 0 .. MaxAttempts]
        /\ InOrder'
    BY <1>1, <1>4, <2>1, ArriveIs DEF GiveUp
  <2>3. /\ pc' = "idle" /\ result' \in {"sent", "failed"}
        /\ UNCHANGED <<type, chunks, chunk, attempt>>
    BY <1>4 DEF GiveUp
  <2>4. QED
    BY <1>1, <2>2, <2>3 DEF CallInv, TypeOK, Posting
<1>5. QED
  BY <1>2, <1>3, <1>4 DEF Post

LEMMA NextCallInv == CallInv /\ [Next]_vars => CallInv'
<1> SUFFICES ASSUME CallInv, [Next]_vars PROVE CallInv'
  OBVIOUS
<1>1. CASE Post
  BY <1>1, PostStep
<1>2. CASE UNCHANGED call
  BY <1>2 DEF call, CallInv, TypeOK, Posting, InOrder
<1>3. QED
  BY <1>1, <1>2, StartStep DEF Next, Tick, vars

LEMMA DeliveredStep ==
    ASSUME \A f \in Failures : ~f.silent,
           CallInv, SentIsDelivered, [Next]_vars
    PROVE  SentIsDelivered'
<1>1. CASE UNCHANGED call
  BY <1>1 DEF call, SentIsDelivered
<1>2. ASSUME NEW t \in Types, NEW n \in 0 .. MaxChunks,
             SuppressByConfig(t, n) \/ SuppressByLimiter(t, n) \/ SendAlert(t, n)
      PROVE  SentIsDelivered'
  BY <1>2 DEF SuppressByConfig, SuppressByLimiter, SendAlert, Start, SentIsDelivered
<1>3. CASE Acknowledged
  <2>1. /\ pc = "posting" /\ chunk \in 1 .. chunks /\ chunks \in 0 .. MaxChunks
        /\ \A i \in 1 .. chunk - 1 : copies[i] > 0
        /\ copies \in [1 .. MaxChunks -> 0 .. MaxAttempts]
        /\ MaxChunks \in Nat /\ MaxAttempts \in Nat
    BY <1>3, AttemptsType DEF Acknowledged, CallInv, TypeOK, Posting
  <2>a. /\ copies'[chunk] > 0
        /\ \A i \in 1 .. MaxChunks : i # chunk => copies'[i] = copies[i]
    BY <1>3, <2>1, ArriveIs DEF Acknowledged
  <2>2. CASE chunk = chunks
    <3>1. UNCHANGED chunks
      BY <1>3 DEF Acknowledged
    <3>2. ASSUME NEW i \in 1 .. chunks PROVE copies'[i] > 0
      <4>1. copies'[chunk] > 0 /\ (i # chunk => copies'[i] = copies[i])
        BY <2>1, <2>a
      <4>2. QED
        BY <2>1, <2>2, <4>1
    <3>3. QED
      BY <3>1, <3>2 DEF SentIsDelivered
  <2>3. CASE chunk # chunks
    <3>1. UNCHANGED <<result, chunks>>
      BY <1>3, <2>3 DEF Acknowledged
    <3>2. ASSUME NEW i \in 1 .. chunks, copies[i] > 0 PROVE copies'[i] > 0
      <4>1. copies'[chunk] > 0 /\ (i # chunk => copies'[i] = copies[i])
        BY <2>1, <2>a
      <4>2. QED
        BY <2>1, <3>2, <4>1
    <3>3. QED
      BY <3>1, <3>2 DEF SentIsDelivered
  <2>4. QED
    BY <2>2, <2>3
<1>4. ASSUME NEW f \in Failures, Retry(f) PROVE SentIsDelivered'
  <2>1. /\ pc = "posting" /\ chunk \in 1 .. chunks /\ chunks \in 0 .. MaxChunks
        /\ copies \in [1 .. MaxChunks -> 0 .. MaxAttempts]
        /\ MaxChunks \in Nat /\ MaxAttempts \in Nat
        /\ f.arrived \in BOOLEAN
    BY <1>4, AttemptsType, NotifierParams DEF Retry, CallInv, TypeOK, Posting, Failure
  <2>2. UNCHANGED <<result, chunks>>
    BY <1>4 DEF Retry
  <2>3. ASSUME NEW i \in 1 .. chunks, copies[i] > 0 PROVE copies'[i] > 0
    BY <1>4, <2>1, <2>3 DEF Retry, Arrive
  <2>4. QED
    BY <2>2, <2>3 DEF SentIsDelivered
<1>5. ASSUME NEW f \in Failures, GiveUp(f) PROVE SentIsDelivered'
  BY <1>5 DEF GiveUp, SentIsDelivered
<1>6. QED
  BY <1>1, <1>2, <1>3, <1>4, <1>5 DEF Next, Post, Tick, vars

-----------------------------------------------------------------------------
(* The splitting of a text. *)

Char == Split!Char

(* What remains is an end of the text that does not begin with a line       *)
(* break, and the pieces lie in front of it.                                *)
SplitInv ==
    /\ text \in Seq(Char) /\ remaining \in Seq(Char)
    /\ Len(remaining) <= Len(text)
    /\ remaining = SubSeq(text, Split!Position, Len(text))
    /\ Len(remaining) > 0 => remaining[1] # "nl"
    /\ pieces \in Seq(Seq(Char)) /\ starts \in Seq(Nat \ {0})
    /\ Len(starts) = Len(pieces)
    /\ done \in BOOLEAN
    /\ \A i \in 1 .. Len(pieces) :
          Split!EndOf(i) < IF done THEN Len(text) + 1 ELSE Split!Position
    /\ Split!SplitSound

LEMMA TextsAre ==
    ASSUME NEW s \in Split!Texts
    PROVE  s \in Seq(Char) /\ Len(s) > 0 /\ s[1] # "nl"
<1>1. PICK n \in 1 .. MaxText : s \in [1 .. n -> Char]
  BY DEF Split!Texts, Char
<1>2. n \in Nat /\ n > 0
  BY SplitParams
<1>3. s \in Seq(Char) /\ Len(s) = n
  BY <1>1, <1>2
<1>4. QED
  BY <1>2, <1>3 DEF Split!Texts

LEMMA InitSplitInv == Split!Init => SplitInv
<1> SUFFICES ASSUME Split!Init PROVE SplitInv
  OBVIOUS
<1>1. /\ text \in Seq(Char) /\ Len(text) \in Nat /\ text[1] # "nl"
      /\ remaining = text /\ pieces = << >> /\ starts = << >> /\ done = FALSE
  BY TextsAre, LenProperties DEF Split!Init
<1>2. Split!Position = 1
  BY <1>1 DEF Split!Position
<1>3. SubSeq(text, 1, Len(text)) = text
  BY <1>1, SubSeqFull
<1>4. Len(pieces) = 0 /\ Len(starts) = 0
  BY <1>1
<1>5. Split!SplitSound
  BY <1>1, <1>2, <1>3, <1>4
     DEF Split!SplitSound, Split!ChunksAccepted, Split!NothingLost
<1>6. pieces \in Seq(Seq(Char)) /\ starts \in Seq(Nat \ {0})
  BY <1>1
<1>7. \A i \in 1 .. Len(pieces) :
         Split!EndOf(i) < IF done THEN Len(text) + 1 ELSE Split!Position
  BY <1>4
<1>8. remaining = SubSeq(text, Split!Position, Len(text))
  BY <1>1, <1>2, <1>3
<1>9. Len(remaining) <= Len(text) /\ (Len(remaining) > 0 => remaining[1] # "nl")
  BY <1>1
<1>10. remaining \in Seq(Char) /\ Len(starts) = Len(pieces) /\ done \in BOOLEAN
  BY <1>1, <1>4
<1> HIDE DEF Char
<1>11. QED
  BY ONLY <1>1, <1>5, <1>6, <1>7, <1>8, <1>9, <1>10 DEF SplitInv

(* An end of the text, character by character. *)
LEMMA RemainingIs ==
    ASSUME SplitInv
    PROVE  /\ Len(text) \in Nat /\ Len(remaining) \in Nat
           /\ Split!Position \in 1 .. Len(text) + 1
           /\ Len(remaining) = Len(text) - Split!Position + 1
           /\ \A i \in 1 .. Len(text) : text[i] \in Char
           /\ \A i \in 1 .. Len(remaining) :
                 remaining[i] = text[Split!Position + i - 1]
<1>1. /\ Len(text) \in Nat /\ Len(remaining) \in Nat
      /\ \A i \in 1 .. Len(text) : text[i] \in Char
  BY LenProperties DEF SplitInv
<1>2. /\ Split!Position \in 1 .. Len(text) + 1
      /\ Len(remaining) = Len(text) - Split!Position + 1
  BY <1>1 DEF SplitInv, Split!Position
<1> DEFINE P == Split!Position
<1>3. \A i \in P .. Len(text) : text[i] \in Char
  BY <1>1, <1>2
<1>4. \A i \in 1 .. Len(text) - P + 1 :
         SubSeq(text, P, Len(text))[i] = text[P + i - 1]
  BY <1>1, <1>2, <1>3, SubSeqProperties
<1>5. QED
  BY <1>1, <1>2, <1>4 DEF SplitInv

(* One more piece, the first n characters of what remains, when the text     *)
(* goes on at next, behind line breaks.                                     *)
LEMMA EmitSound ==
    ASSUME SplitInv, ~done, NEW n \in 1 .. Len(remaining), n <= MaxLen,
           Split!Emit(SubSeq(remaining, 1, n)),
           NEW next \in Split!Position + n .. Len(text) + 1,
           \A p \in Split!Position + n .. next - 1 : text[p] = "nl"
    PROVE  /\ pieces' \in Seq(Seq(Char)) /\ starts' \in Seq(Nat \ {0})
           /\ Len(starts') = Len(pieces')
           /\ Split!ChunksAccepted'
           /\ \A i \in 1 .. Len(pieces') :
                 /\ starts'[i] + Len(pieces'[i]) - 1 < next
                 /\ pieces'[i] = SubSeq(text, starts'[i], starts'[i] + Len(pieces'[i]) - 1)
                 /\ i > 1 => starts'[i] > starts'[i - 1] + Len(pieces'[i - 1]) - 1
           /\ \A p \in 1 .. next - 1 :
                 text[p] # "nl" =>
                    \E i \in 1 .. Len(pieces') :
                       p \in starts'[i] .. starts'[i] + Len(pieces'[i]) - 1
<1> DEFINE P == Split!Position
           piece == SubSeq(remaining, 1, n)
           k == Len(pieces)
<1>1. /\ Len(text) \in Nat /\ Len(remaining) \in Nat
      /\ P \in 1 .. Len(text) + 1
      /\ Len(remaining) = Len(text) - P + 1
      /\ \A i \in 1 .. Len(remaining) : remaining[i] = text[P + i - 1]
      /\ n \in Nat /\ n > 0
  BY RemainingIs
<1>2. /\ text \in Seq(Char) /\ remaining \in Seq(Char) /\ remaining[1] # "nl"
      /\ remaining = SubSeq(text, P, Len(text))
      /\ pieces \in Seq(Seq(Char)) /\ starts \in Seq(Nat \ {0})
      /\ Len(starts) = k /\ k \in Nat
      /\ \A i \in 1 .. k : starts[i] + Len(pieces[i]) - 1 < P
  BY <1>1, LenProperties DEF SplitInv, Split!EndOf
<1>3. /\ \A i \in 1 .. k : Len(pieces[i]) <= MaxLen /\ \E j \in 1 .. Len(pieces[i]) : pieces[i][j] # "nl"
      /\ \A i \in 1 .. k :
            /\ pieces[i] = SubSeq(text, starts[i], starts[i] + Len(pieces[i]) - 1)
            /\ i > 1 => starts[i] > starts[i - 1] + Len(pieces[i - 1]) - 1
      /\ \A p \in 1 .. P - 1 :
            text[p] # "nl" => \E i \in 1 .. k : p \in starts[i] .. starts[i] + Len(pieces[i]) - 1
  BY DEF SplitInv, Split!SplitSound, Split!ChunksAccepted, Split!NothingLost, Split!EndOf
<1>4. /\ piece \in Seq(Char) /\ Len(piece) = n
      /\ piece[1] = remaining[1]
  <2>1. \A i \in 1 .. n : remaining[i] \in Char
    BY <1>1, <1>2, ElementOfSeq
  <2>2. QED
    BY <1>1, <2>1, SubSeqProperties
<1>5. piece = SubSeq(text, P, P + n - 1)
  <2>1. /\ P \in 1 .. Len(text) /\ Len(text) \in 1 .. Len(text)
        /\ 1 \in 1 .. Len(text) - P + 1 /\ n \in 1 .. Len(text) - P + 1
    BY <1>1
  <2>2. piece = SubSeq(text, P + 1 - 1, P + n - 1)
    BY <1>2, <2>1, SubSeqOfSubSeq
  <2>3. QED
    BY <1>1, <2>2
<1>6. pieces' = Append(pieces, piece) /\ starts' = Append(starts, P)
  BY DEF Split!Emit
<1> HIDE DEF P, piece
<1>7. /\ pieces' \in Seq(Seq(Char)) /\ Len(pieces') = k + 1
      /\ \A i \in 1 .. k : pieces'[i] = pieces[i]
      /\ pieces'[k + 1] = piece
  BY <1>2, <1>4, <1>6, AppendProperties
<1>8. /\ starts' \in Seq(Nat \ {0}) /\ Len(starts') = k + 1
      /\ \A i \in 1 .. k : starts'[i] = starts[i]
      /\ starts'[k + 1] = P
  <2>1. P \in Nat \ {0}
    BY <1>1
  <2>2. QED
    BY <1>2, <1>6, <2>1, AppendProperties
<1>9. \A i \in 1 .. k : starts[i] \in Nat /\ Len(pieces[i]) \in Nat
  <2>1. \A i \in 1 .. k : starts[i] \in Nat \ {0} /\ pieces[i] \in Seq(Char)
    BY <1>2, ElementOfSeq
  <2>2. QED
    BY <2>1, LenProperties
<1>10. P \in Nat /\ next \in Nat /\ P + n <= next
  BY <1>1 DEF P
<1>k. k \in Nat
  BY <1>2
<1> HIDE DEF k
<1>11. Split!ChunksAccepted'
  <2>1. ASSUME NEW i \in 1 .. k + 1
        PROVE  /\ Len(pieces'[i]) <= MaxLen
               /\ \E j \in 1 .. Len(pieces'[i]) : pieces'[i][j] # "nl"
    <3>1. CASE i \in 1 .. k
      BY <1>3, <1>7, <3>1
    <3>2. CASE i = k + 1
      <4>1. 1 \in 1 .. Len(piece) /\ piece[1] # "nl"
        BY <1>1, <1>2, <1>4
      <4>2. QED
        BY <1>4, <1>7, <3>2, <4>1
    <3>3. QED
      BY <1>2, <3>1, <3>2
  <2>2. QED
    BY <1>7, <2>1 DEF Split!ChunksAccepted
<1>12. ASSUME NEW i \in 1 .. k + 1
       PROVE  /\ starts'[i] + Len(pieces'[i]) - 1 < next
              /\ pieces'[i] = SubSeq(text, starts'[i], starts'[i] + Len(pieces'[i]) - 1)
              /\ i > 1 => starts'[i] > starts'[i - 1] + Len(pieces'[i - 1]) - 1
  <2>1. CASE i \in 1 .. k
    <3>1. starts'[i] = starts[i] /\ pieces'[i] = pieces[i]
      BY <1>7, <1>8, <2>1
    <3>a. i > 1 => i - 1 \in 1 .. k
      BY <1>k, <2>1
    <3>2. i > 1 => starts'[i - 1] = starts[i - 1] /\ pieces'[i - 1] = pieces[i - 1]
      BY <1>7, <1>8, <3>a
    <3>3. starts[i] + Len(pieces[i]) - 1 < next
      <4>1. starts[i] + Len(pieces[i]) - 1 < P
        BY <1>2, <2>1
      <4>2. starts[i] \in Nat /\ Len(pieces[i]) \in Nat /\ P < next
        BY <1>1, <1>9, <1>10, <2>1
      <4>3. QED
        BY <1>10, <4>1, <4>2
    <3>4. QED
      BY <1>3, <2>1, <3>1, <3>2, <3>3
  <2>2. CASE i = k + 1
    <3>1. starts'[i] = P /\ pieces'[i] = piece /\ Len(pieces'[i]) = n
      BY <1>4, <1>7, <1>8, <2>2
    <3>2. i > 1 => /\ starts'[i - 1] = starts[i - 1] /\ pieces'[i - 1] = pieces[i - 1]
                   /\ starts[i - 1] + Len(pieces[i - 1]) - 1 < P
      BY <1>2, <1>7, <1>8, <2>2
    <3>3. QED
      BY <1>1, <1>5, <1>10, <3>1, <3>2
  <2>3. QED
    BY <1>2, <2>1, <2>2
<1>13. ASSUME NEW p \in 1 .. next - 1, text[p] # "nl"
       PROVE  \E i \in 1 .. k + 1 : p \in starts'[i] .. starts'[i] + Len(pieces'[i]) - 1
  <2>1. CASE p < P
    <3>a. p \in 1 .. P - 1
      BY <1>10, <2>1
    <3>1. PICK i \in 1 .. k : p \in starts[i] .. starts[i] + Len(pieces[i]) - 1
      BY <1>3, <1>13, <3>a
    <3>2. i \in 1 .. k + 1 /\ starts'[i] = starts[i] /\ pieces'[i] = pieces[i]
      BY <1>k, <1>7, <1>8
    <3>3. QED
      BY <3>1, <3>2
  <2>2. CASE p >= P
    <3>1. ~(p \in P + n .. next - 1)
      BY <1>13 DEF P
    <3>2. p \in P .. P + n - 1
      BY <1>1, <1>10, <2>2, <3>1
    <3>3. k + 1 \in 1 .. k + 1 /\ starts'[k + 1] = P /\ Len(pieces'[k + 1]) = n
      BY <1>k, <1>4, <1>7, <1>8
    <3>4. QED
      BY <3>2, <3>3
  <2>3. QED
    BY <1>10, <2>1, <2>2
<1>14. QED
  BY <1>7, <1>8, <1>11, <1>12, <1>13

(* Where _split_message cuts is within the limit, and behind the first       *)
(* character.                                                               *)
LEMMA SplitPosIs ==
    ASSUME NEW s \in Seq(Char), Len(s) > MaxLen, s[1] # "nl"
    PROVE  Split!SplitPos(s) \in 1 .. MaxLen
<1> DEFINE breaks == {i \in 0 .. MaxLen - 1 : i < Len(s) /\ s[i + 1] = "nl"}
<1>1. MaxLen \in Nat \ {0}
  BY SplitParams
<1>2. CASE breaks = {}
  <2>1. Split!LastBreak(s) = -1
    BY <1>2 DEF Split!LastBreak
  <2>2. QED
    BY <1>1, <2>1 DEF Split!SplitPos
<1>3. CASE breaks # {}
  <2>1. breaks \in SUBSET Int /\ \A i \in breaks : i <= MaxLen
    BY <1>1
  <2>2. Split!LastBreak(s) = Max(breaks)
    BY <1>3 DEF Split!LastBreak, Split!Max, Max
  <2> HIDE DEF breaks
  <2>a. MaxLen \in Int
    BY <1>1
  <2>3. Max(breaks) \in breaks
    BY <1>3, <2>1, <2>a, MaxIs
  <2>4. Split!LastBreak(s) \in 1 .. MaxLen - 1
    <3>1. Split!LastBreak(s) \in 0 .. MaxLen - 1 /\ s[Split!LastBreak(s) + 1] = "nl"
      BY <2>2, <2>3 DEF breaks
    <3>2. Split!LastBreak(s) # 0
      BY <3>1
    <3>3. QED
      BY <1>1, <3>1, <3>2
  <2>5. QED
    BY <1>1, <2>4 DEF Split!SplitPos
<1>4. QED
  BY <1>2, <1>3

(* What is left of the text after a cut. *)
LEMMA RestIs ==
    ASSUME SplitInv, NEW n \in 1 .. Len(remaining)
    PROVE  LET rest == Split!Rest(remaining, n)
               next == Len(text) - Len(rest) + 1
           IN  /\ rest \in Seq(Char)
               /\ next \in Split!Position + n .. Len(text) + 1
               /\ rest = SubSeq(text, next, Len(text))
               /\ Len(rest) > 0 => rest[1] # "nl"
               /\ \A p \in Split!Position + n .. next - 1 : text[p] = "nl"
<1> DEFINE P == Split!Position
           m == Len(remaining)
           rest == Split!Rest(remaining, n)
           next == Len(text) - Len(rest) + 1
           kept == {i \in n + 1 .. m : remaining[i] # "nl"}
<1>1. /\ Len(text) \in Nat /\ m \in Nat /\ P \in 1 .. Len(text) + 1
      /\ m = Len(text) - P + 1
      /\ \A i \in 1 .. m : remaining[i] = text[P + i - 1]
      /\ n \in 1 .. m
  BY RemainingIs
<1>2. /\ text \in Seq(Char) /\ remaining \in Seq(Char)
      /\ remaining = SubSeq(text, P, Len(text))
  BY DEF SplitInv
<1>3. CASE kept = {}
  <2>1. rest = << >> /\ Len(rest) = 0 /\ rest \in Seq(Char)
    BY <1>3 DEF Split!Rest
  <2>2. next = Len(text) + 1
    BY <1>1, <2>1
  <2>3. SubSeq(text, next, Len(text)) = << >>
    BY <1>1, <2>2, SubSeqEmpty
  <2>4. ASSUME NEW p \in P + n .. next - 1 PROVE text[p] = "nl"
    <3>1. p - P + 1 \in n + 1 .. m /\ P + (p - P + 1) - 1 = p
      BY <1>1, <2>2
    <3>2. remaining[p - P + 1] = "nl"
      BY <1>3, <3>1
    <3>3. p - P + 1 \in 1 .. m
      BY <1>1, <3>1
    <3>4. QED
      BY <1>1, <3>1, <3>2, <3>3
  <2>5. P + n <= Len(text) + 1
    BY <1>1
  <2> HIDE DEF P
  <2>6. next \in P + n .. Len(text) + 1
    BY <1>1, <2>2, <2>5
  <2>7. QED
    BY <2>1, <2>3, <2>4, <2>6 DEF P
<1>4. CASE kept # {}
  <2> DEFINE j == Min(kept)
  <2>1. kept \in SUBSET Nat
    BY <1>1
  <2>2. j \in kept /\ \A i \in kept : j <= i
    BY <1>4, <2>1, MinIs
  <2>3. j \in n + 1 .. m /\ remaining[j] # "nl" /\ j \in 1 .. m
    BY <1>1, <2>2
  <2>4. rest = SubSeq(remaining, j, m)
    BY <1>4 DEF Split!Rest, Split!Min, Min
  <2> HIDE DEF j, rest
  <2>5. /\ rest \in Seq(Char) /\ Len(rest) = m - j + 1
        /\ rest[1] = remaining[j]
    <3>1. \A i \in j .. m : remaining[i] \in Char
      BY <1>1, <1>2, <2>3, ElementOfSeq
    <3>2. /\ rest \in Seq(Char) /\ Len(rest) = m - j + 1
          /\ \A i \in 1 .. m - j + 1 : rest[i] = remaining[j + i - 1]
      BY <1>1, <2>3, <2>4, <3>1, SubSeqProperties
    <3>3. 1 \in 1 .. m - j + 1 /\ j + 1 - 1 = j
      BY <1>1, <2>3
    <3>4. QED
      BY <3>2, <3>3
  <2>6. next = P + j - 1
    BY <1>1, <2>3, <2>5
  <2>7. rest = SubSeq(text, next, Len(text))
    <3>1. /\ P \in 1 .. Len(text) /\ Len(text) \in 1 .. Len(text)
          /\ j \in 1 .. Len(text) - P + 1 /\ m \in 1 .. Len(text) - P + 1
      BY <1>1, <2>3
    <3>2. rest = SubSeq(text, P + j - 1, P + m - 1)
      BY <1>2, <2>4, <3>1, SubSeqOfSubSeq
    <3>3. P + m - 1 = Len(text)
      BY <1>1
    <3>4. QED
      BY <2>6, <3>2, <3>3
  <2>8. ASSUME NEW p \in P + n .. next - 1 PROVE text[p] = "nl"
    <3> DEFINE i == p - P + 1
    <3>1. i \in n + 1 .. j - 1 /\ i \in 1 .. m /\ i \in n + 1 .. m /\ P + i - 1 = p
      BY <1>1, <2>3, <2>6
    <3> HIDE DEF i
    <3>2. i \notin kept
      BY <2>2, <2>3, <3>1
    <3>3. remaining[i] = "nl"
      BY <3>1, <3>2
    <3>4. QED
      BY <1>1, <3>1, <3>3
  <2>9. next \in P + n .. Len(text) + 1
    BY <1>1, <2>3, <2>6
  <2>10. QED
    BY <2>3, <2>5, <2>7, <2>8, <2>9 DEF rest
<1>5. QED
  BY <1>3, <1>4

LEMMA CutStep ==
    ASSUME SplitInv, Split!Cut
    PROVE  SplitInv' /\ Len(remaining') < Len(remaining)
<1> DEFINE n == Split!SplitPos(remaining)
           next == Len(text) - Len(remaining') + 1
<1>1. /\ ~done /\ Len(remaining) > MaxLen
      /\ Split!Emit(SubSeq(remaining, 1, n))
      /\ remaining' = Split!Rest(remaining, n)
      /\ text' = text /\ done' = done
  BY DEF Split!Cut
<1>2. /\ Len(text) \in Nat /\ Len(remaining) \in Nat /\ MaxLen \in Nat \ {0}
      /\ remaining \in Seq(Char) /\ remaining[1] # "nl" /\ text \in Seq(Char)
      /\ Len(remaining) = Len(text) - Split!Position + 1
      /\ Split!Position \in 1 .. Len(text) + 1
  BY <1>1, SplitParams, RemainingIs DEF SplitInv
<1>3. n \in 1 .. MaxLen
  BY <1>1, <1>2, SplitPosIs
<1>4. n \in 1 .. Len(remaining) /\ n <= MaxLen
  BY <1>1, <1>2, <1>3
<1> HIDE DEF n
<1>5. /\ remaining' \in Seq(Char)
      /\ next \in Split!Position + n .. Len(text) + 1
      /\ remaining' = SubSeq(text, next, Len(text))
      /\ Len(remaining') > 0 => remaining'[1] # "nl"
      /\ \A p \in Split!Position + n .. next - 1 : text[p] = "nl"
  BY <1>1, <1>4, RestIs
<1>6. Len(remaining') \in Nat
  BY <1>5, LenProperties
<1>7. Split!Position' = next
  BY <1>1 DEF Split!Position
<1>8. Len(remaining') < Len(remaining) /\ Len(remaining') <= Len(text)
  BY <1>2, <1>4, <1>5, <1>6
<1> HIDE DEF next
<1>9. /\ pieces' \in Seq(Seq(Char)) /\ starts' \in Seq(Nat \ {0})
      /\ Len(starts') = Len(pieces')
      /\ Split!ChunksAccepted'
      /\ \A i \in 1 .. Len(pieces') :
            /\ starts'[i] + Len(pieces'[i]) - 1 < next
            /\ pieces'[i] = SubSeq(text, starts'[i], starts'[i] + Len(pieces'[i]) - 1)
            /\ i > 1 => starts'[i] > starts'[i - 1] + Len(pieces'[i - 1]) - 1
      /\ \A p \in 1 .. next - 1 :
            text[p] # "nl" =>
               \E i \in 1 .. Len(pieces') :
                  p \in starts'[i] .. starts'[i] + Len(pieces'[i]) - 1
  BY <1>1, <1>4, <1>5, EmitSound
<1>10. Split!NothingLost'
  BY <1>1, <1>5, <1>7, <1>9 DEF Split!NothingLost, Split!EndOf
<1>11. \A i \in 1 .. Len(pieces') :
          (Split!EndOf(i))' < IF done' THEN Len(text') + 1 ELSE Split!Position'
  BY <1>1, <1>7, <1>9 DEF Split!EndOf
<1>12. Split!SplitSound'
  BY <1>9, <1>10 DEF Split!SplitSound
<1>13. done \in BOOLEAN
  BY DEF SplitInv
<1>14. QED
  BY <1>1, <1>2, <1>5, <1>7, <1>8, <1>9, <1>11, <1>12, <1>13 DEF SplitInv

LEMMA LastChunkStep ==
    ASSUME SplitInv, Split!LastChunk
    PROVE  SplitInv'
<1>1. /\ ~done /\ done' /\ Len(remaining) <= MaxLen
      /\ text' = text /\ remaining' = remaining
  BY DEF Split!LastChunk
<1>2. /\ Len(text) \in Nat /\ Len(remaining) \in Nat
      /\ remaining \in Seq(Char) /\ text \in Seq(Char)
      /\ Len(remaining) = Len(text) - Split!Position + 1
      /\ Split!Position \in 1 .. Len(text) + 1
  BY RemainingIs DEF SplitInv
<1>3. /\ pieces' \in Seq(Seq(Char)) /\ starts' \in Seq(Nat \ {0})
      /\ Len(starts') = Len(pieces')
      /\ Split!ChunksAccepted'
      /\ \A i \in 1 .. Len(pieces') :
            /\ starts'[i] + Len(pieces'[i]) - 1 < Len(text) + 1
            /\ pieces'[i] = SubSeq(text, starts'[i], starts'[i] + Len(pieces'[i]) - 1)
            /\ i > 1 => starts'[i] > starts'[i - 1] + Len(pieces'[i - 1]) - 1
      /\ \A p \in 1 .. Len(text) :
            text[p] # "nl" =>
               \E i \in 1 .. Len(pieces') :
                  p \in starts'[i] .. starts'[i] + Len(pieces'[i]) - 1
  <2>1. CASE remaining = << >>
    <3>1. pieces' = pieces /\ starts' = starts
      BY <2>1 DEF Split!LastChunk
    <3>2. Split!Position = Len(text) + 1
      BY <1>2, <2>1
    <3>3. QED
      BY <1>1, <1>2, <3>1, <3>2
         DEF SplitInv, Split!SplitSound, Split!ChunksAccepted, Split!NothingLost,
             Split!EndOf
  <2>2. CASE remaining # << >>
    <3> DEFINE n == Len(remaining)
               next == Len(text) + 1
    <3>1. n \in 1 .. Len(remaining) /\ n <= MaxLen
      BY <1>1, <1>2, <2>2, EmptySeq
    <3>2. Split!Emit(SubSeq(remaining, 1, n))
      BY <1>2, <2>2, SubSeqFull DEF Split!LastChunk
    <3>3. /\ next \in Split!Position + n .. Len(text) + 1
          /\ \A p \in Split!Position + n .. next - 1 : text[p] = "nl"
          /\ next - 1 = Len(text)
      BY <1>2
    <3> HIDE DEF n, next
    <3>4. /\ pieces' \in Seq(Seq(Char)) /\ starts' \in Seq(Nat \ {0})
          /\ Len(starts') = Len(pieces')
          /\ Split!ChunksAccepted'
          /\ \A i \in 1 .. Len(pieces') :
                /\ starts'[i] + Len(pieces'[i]) - 1 < next
                /\ pieces'[i] = SubSeq(text, starts'[i], starts'[i] + Len(pieces'[i]) - 1)
                /\ i > 1 => starts'[i] > starts'[i - 1] + Len(pieces'[i - 1]) - 1
          /\ \A p \in 1 .. next - 1 :
                text[p] # "nl" =>
                   \E i \in 1 .. Len(pieces') :
                      p \in starts'[i] .. starts'[i] + Len(pieces'[i]) - 1
      BY <1>1, <3>1, <3>2, <3>3, EmitSound
    <3>5. QED
      BY <3>3, <3>4 DEF next
  <2>3. QED
    BY <2>1, <2>2
<1>4. Split!NothingLost'
  BY <1>1, <1>3 DEF Split!NothingLost, Split!EndOf
<1>5. \A i \in 1 .. Len(pieces') :
         (Split!EndOf(i))' < IF done' THEN Len(text') + 1 ELSE Split!Position'
  BY <1>1, <1>3 DEF Split!EndOf
<1>6. Split!SplitSound'
  BY <1>3, <1>4 DEF Split!SplitSound
<1>7. /\ Len(remaining) <= Len(text) /\ Split!Position' = Split!Position
      /\ remaining = SubSeq(text, Split!Position, Len(text))
      /\ Len(remaining) > 0 => remaining[1] # "nl"
      /\ done' \in BOOLEAN
  BY <1>1 DEF SplitInv, Split!Position, Split!LastChunk
<1>8. QED
  BY <1>1, <1>2, <1>3, <1>5, <1>6, <1>7 DEF SplitInv

LEMMA NextSplitInv ==
    ASSUME SplitInv, [Split!Next]_(Split!vars)
    PROVE  SplitInv' /\ [done' \/ Len(remaining') < Len(remaining)]_(Split!vars)
<1>1. CASE Split!Cut
  BY <1>1, CutStep
<1>2. CASE Split!LastChunk
  <2>1. done'
    BY <1>2 DEF Split!LastChunk
  <2>2. QED
    BY <1>2, <2>1, LastChunkStep
<1>3. CASE UNCHANGED Split!vars
  BY <1>3
     DEF Split!vars, SplitInv, Split!Position, Split!EndOf, Split!SplitSound,
         Split!ChunksAccepted, Split!NothingLost
<1>4. QED
  BY <1>1, <1>2, <1>3 DEF Split!Next

-----------------------------------------------------------------------------
(* The parts together: a step of one part leaves the other parts' state     *)
(* alone, and a call asks the limiter for a step of its own.                *)
MCInv == LimiterInv /\ CallInv /\ SplitInv

everything == <<part, vars, message>>

LEMMA InitMCInv == MCInit => MCInv
  BY InitLimiterInv, InitCallInv, InitSplitInv DEF MCInit, MCInv, Init

LEMMA CallAsksLimiter == Next => [Limiter!Next]_(Limiter!vars)
<1> SUFFICES ASSUME Next PROVE [Limiter!Next]_(Limiter!vars)
  OBVIOUS
<1>1. ASSUME NEW t \in Types, NEW n \in 0 .. MaxChunks,
             SuppressByConfig(t, n) \/ SuppressByLimiter(t, n) \/ SendAlert(t, n)
      PROVE  [Limiter!Next]_(Limiter!vars)
  BY <1>1 DEF SuppressByConfig, SuppressByLimiter, SendAlert, limiter,
              Limiter!vars, Limiter!Next, Limiter!Allow
<1>2. CASE Post
  BY <1>2 DEF Post, Acknowledged, Retry, GiveUp, limiter, Limiter!vars
<1>3. CASE Tick
  BY <1>3 DEF Tick, Limiter!Next
<1>4. QED
  BY <1>1, <1>2, <1>3 DEF Next

LEMMA NextParts ==
    ASSUME [MCNext]_everything
    PROVE  /\ [Limiter!Next]_(Limiter!vars)
           /\ [Next]_vars \/ UNCHANGED call
           /\ [Split!Next]_(Split!vars)
<1>1. CASE part = "call" /\ Next /\ UNCHANGED message
  BY <1>1, CallAsksLimiter DEF message, Split!vars
<1>2. CASE part = "limiter" /\ Limiter!Next /\ UNCHANGED <<call, message>>
  BY <1>2 DEF message, Split!vars
<1>3. CASE part = "split" /\ (Split!Next \/ Finished) /\ UNCHANGED vars
  BY <1>3 DEF Finished, message, vars, limiter, Limiter!vars, Split!vars
<1>4. CASE UNCHANGED everything
  BY <1>4 DEF everything, message, vars, limiter, Limiter!vars, Split!vars
<1>5. QED
  BY <1>1, <1>2, <1>3, <1>4 DEF MCNext

LEMMA NextMCInv == MCInv /\ [MCNext]_everything => MCInv'
<1> SUFFICES ASSUME MCInv, [MCNext]_everything PROVE MCInv'
  OBVIOUS
<1>1. LimiterInv'
  BY NextParts, NextLimiterInv DEF MCInv
<1>2. SplitInv'
  BY NextParts, NextSplitInv DEF MCInv
<1>3. CallInv'
  <2>1. CASE [Next]_vars
    BY <2>1, NextCallInv DEF MCInv
  <2>2. CASE UNCHANGED call
    BY <2>2 DEF MCInv, call, CallInv, TypeOK, Posting, InOrder
  <2>3. QED
    BY <2>1, <2>2, NextParts
<1>4. QED
  BY <1>1, <1>2, <1>3 DEF MCInv

LEMMA AlwaysMCInv == MCSpec => []MCInv
  BY InitMCInv, NextMCInv, PTL DEF MCSpec, everything

-----------------------------------------------------------------------------
(* The state of a call keeps its type, and the deques always hold clock     *)
(* readings, at most MaxMessages of them (telegram.py, send_alert;           *)
(* rate_limiter.py, allow).                                                 *)
THEOREM TypeCorrect == MCSpec => [](TypeOK /\ Limiter!TypeOK)
<1>1. MCInv => TypeOK /\ Limiter!TypeOK
  BY DEF MCInv, CallInv, LimiterInv
<1>2. QED
  BY <1>1, AlwaysMCInv, PTL

(* No key is granted more than MaxMessages in any WindowMs of real time,    *)
(* less what the stamps are behind it (rate_limiter.py, allow).             *)
THEOREM LimitHolds == MCSpec => []WindowLimit
<1>1. MCInv => WindowLimit
  BY DEF MCInv, LimiterInv, Aligned, WindowLimit, Limiter!WindowLimit
<1>2. QED
  BY <1>1, AlwaysMCInv, PTL

(* A refusal is for cause: MaxMessages grants within the window lengthened  *)
(* by what the clock is behind (rate_limiter.py, _cleanup and allow).       *)
THEOREM RefusalForCause == MCSpec => []RefusalHasCause
<1>1. MCInv => RefusalHasCause
  BY RefusalJustified DEF MCInv, RefusalHasCause
<1>2. QED
  BY <1>1, AlwaysMCInv, PTL

(* Chunks arrive in order and not more often than there are attempts        *)
(* (telegram.py, send_alert; retry.py, retry_async).                         *)
THEOREM ChunksInOrder == MCSpec => []InOrder
<1>1. MCInv => InOrder
  BY DEF MCInv, CallInv
<1>2. QED
  BY <1>1, AlwaysMCInv, PTL

(* As long as every error has a message, SENT means delivered (telegram.py,  *)
(* send_alert).                                                             *)
THEOREM SentMeansDelivered ==
    ASSUME \A f \in Failures : ~f.silent
    PROVE  MCSpec => []SentIsDelivered
<1>1. MCInit => SentIsDelivered
  BY DEF MCInit, Init, SentIsDelivered
<1>2. MCInv /\ SentIsDelivered /\ [MCNext]_everything => SentIsDelivered'
  <2>1. ASSUME MCInv, SentIsDelivered, [MCNext]_everything
        PROVE  SentIsDelivered'
    <3>1. CASE [Next]_vars
      BY <2>1, <3>1, DeliveredStep DEF MCInv
    <3>2. CASE UNCHANGED call
      BY <2>1, <3>2 DEF call, SentIsDelivered
    <3>3. QED
      BY <2>1, <3>1, <3>2, NextParts
  <2>2. QED
    BY <2>1
<1>3. QED
  BY <1>1, <1>2, AlwaysMCInv, PTL DEF MCSpec, everything

(* What is sent is the text: the chunks are its pieces in order, only line  *)
(* breaks between them are left out, and each is one Telegram takes, for    *)
(* every text and every limit (telegram.py, _split_message).                *)
THEOREM TextArrivesWhole == MCSpec => []SplitSound
<1>1. MCInv => SplitSound
  BY DEF MCInv, SplitInv, SplitSound
<1>2. QED
  BY <1>1, AlwaysMCInv, PTL

(* Every pass of the loop makes what remains shorter or is the last         *)
(* (telegram.py, _split_message).                                           *)
THEOREM SplittingProgresses == MCSpec => Progress
<1>1. MCInv /\ [MCNext]_everything
         => [done' \/ Len(remaining') < Len(remaining)]_(Split!vars)
  BY NextParts, NextSplitInv DEF MCInv
<1>2. QED
  BY <1>1, AlwaysMCInv, PTL
     DEF MCSpec, everything, Progress, Split!Progress
=============================================================================
