-------------------------- MODULE UniverseSelector --------------------------
(***************************************************************************)
(* select_universe (monitor/universe/selector.py): the filters, the score,  *)
(* the best N and the anchors.  How the outcome is stored is Persistence's. *)
(***************************************************************************)
EXTENDS Integers, Sequences, FiniteSets

CONSTANTS
    None,
    Pools,              \* the lists of candidates: sequences of records
    Params              \* UniverseSelectorParams

VARIABLES pool, params, selection

vars == <<pool, params, selection>>

(* The first filter a candidate fails, in the order of the code. *)
Exclusion(c, p) ==
    CASE c.spread > p.max_spread -> "spread_too_wide"
      [] c.spread <= p.max_spread /\ c.volume < p.min_volume -> "low_liquidity"
      [] /\ c.spread <= p.max_spread /\ c.volume >= p.min_volume
         /\ p.min_interest # None
         /\ IF c.interest = None THEN TRUE ELSE c.interest < p.min_interest ->
             "low_open_interest"
      [] OTHER -> IF c.rate < p.min_rate THEN "funding_below_minimum"
                  ELSE "none"

(* The candidates that pass, as their places in the list. *)
Eligible(candidates, p) ==
    {i \in 1 .. Len(candidates) : Exclusion(candidates[i], p) = "none"}

Largest(S) == CHOOSE x \in S \cup {0} : \A y \in S : y <= x

LargestRate(candidates, p) ==
    Largest({candidates[i].rate : i \in Eligible(candidates, p)})

LargestVolume(candidates, p) ==
    Largest({candidates[i].volume : i \in Eligible(candidates, p)})

(* _normalize, as a fraction: value / largest, 0 when there is none. *)
Normalized(value, largest) ==
    IF largest <= 0 THEN <<0, 1>>
    ELSE <<IF value < largest THEN value ELSE largest, largest>>

(* The score, times both denominators; the weights are in percent. *)
Score(i, candidates, p) ==
    LET rate == Normalized(candidates[i].rate, LargestRate(candidates, p))
        volume == Normalized(candidates[i].volume, LargestVolume(candidates, p))
    IN  p.weight_funding * rate[1] * volume[2]
            + p.weight_liquidity * volume[1] * rate[2]

(* sorted(..., reverse=True) keeps the order of equals. *)
Before(i, j, candidates, p) ==
    \/ Score(i, candidates, p) > Score(j, candidates, p)
    \/ Score(i, candidates, p) = Score(j, candidates, p) /\ i < j

Rank(i, candidates, p) ==
    Cardinality({j \in Eligible(candidates, p) :
                    j = i \/ Before(j, i, candidates, p)})

(* Mutant: one candidate too many. *)
TopOneMore(candidates, p) ==
    {i \in Eligible(candidates, p) : Rank(i, candidates, p) <= p.max_active + 1}

(* The best N, and the one behind them. *)
Top(candidates, p) ==
    {i \in Eligible(candidates, p) : Rank(i, candidates, p) <= p.max_active}

NextBest(candidates, p) ==
    {i \in Eligible(candidates, p) : Rank(i, candidates, p) = p.max_active + 1}

Named(places, candidates) == {candidates[i].name : i \in places}

Everybody(candidates) == Named(1 .. Len(candidates), candidates)

(* Mutant: an anchor has to pass the filters. *)
AnchorsFiltered(candidates, p) ==
    p.anchors \cap Named(Eligible(candidates, p), candidates)

(* always_include: ignored only when there is no such candidate. *)
Anchors(candidates, p) == p.anchors \cap Everybody(candidates)

(* select_universe.  Of those beyond the best N only the first is recorded. *)
SelectUniverse(candidates, p) ==
    LET top == Named(Top(candidates, p), candidates)
        anchors == Anchors(candidates, p)
        failed == Everybody(candidates) \ Named(Eligible(candidates, p), candidates)
        next == Named(NextBest(candidates, p), candidates)
    IN  [selected |-> top \cup anchors,
         top |-> top,
         excluded |-> (failed \cup next) \ (anchors \ top)]

Init == pool = << >> /\ params = None /\ selection = None

Select ==
    \E candidates \in Pools, p \in Params :
        /\ pool' = candidates /\ params' = p
        /\ selection' = SelectUniverse(candidates, p)

Next == Select

Spec == Init /\ [][Next]_vars

-----------------------------------------------------------------------------
(* Nobody is selected and excluded at once, and an anchor that is a         *)
(* candidate is always selected, also when it fails every filter or comes   *)
(* out below the best N (select_universe).                                  *)
AnchorsSelected ==
    selection # None =>
        /\ selection.selected \cap selection.excluded = {}
        /\ \A a \in params.anchors \cap Everybody(pool) : a \in selection.selected

(* The pool is no larger than its limit but for the anchors, and whoever is *)
(* left out is not better, in both rate and volume, than somebody who made  *)
(* it into the best N, whatever the weights (select_universe).              *)
BestSelected ==
    selection # None =>
        /\ Cardinality(selection.selected \ params.anchors)
              <= params.max_active
        /\ \A i, j \in 1 .. Len(pool) :
              LET c == pool[i] d == pool[j]
              IN  (/\ Exclusion(c, params) = "none"
                   /\ c.name \notin selection.selected
                   /\ d.name \in selection.top)
                      => ~(c.rate > d.rate /\ c.volume > d.volume)

(* The pool is the anchors and the best of the others (select_universe). *)
SelectionSound == AnchorsSelected /\ BestSelected
=============================================================================
