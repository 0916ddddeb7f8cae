---------------------------- MODULE Calculators ----------------------------
(***************************************************************************)
(* The yield of a carry position (monitor/calculators): the costs, the      *)
(* funding and the convergence of the basis over the holding horizon and    *)
(* per year.  An amount is an exact fraction, a pair <<numerator,           *)
(* positive denominator>>: the Decimals of the code have 28 digits.         *)
(***************************************************************************)
EXTENDS Integers

CONSTANTS
    Positions,          \* the settings and quotes a position may have
    HoursPerYear,       \* HOURS_PER_YEAR
    FullHaircut,        \* 100, the scale of basis_haircut_percent
    None,               \* an optional argument that is not given
    ValueError          \* a ValueError is raised

VARIABLES
    position,           \* the symbol being processed
    metrics             \* what was worked out for it

vars == <<position, metrics>>

Whole(n) == <<n, 1>>
Plus(x, y) == <<x[1] * y[2] + y[1] * x[2], x[2] * y[2]>>
Minus(x, y) == <<x[1] * y[2] - y[1] * x[2], x[2] * y[2]>>
Times(x, n) == <<x[1] * n, x[2]>>
Over(x, n) == <<x[1], x[2] * n>>
AtMost(x, y) == x[1] * y[2] <= y[1] * x[2]
Same(x, y) == AtMost(x, y) /\ AtMost(y, x)

-----------------------------------------------------------------------------
(* calc_effective_holding_hours. *)
EffectiveHolding(holding, min_amortization) ==
    IF holding > min_amortization THEN holding ELSE min_amortization

(* Mutant: the amortization is not capped by the holding horizon. *)
EffectiveAmortizationUncapped(holding, amortization, min_amortization) ==
    IF amortization < min_amortization THEN min_amortization ELSE amortization

(* calc_effective_cost_amortization_hours: clamped between the two. *)
EffectiveAmortization(holding, amortization, min_amortization) ==
    LET horizon == EffectiveHolding(holding, min_amortization)
    IN  CASE amortization < min_amortization -> min_amortization
          [] amortization >= min_amortization /\ amortization > horizon ->
                 horizon
          [] OTHER -> amortization

(* The costs of a trade: spot_fee, perp_fee, slippage_entry, slippage_exit  *)
(* and spread_buffer once, borrow and opportunity per year.                 *)
OneTimeFields ==
    {"spot_fee", "perp_fee", "slippage_entry", "slippage_exit",
     "spread_buffer"}
AnnualFields == {"borrow", "opportunity"}

(* _require_non_negative, _require_positive. *)
ValidCosts(c, holding, amortization) ==
    /\ \A f \in OneTimeFields \cup AnnualFields : c[f] >= 0
    /\ holding > 0 /\ amortization > 0

(* Mutant: the exit of the perpetual leg is free. *)
RoundTripFeesOneWay(c) == 2 * c.spot_fee + c.perp_fee

(* calc_round_trip_fees, calc_slippage_round_trip, calc_one_time_costs. *)
RoundTripFees(c) == 2 * c.spot_fee + 2 * c.perp_fee

SlippageRoundTrip(c) == c.slippage_entry + c.slippage_exit

OneTimeCosts(c) == RoundTripFees(c) + SlippageRoundTrip(c) + c.spread_buffer

(* calc_borrow_cost_horizon and calc_opportunity_cost_horizon. *)
CostHorizon(annual, holding) == <<annual * holding, HoursPerYear>>

(* calc_total_costs_horizon, calc_one_time_costs_annualized and             *)
(* calc_total_costs_annualized.                                             *)
TotalCostsHorizon(c, holding) ==
    Plus(Whole(OneTimeCosts(c)),
         Plus(CostHorizon(c.borrow, holding),
              CostHorizon(c.opportunity, holding)))

OneTimeCostsAnnualized(c, amortization) ==
    <<OneTimeCosts(c) * HoursPerYear, amortization>>

TotalCostsAnnualized(c, amortization) ==
    Plus(OneTimeCostsAnnualized(c, amortization),
         Whole(c.borrow + c.opportunity))

(* Mutant: the opportunity cost is left out of the horizon. *)
CostMetricsNoOpportunity(c, holding, amortization) ==
    IF ~ValidCosts(c, holding, amortization) THEN ValueError
    ELSE [horizon |->
              <<OneTimeCosts(c) * HoursPerYear + c.borrow * holding,
                HoursPerYear>>,
          annualized |-> TotalCostsAnnualized(c, amortization),
          amortization |-> amortization]

(* calc_cost_metrics works the same figures out once more, in one piece. *)
CostMetrics(c, holding, amortization) ==
    IF ~ValidCosts(c, holding, amortization) THEN ValueError
    ELSE LET one_time ==
                 2 * c.spot_fee + 2 * c.perp_fee
                     + (c.slippage_entry + c.slippage_exit) + c.spread_buffer
         IN  [horizon |->
                  <<one_time * HoursPerYear + c.borrow * holding
                        + c.opportunity * holding, HoursPerYear>>,
              annualized |->
                  <<one_time * HoursPerYear
                        + (c.borrow + c.opportunity) * amortization,
                    amortization>>,
              amortization |-> amortization]

-----------------------------------------------------------------------------
(* calc_funding_annual and calc_funding_horizon: events are counted pro     *)
(* rata; an interval that is not positive has none.                         *)
FundingAnnual(rate, interval) ==
    IF interval <= 0 THEN Whole(0) ELSE <<rate * HoursPerYear, interval>>

FundingHorizon(rate, holding, interval) ==
    IF holding <= 0 \/ interval <= 0 THEN Whole(0)
    ELSE <<rate * holding, interval>>

FundingYield(rate, interval, holding) ==
    IF holding < 0 THEN ValueError
    ELSE [annual |-> FundingAnnual(rate, interval),
          horizon |-> FundingHorizon(rate, holding, interval),
          holding |-> holding]

(* calc_basis_mid and calc_basis_entry: a price that is not positive is no  *)
(* basis.                                                                   *)
BasisMid(spot_mid, perp_mid) ==
    IF spot_mid <= 0 THEN Whole(0) ELSE <<perp_mid - spot_mid, spot_mid>>

BasisEntry(spot_ask, perp_bid) ==
    IF spot_ask <= 0 \/ perp_bid <= 0 THEN Whole(0)
    ELSE <<perp_bid - spot_ask, spot_ask>>

(* select_expected_exit_basis. *)
ExpectedExitBasis(mode, entry, median) ==
    CASE mode = "entry" -> entry
      [] mode = "zero" -> Whole(0)
      [] mode = "historical_median" -> IF median = None THEN entry ELSE median

(* calc_basis_convergence_pnl; a full haircut is 100 percent. *)
BasisConvergence(include, haircut, entry, mode, median) ==
    IF include /\ haircut \notin 0 .. FullHaircut THEN ValueError
    ELSE IF ~include \/ haircut = 0 THEN Whole(0)
    ELSE Over(Times(Minus(entry, ExpectedExitBasis(mode, entry, median)),
                    haircut), FullHaircut)

(* Mutant: the horizon's costs are taken off the year. *)
NetYieldHorizonCosts(funding, costs, convergence) ==
    [horizon |-> Minus(Plus(funding.horizon, convergence), costs.horizon),
     annual |->
        Minus(Plus(funding.annual,
                   IF funding.holding > 0
                      THEN Over(Times(convergence, HoursPerYear),
                                funding.holding)
                      ELSE Whole(0)),
              costs.horizon)]

(* calc_gross_horizon, calc_net_horizon and calc_net_yield_metrics. *)
NetYield(funding, costs, convergence) ==
    [horizon |-> Minus(Plus(funding.horizon, convergence), costs.horizon),
     annual |->
        Minus(Plus(funding.annual,
                   IF funding.holding > 0
                      THEN Over(Times(convergence, HoursPerYear),
                                funding.holding)
                      ELSE Whole(0)),
              costs.annualized)]

(* calc_net_annual_from_horizon. *)
NetAnnualFromHorizon(net_horizon, hours) ==
    Over(Times(net_horizon, HoursPerYear), hours)

-----------------------------------------------------------------------------
(* YieldModelSettings and CostsSettings of monitor/config/schema.py refuse  *)
(* other settings.                                                          *)
ValidSettings(p) ==
    /\ p.min_amortization > 0
    /\ p.holding >= p.min_amortization
    /\ p.amortization >= p.min_amortization
    /\ p.haircut \in 0 .. FullHaircut /\ (~p.include => p.haircut = 0)
    /\ \A f \in OneTimeFields \cup AnnualFields : p.costs[f] >= 0

(* _yield_params_from_settings of monitor/bootstrap.py. *)
Horizon(p) == EffectiveHolding(p.holding, p.min_amortization)

Amortization(p) ==
    EffectiveAmortization(p.holding, p.amortization, p.min_amortization)

(* The metrics of _process_symbol (monitor/app.py); it never passes a       *)
(* historical median.                                                       *)
Metrics(p) ==
    LET funding == FundingYield(p.rate, p.interval, Horizon(p))
        costs == CostMetrics(p.costs, Horizon(p), Amortization(p))
        convergence ==
            BasisConvergence(p.include, p.haircut,
                             BasisEntry(p.spot_ask, p.perp_bid), p.mode, None)
    IN  [funding |-> funding, costs |-> costs,
         net |-> NetYield(funding, costs, convergence)]

Init == position = None /\ metrics = None

Calculate ==
    \E p \in Positions :
        /\ ValidSettings(p)
        /\ position' = p /\ metrics' = Metrics(p)

Next == Calculate

Spec == Init /\ [][Next]_vars

-----------------------------------------------------------------------------
(* The one-time costs are spread over no more hours than the position is    *)
(* held and no fewer than the settings allow, whatever the settings         *)
(* (calc_effective_cost_amortization_hours, _yield_params_from_settings).   *)
AmortizationWithinHorizon ==
    position # None =>
        /\ position.min_amortization <= metrics.costs.amortization
        /\ metrics.costs.amortization <= metrics.funding.holding

(* The annual yield is never rosier than the yield over the horizon,        *)
(* annualized: a shorter amortization makes the costs of a year larger, and *)
(* no setting makes them smaller (calc_net_yield_metrics).                  *)
AnnualNotRosier ==
    position # None =>
        AtMost(metrics.net.annual,
               NetAnnualFromHorizon(metrics.net.horizon,
                                    metrics.funding.holding))

(* The costs that calc_cost_metrics works out in one piece are those of the *)
(* helpers next to it, which other callers use.                             *)
HelpersAgree ==
    position # None =>
        LET p == position
        IN  /\ Same(metrics.costs.horizon,
                    TotalCostsHorizon(p.costs, Horizon(p)))
            /\ Same(metrics.costs.annualized,
                    TotalCostsAnnualized(p.costs, Amortization(p)))

(* Every cost counts: a position that is dearer in any one respect yields   *)
(* less over the horizon and per year (calc_cost_metrics,                   *)
(* calc_net_yield_metrics).                                                 *)
EveryCostCounts ==
    position # None =>
        \A f \in OneTimeFields \cup AnnualFields :
            LET dearer == Metrics([position EXCEPT !.costs[f] = @ + 1])
            IN  /\ ~AtMost(metrics.net.horizon, dearer.net.horizon)
                /\ ~AtMost(metrics.net.annual, dearer.net.annual)

(* A yield leaves no cost out, spreads it over the right hours, and is the  *)
(* same however it is worked out (monitor/calculators).                     *)
YieldSound ==
    AmortizationWithinHorizon /\ AnnualNotRosier /\ HelpersAgree
        /\ EveryCostCounts
=============================================================================
