-------------------------- MODULE ExchangePayloads --------------------------
(***************************************************************************)
(* The normalizer reading the payloads of an exchange one after the other:  *)
(* the time of a quote in whatever form it is given, the funding rate under *)
(* whatever key.                                                            *)
(***************************************************************************)
EXTENDS Normalizer

CONSTANTS
    Instants,           \* times, in seconds
    Received,           \* received_at_ms
    Rates               \* funding rates, Junk and None among them

VARIABLES kind, payload, info, wish, result

vars == <<kind, payload, info, wish, result>>

NoPayload == << >>

Init ==
    /\ kind = "none" /\ payload = NoPayload /\ info = NoPayload
    /\ wish = FALSE /\ result = None

(* A time as an exchange gives it: seconds, milliseconds, an ISO date, or   *)
(* nothing that can be read.                                                *)
Times ==
    {[n |-> s, unit |-> ""] : s \in Instants}
        \cup [n: {s * MsPerSecond : s \in Instants}, unit: {"", "iso"}]
        \cup {[n |-> 0, unit |-> ""], Junk, None}

ReadTicker ==
    \E time, close \in Times, spot \in BOOLEAN :
        LET p == [bid |-> 1, ask |-> 2, datetime |-> time]
            i == [closeTime |-> close]
        IN  /\ kind' = IF spot THEN "spot" ELSE "perp"
            /\ payload' = p /\ info' = i
            /\ result' = IF spot THEN NormalizeSpotTicker(p, i, Received)
                         ELSE NormalizePerpTicker(p, i, Received)
            /\ UNCHANGED wish

ReadFunding ==
    \E rate, predicted, last, previous \in Rates, wanted \in BOOLEAN :
        LET p == [fundingRate |-> rate, lastFundingRate |-> last]
            i == [nextFundingRate |-> predicted,
                  previousFundingRate |-> previous]
        IN  /\ kind' = "funding"
            /\ payload' = p /\ info' = i /\ wish' = wanted
            /\ result' = NormalizeFunding(p, i, 8 * 3600, wanted)

Next == ReadTicker \/ ReadFunding

Spec == Init /\ [][Next]_vars

-----------------------------------------------------------------------------
(* Whatever form an exchange gives a time in, a quote is stamped with that  *)
(* instant in milliseconds, or with the local time: a stamp is never taken  *)
(* for seconds twice, nor left in seconds, so a quote's age means something *)
(* (parse_timestamp_value, parse_timestamp_from_payload).                   *)
StampIsAnInstant ==
    kind \in {"spot", "perp"} =>
        result.timestamp_ms \in {s * MsPerSecond : s \in Instants}
                                    \cup {Received}

(* The rate a snapshot calls predicted or last is one the exchange gave as  *)
(* such, and a predicted rate that is not wanted is used only when no last  *)
(* rate can be read (normalize_funding_snapshot).                           *)
RateHasSource ==
    kind = "funding" /\ result # DataError =>
        LET sources == IF result.source = "predicted"
                          THEN {payload.fundingRate, info.nextFundingRate}
                          ELSE {payload.lastFundingRate,
                                info.previousFundingRate}
        IN  /\ result.effective \in sources
            /\ (result.source = "predicted" /\ ~wish) =>
                  ~IsNumber(payload.lastFundingRate)

(* What the monitor reads is what the exchange gave, in its units           *)
(* (exchanges/normalizer.py).                                               *)
ReadAsGiven == StampIsAnInstant /\ RateHasSource
=============================================================================
