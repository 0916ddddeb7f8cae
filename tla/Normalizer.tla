----------------------------- MODULE Normalizer -----------------------------
(***************************************************************************)
(* What monitor/exchanges/normalizer.py makes of the payloads of ccxt.  A   *)
(* payload is a function from some keys to values, and so is the info that  *)
(* comes with it.  A value is a number, Junk (text that is not a number, a  *)
(* bool, a NaN) or None; a time is [n |-> a number, unit |-> "" or "iso"],  *)
(* an interval [n |-> a number or Junk, unit |-> "h", "m", "s" or ""].      *)
(***************************************************************************)
EXTENDS Integers, Sequences, FiniteSetsExt

CONSTANTS
    None, Junk,
    DataError,          \* ExchangeDataError is raised
    SecondsLimit,       \* numbers below this are seconds (10_000_000_000)
    MsPerSecond         \* (1000)

IsNumber(v) == v \notin {None, Junk} /\ v \in Int

(* The places of the keys that m has a value for, and the first of them.    *)
Given(m, keys) == {i \in 1 .. Len(keys) : keys[i] \in DOMAIN m /\ m[keys[i]] # None}

FirstGiven(m, keys) == m[keys[Min(Given(m, keys))]]

(* _get_value: the first that is not None, the payload's before the info's. *)
(* Whether it can be parsed does not count.                                 *)
GetValue(payload, info, keys) ==
    CASE Given(payload, keys) # {} -> FirstGiven(payload, keys)
      [] Given(payload, keys) = {} /\ Given(info, keys) # {} -> FirstGiven(info, keys)
      [] OTHER -> None

(* parse_optional_decimal; parse_required_positive_decimal raises unless    *)
(* Positive.                                                                *)
ParseDecimal(v) == IF IsNumber(v) THEN v ELSE None

Positive(v) == IsNumber(v) /\ v > 0

-----------------------------------------------------------------------------
(* Mutant: the limit itself is taken for seconds. *)
ParseTimestampInclusive(v) ==
    IF v \in {None, Junk} THEN None
    ELSE CASE v.unit = "iso" -> v.n
           [] v.unit = "" /\ v.n <= 0 -> None
           [] v.unit = "" /\ v.n > 0 ->
                  IF v.n <= SecondsLimit THEN v.n * MsPerSecond ELSE v.n

(* parse_timestamp_value. *)
ParseTimestamp(v) ==
    IF v \in {None, Junk} THEN None
    ELSE CASE v.unit = "iso" -> v.n
           [] v.unit = "" /\ v.n <= 0 -> None
           [] v.unit = "" /\ v.n > 0 ->
                  IF v.n < SecondsLimit THEN v.n * MsPerSecond ELSE v.n

(* parse_timestamp_from_payload: only the first value under the common keys *)
(* is looked at, then the raw keys of Binance, then the local time.         *)
TimestampFromPayload(payload, info, received) ==
    LET common == ParseTimestamp(GetValue(payload, info,
                      <<"timestamp", "datetime", "timestamp_ms", "time">>))
        keys == <<"closeTime", "E", "T">>
        raw == {i \in 1 .. 3 : keys[i] \in DOMAIN info
                                  /\ ParseTimestamp(info[keys[i]]) # None}
    IN  CASE common # None -> common
          [] common = None /\ raw # {} -> ParseTimestamp(info[keys[Min(raw)]])
          [] OTHER -> received

(* parse_interval_hours, in seconds: a plain number is hours. *)
ParseInterval(v) ==
    IF v \in {None, Junk} THEN None
    ELSE IF ~Positive(v.n) THEN None
    ELSE v.n * (CASE v.unit \in {"h", ""} -> 3600
                  [] v.unit = "m" -> 60
                  [] v.unit = "s" -> 1)

IntervalKeys ==
    <<"fundingIntervalHours", "intervalHours", "interval", "fundingInterval">>

(* parse_funding_interval_hours. *)
ParseFundingInterval(payload, info) ==
    ParseInterval(GetValue(payload, info, IntervalKeys))

-----------------------------------------------------------------------------
(* The optional fields of a ticker and the keys they are read from. *)
SpotFields ==
    [last |-> <<"last">>,
     quote_volume_24h |-> <<"quoteVolume", "quoteVolume24h">>,
     base_volume_24h |-> <<"baseVolume", "baseVolume24h">>,
     bid_quantity |-> <<"bidVolume", "bidQty", "bidQuantity">>,
     ask_quantity |-> <<"askVolume", "askQty", "askQuantity">>]

PerpOnly ==
    [mark_price |-> <<"mark", "markPrice">>,
     index_price |-> <<"index", "indexPrice">>,
     open_interest |-> <<"openInterest", "openInterestValue">>]

PerpFields ==
    [f \in DOMAIN SpotFields \cup DOMAIN PerpOnly |->
        IF f \in DOMAIN SpotFields THEN SpotFields[f] ELSE PerpOnly[f]]

(* The two sides are taken from the payload alone, never from its info. *)
QuoteSound(payload) ==
    /\ Positive(payload.bid) /\ Positive(payload.ask)
    /\ payload.bid <= payload.ask

NormalizeTicker(payload, info, received, fields) ==
    IF ~QuoteSound(payload) THEN DataError
    ELSE [bid |-> payload.bid, ask |-> payload.ask,
          timestamp_ms |-> TimestampFromPayload(payload, info, received),
          optional |-> [f \in DOMAIN fields |->
              ParseDecimal(GetValue(payload, info, fields[f]))]]

NormalizeSpotTicker(payload, info, received) ==
    NormalizeTicker(payload, info, received, SpotFields)

NormalizePerpTicker(payload, info, received) ==
    NormalizeTicker(payload, info, received, PerpFields)

PredictedRate(payload, info) ==
    ParseDecimal(GetValue(payload, info,
        <<"fundingRate", "predictedFundingRate", "nextFundingRate">>))

LastRate(payload, info) ==
    ParseDecimal(GetValue(payload, info,
        <<"lastFundingRate", "previousFundingRate">>))

(* The interval that was resolved before, unless the payload says otherwise. *)
SnapshotInterval(payload, info, default) ==
    LET own == ParseFundingInterval(payload, info)
    IN  IF own # None THEN own ELSE default

(* Mutant: the last rate is never used. *)
RateSourcePredicted(predicted, last, use_predicted) ==
    CASE predicted # None -> "predicted"
      [] predicted = None /\ last # None -> "last"
      [] OTHER -> "none"

RateSource(predicted, last, use_predicted) ==
    CASE use_predicted /\ predicted # None -> "predicted"
      [] ~(use_predicted /\ predicted # None) /\ last # None -> "last"
      [] last = None /\ predicted # None /\ ~use_predicted -> "predicted"
      [] OTHER -> "none"

(* normalize_funding_snapshot. *)
NormalizeFunding(payload, info, default, use_predicted) ==
    LET predicted == PredictedRate(payload, info)
        last == LastRate(payload, info)
        source == RateSource(predicted, last, use_predicted)
        interval == SnapshotInterval(payload, info, default)
    IN  IF source = "none" \/ ~Positive(interval) THEN DataError
        ELSE [effective |-> IF source = "last" THEN last ELSE predicted,
              source |-> source, interval |-> interval,
              next_funding |-> ParseTimestamp(GetValue(payload, info,
                  <<"nextFundingTimestamp", "nextFundingTime",
                    "nextFundingTimestampMs", "fundingTimestamp">>)),
              last_funding |-> ParseTimestamp(GetValue(payload, info,
                  <<"previousFundingTimestamp", "previousFundingTime",
                    "lastFundingTimestamp", "lastFundingTime",
                    "lastFundingTimestampMs", "prevFundingTime",
                    "prevFundingTimestamp">>))]
=============================================================================
