--------------------------- MODULE QuoteAdmission ---------------------------
(***************************************************************************)
(* The quote admission policy shared by the approval arm and the claim     *)
(* gate: evaluate_quote_admission of execution/admission.py.               *)
(*                                                                         *)
(* A quote is a record [observed, provider, static]: the two timestamps    *)
(* and the set of reasons that do not depend on the clock (feed mode,      *)
(* market phase, venue, symbol, currency, spread, drift), which the model  *)
(* takes as given.                                                         *)
(***************************************************************************)
EXTENDS Integers

CONSTANTS
    QuoteMaxAge,        \* quote_max_age
    ProviderSkew        \* provider_clock_skew

ASSUME QuoteAssumption == QuoteMaxAge \in Nat /\ ProviderSkew \in Nat

\* The reasons evaluate_quote_admission derives from facts without a clock.
StaticReasons ==
    {"FEED_NOT_REALTIME", "MARKET_PHASE_INELIGIBLE", "VENUE_NOT_AUTHORITATIVE",
     "SYMBOL_MISMATCH", "CURRENCY_MISMATCH", "SPREAD_TOO_WIDE",
     "PRICE_DRIFT_TOO_LARGE"}

Quote == [observed : Nat, provider : Nat, static : SUBSET StaticReasons]

\* reasons of QuoteAdmissionResult: the clock-dependent ones and the static ones.
quote_reasons(q, at) ==
    q.static \union
    {r \in {"OBSERVED_AT_IN_FUTURE", "OBSERVED_QUOTE_STALE",
            "PROVIDER_TIMESTAMP_IN_FUTURE", "PROVIDER_QUOTE_STALE",
            "PROVIDER_AFTER_OBSERVATION_TOLERANCE"} :
        \/ r = "OBSERVED_AT_IN_FUTURE" /\ at < q.observed
        \/ r = "OBSERVED_QUOTE_STALE" /\ at - q.observed > QuoteMaxAge
        \/ r = "PROVIDER_TIMESTAMP_IN_FUTURE" /\ q.provider - at > ProviderSkew
        \/ r = "PROVIDER_QUOTE_STALE" /\ at - q.provider > QuoteMaxAge
        \/ r = "PROVIDER_AFTER_OBSERVATION_TOLERANCE"
             /\ q.provider > q.observed + ProviderSkew}

\* valid_until: the earlier of the two hard expiries.
quote_valid_until(q) ==
    (IF q.provider < q.observed THEN q.provider ELSE q.observed) + QuoteMaxAge

\* eligible: no reason at all, and the hard expiry is still ahead.
quote_eligible(q, at) == quote_reasons(q, at) = {} /\ quote_valid_until(q) > at
=============================================================================
