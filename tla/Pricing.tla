------------------------------ MODULE Pricing ------------------------------
(***************************************************************************)
(* What a run costs: boltrig/kernel/cost.py, the pricing functions.  A     *)
(* rate is in hundredths of a micro per token, so that the fractional      *)
(* rates of a price table stay integers; a price is in whole micros, the   *)
(* unit the ledger stores.                                                 *)
(***************************************************************************)
EXTENDS Integers

NoRate == -1   \* a leg without a usable number

TierMicrosPerToken == [cheap |-> 1, standard |-> 5, expensive |-> 25]

Pair(i, o) == [input |-> i, output |-> o]

\* A table entry as a pair of legs: a scalar rate r is Pair(r, r), an absent
\* entry NoEntry.  A missing leg takes the other one's rate.
NoEntry == Pair(NoRate, NoRate)

RatePair(rate) ==
    Pair(IF rate.input = NoRate THEN rate.output ELSE rate.input,
         IF rate.output = NoRate THEN rate.input ELSE rate.output)

\* Python's round: half to even.
Round(hundredths) ==
    LET q == hundredths \div 100
        r == hundredths % 100
    IN IF r > 50 \/ (r = 50 /\ q % 2 = 1) THEN q + 1 ELSE q

Floor(n) == IF n < 0 THEN 0 ELSE n

\* A plausible bug: the split is billed on top of the total.
UnattributedTotal(u) == Floor(u.total)

\* The tokens of the total that the reported split does not account for.
Unattributed(u) == Floor(Floor(u.total) - Floor(u.input) - Floor(u.output))

PricedMicros(rates, u) ==
    Round(Floor(u.input) * rates.input + Floor(u.output) * rates.output
              + Unattributed(u) * rates.input)

\* The table's entry for the run's model wins; the tier is the fallback.
RatesFor(rate, tier) ==
    IF rate = NoEntry
    THEN Pair(100 * TierMicrosPerToken[tier], 100 * TierMicrosPerToken[tier])
    ELSE RatePair(rate)

PriceMicros(rate, tier, u) == PricedMicros(RatesFor(rate, tier), u)

BareTotal(n) == [total |-> n, input |-> 0, output |-> 0]

\* The estimate a spawn reserves: a token for every four characters, at least
\* sixteen, at the tier's flat rate whatever the price table says.
Estimate(chars, tier) ==
    LET tokens == IF chars \div 4 < 16 THEN 16 ELSE chars \div 4
    IN [tokens |-> tokens, micros |-> PriceMicros(NoEntry, tier, BareTotal(tokens))]
=============================================================================
