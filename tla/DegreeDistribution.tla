------------------------- MODULE DegreeDistribution -------------------------
(***************************************************************************)
(* src/encoder/distribution.rs: the robust soliton distribution of the     *)
(* degree of a droplet, and how a degree is sampled.  Probabilities are    *)
(* multiples of 1 / Unit.                                                  *)
(***************************************************************************)
EXTENDS Integers, FiniteSets

CONSTANTS K,           \* number of superblocks in the epoch
          R,           \* c ln(K / delta) sqrt(K), at least 1, rounded
          Unit,
          SpikeWeight, \* (R / K) ln(R / delta), in units
          Shortfall    \* what rounding leaves the last entry below 1, in units

\* The unit is fine enough for every probability.  A spike at 0 does not occur
\* with the parameters of with_default_params.
ASSUME DistributionAssumption ==
  /\ K \in Nat \ {0} /\ R \in 1..K
  /\ Unit \in Nat \ {0} /\ SpikeWeight \in Nat /\ Shortfall \in Nat
  /\ Unit % K = 0
  /\ \A d \in 1..(K - 1) : Unit % (d * (d + 1)) = 0 /\ Unit % (d * R) = 0

Degrees == 0..K

Ideal(d) == IF d = 0 THEN 0 ELSE IF d = 1 THEN Unit \div K ELSE Unit \div (d * (d - 1))

Spike == K \div R
DiracSpike(d) == IF d = 0 THEN 0
                 ELSE IF d < Spike THEN Unit \div (d * R)
                 ELSE IF d = Spike THEN SpikeWeight ELSE 0

Pmf(d) == Ideal(d) + DiracSpike(d)

\* The code divides by the sum, so that the last entry becomes 1 up to rounding.
Cdf[d \in Degrees] == IF d = 0 THEN Pmf(0) ELSE Cdf[d - 1] + Pmf(d)
Total == Cdf[K]

\* beta is Total / Unit.
MinEncodedSymbols == (Total * K + Unit - 1) \div Unit

\* A sample stands for a random number in the interval that ends there; 0 for
\* the number 0 itself, which the generator may return.  Those after Total are
\* the numbers above the last entry.
Samples == 0..(Total + Shortfall)

\* Mutant of Sample: the search counts entries from one.
SampleFromOne(u) == Cardinality({d \in Degrees : Cdf[d] < u}) + 1
\* Binary search: the place of u among the entries, or where it would be, which
\* is K + 1 behind the last one.
Sample(u) == Cardinality({d \in Degrees : Cdf[d] < u})
==============================================================================
