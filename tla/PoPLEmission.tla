---------------------------- MODULE PoPLEmission ----------------------------
(***************************************************************************)
(* The CID emission curve of PoPLEmission.h with its real constants: the   *)
(* share of the treasury, in basis points, that a reward epoch may emit.   *)
(* The code computes in 32-bit unsigned arithmetic, the numerator of the   *)
(* linear decline included, so a negative numerator wraps.                 *)
(*                                                                         *)
(* The state machine walks the epochs in order, as applyRewardEpoch does,  *)
(* which emits nothing before kQXRP_FIRST_EMISSION_EPOCH and follows the   *)
(* curve from there.                                                       *)
(* Ledger sequences have 32 bits, so there are 24 855 epochs at most.      *)
(***************************************************************************)
EXTENDS Integers

CONSTANTS
    LastEpoch     \* (2^32 - 1) \div kQXRP_LEDGERS_PER_EPOCH, or less

ASSUME LastEpochAssumption == LastEpoch \in Nat /\ LastEpoch >= 1 /\ LastEpoch <= 24855

VARIABLES
    n,            \* number of the epoch that was opened last
    yearBps       \* history: basis points emitted in the current year, added up

emissionVars == <<n, yearBps>>

EpochsPerYear  == 52       \* kQXRP_EPOCHS_PER_YEAR
Year1AvgBps    == 1200     \* kQXRP_CID_YEAR1_AVG_BPS
YearlyFloorBps == 150      \* kQXRP_CID_YEARLY_FLOOR_BPS
EpochFloorBps  == 3        \* kQXRP_CID_EPOCH_FLOOR_BPS
DeclineNum     == 750      \* kQXRP_CID_DECLINE_NUM
DeclineDen     == 10816    \* kQXRP_CID_DECLINE_DEN
kBPS_DENOM     == 10000
FirstEmissionEpoch == 8    \* kQXRP_FIRST_EMISSION_EPOCH

-----------------------------------------------------------------------------

Greater(x, y) == IF x >= y THEN x ELSE y

\* cidEpochBpsNumerator before its reduction modulo 2^32.
cidEpochBpsNumerator(e) ==
    Year1AvgBps * DeclineDen + 1326 * DeclineNum - DeclineNum * (e - 1) * EpochsPerYear

cidEpochBpsDenominator == EpochsPerYear * DeclineDen

\* The same for the numerator of a year's average, year0 counting from 0.
cidYearNumerator(year0) ==
    EpochsPerYear * (Year1AvgBps * DeclineDen + 1326 * DeclineNum)
      - EpochsPerYear * DeclineNum * (EpochsPerYear * EpochsPerYear * year0 + 1326)

\* Quotient and remainder of 2^32 by the denominator, from those of 2^30.
WordQuotient ==
    LET d == cidEpochBpsDenominator
    IN  4 * ((32768 * 32768) \div d) + (4 * ((32768 * 32768) % d)) \div d
WordRemainder == (4 * ((32768 * 32768) % cidEpochBpsDenominator)) % cidEpochBpsDenominator

\* Mutant: the quotient is cut off instead of rounded.
u32QuotientCut(m) == m \div cidEpochBpsDenominator

\* (m % 2^32 + denom / 2) / denom of uint32_t operands, for -2^31 <= m < 2^31.
u32Quotient(m) ==
    LET d == cidEpochBpsDenominator
        r == m + d \div 2
    IN  IF r >= 0 THEN r \div d ELSE WordQuotient + (WordRemainder + r) \div d

\* Mutant: no floor under the rate.
cidEmissionBpsNoFloor(e) == u32Quotient(cidEpochBpsNumerator(e))

cidEmissionBps(e) ==
    Greater(EpochFloorBps, u32Quotient(cidEpochBpsNumerator(Greater(e, 1))))

cidYearlyAvgBps(e) ==
    IF e = 0 THEN Year1AvgBps
    ELSE Greater(YearlyFloorBps, u32Quotient(cidYearNumerator((e - 1) \div EpochsPerYear)))

-----------------------------------------------------------------------------

\* What applyRewardEpoch emits for an epoch: the quiet ones get nothing.
emissionBps(e) == IF e < FirstEmissionEpoch THEN 0 ELSE cidEmissionBps(e)

EmissionInit == n = 1 /\ yearBps = emissionBps(1)

OpenEpoch ==
    /\ n < LastEpoch
    /\ n' = n + 1
    /\ yearBps' = emissionBps(n + 1) + (IF n % EpochsPerYear = 0 THEN 0 ELSE yearBps)

EmissionSpec == EmissionInit /\ [][OpenEpoch]_emissionVars

-----------------------------------------------------------------------------
(* Properties                                                              *)

\* In every epoch that can occur the rate of the curve is at least the floor and
\* never more than the whole treasury, which muldiv64 in applyRewardEpoch relies on ("no
\* overflow because emissionBps <= kBPS_DENOM"); wrapped numerators included.
RateBounded == cidEmissionBps(n) >= EpochFloorBps /\ cidEmissionBps(n) <= kBPS_DENOM

\* What is emitted in each of the six years before the floor, every epoch
\* rounded on its own, is within one basis point the yearly average that
\* cidYearlyAvgBps computes: rounding per epoch does not drift. The first year
\* falls short of it by the rates of its seven quiet epochs and by no more.
CurveYears == 6

QuietBps ==
    cidEmissionBps(1) + cidEmissionBps(2) + cidEmissionBps(3) + cidEmissionBps(4)
      + cidEmissionBps(5) + cidEmissionBps(6) + cidEmissionBps(7)

YearlyBudgetKept ==
    n % EpochsPerYear = 0 /\ n <= CurveYears * EpochsPerYear
        => (yearBps + (IF n = EpochsPerYear THEN QuietBps ELSE 0)) - cidYearlyAvgBps(n) \in -1..1

\* PoPLEmission.h: the rate "Declines linearly every epoch (no year-end reset)
\* from ~25 bps at epoch 1 toward the 1.5 % yearly floor".
RateNeverRises == [][cidEmissionBps(n') <= cidEmissionBps(n)]_emissionVars

=============================================================================
