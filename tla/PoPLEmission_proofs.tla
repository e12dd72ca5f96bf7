------------------------ MODULE PoPLEmission_proofs ------------------------
(***************************************************************************)
(* The emission rate stays between its floor and the whole treasury in     *)
(* every epoch, the ones whose numerator wraps included.                   *)
(* Before the floor, the rounded rates of a year keep its budget, of which *)
(* the first year withholds its quiet epochs.                              *)
(***************************************************************************)
EXTENDS PoPLEmission, TLAPS

EpochInRange == n \in Nat /\ n >= 1 /\ n <= LastEpoch

\* Rounded division by the denominator, of a numerator that may have wrapped.
LEMMA QuotientRange ==
    ASSUME NEW m \in Int, m <= (1200 * 10816 + 1326 * 750), m >= -(32000 * 32000)
    PROVE  u32Quotient(m) \in Nat /\ u32Quotient(m) <= kBPS_DENOM
  <1>1. cidEpochBpsDenominator = 52 * 10816
    BY DEF cidEpochBpsDenominator, EpochsPerYear, DeclineDen
  <1>2. WordQuotient = 7636 /\ WordRemainder = 236 * 1000 + 544
    BY <1>1 DEF WordQuotient, WordRemainder
  <1> QED
    BY <1>1, <1>2 DEF u32Quotient, kBPS_DENOM

\* The numerator of every epoch that a 32-bit ledger sequence reaches.
LEMMA NumeratorRange ==
    ASSUME NEW e \in Nat, e >= 1, e <= 24855
    PROVE  /\ cidEpochBpsNumerator(e) \in Int
           /\ cidEpochBpsNumerator(e) <= (1200 * 10816 + 1326 * 750)
           /\ cidEpochBpsNumerator(e) >= -(32000 * 32000)
  BY DEF cidEpochBpsNumerator, Year1AvgBps, DeclineDen, DeclineNum, EpochsPerYear

\* The rate of every epoch is at least the floor and at most the treasury.
LEMMA RateRange ==
    ASSUME NEW e \in Nat, e >= 1, e <= 24855
    PROVE  cidEmissionBps(e) >= EpochFloorBps /\ cidEmissionBps(e) <= kBPS_DENOM
  <1>1. Greater(e, 1) = e
    BY DEF Greater
  <1> DEFINE m == cidEpochBpsNumerator(e)
  <1>2. m \in Int /\ m <= 1200 * 10816 + 1326 * 750 /\ m >= -(32000 * 32000)
    BY NumeratorRange
  <1> HIDE DEF m
  <1>3. u32Quotient(m) \in Nat /\ u32Quotient(m) <= kBPS_DENOM
    BY <1>2, QuotientRange
  <1> QED
    BY <1>1, <1>3 DEF cidEmissionBps, Greater, EpochFloorBps, kBPS_DENOM, m

\* applyRewardEpoch's muldiv64 never gets a multiplier above kBPS_DENOM.
THEOREM RateAlwaysBounded == EmissionSpec => []RateBounded
  <1>1. EmissionInit => EpochInRange
    BY LastEpochAssumption DEF EmissionInit, EpochInRange
  <1>2. EpochInRange /\ [OpenEpoch]_emissionVars => EpochInRange'
    BY LastEpochAssumption DEF EpochInRange, OpenEpoch, emissionVars
  <1>3. EpochInRange => RateBounded
    <2> SUFFICES ASSUME EpochInRange PROVE RateBounded
      OBVIOUS
    <2>1. n \in Nat /\ n >= 1 /\ n <= 24855
      BY LastEpochAssumption DEF EpochInRange
    <2> QED
      BY <2>1, RateRange DEF RateBounded
  <1> QED
    BY <1>1, <1>2, <1>3, PTL DEF EmissionSpec

-----------------------------------------------------------------------------
(* The yearly budget                                                       *)

\* The epochs of 1..e up to t
Upto(e, t) == IF e <= t THEN e ELSE t

\* The rates of the epochs 1..e of the curve, added up and counted by rates: three basis points
\* in each, and one more in each up to the last epoch of every higher rate.
Spent(e) ==
    3 * e + Upto(e, 308) + Upto(e, 294) + Upto(e, 279) + Upto(e, 265) + Upto(e, 251) + Upto(e, 236)
          + Upto(e, 222) + Upto(e, 207) + Upto(e, 193) + Upto(e, 179) + Upto(e, 164) + Upto(e, 150)
          + Upto(e, 135) + Upto(e, 121) + Upto(e, 106) + Upto(e, 92) + Upto(e, 78) + Upto(e, 63)
          + Upto(e, 49) + Upto(e, 34) + Upto(e, 20) + Upto(e, 5)

\* The years begin after these epochs.
YearStart(e) == EpochsPerYear * ((e - 1) \div EpochsPerYear)

\* The rate of an epoch of the curve, in plain arithmetic: no numerator wraps.
LEMMA CurveRate ==
    ASSUME NEW e \in 1 .. 312
    PROVE  cidEmissionBps(e) = Greater(3, (14254916 - 39000 * (e - 1)) \div 562432)
  <1>1. cidEpochBpsDenominator = 562432
    BY DEF cidEpochBpsDenominator, EpochsPerYear, DeclineDen
  <1>2. Greater(e, 1) = e
    BY DEF Greater
  <1>3. cidEpochBpsNumerator(e) = 13973700 - 39000 * (e - 1)
    BY DEF cidEpochBpsNumerator, Year1AvgBps, DeclineDen, DeclineNum, EpochsPerYear
  <1> DEFINE m == 13973700 - 39000 * (e - 1)
  <1>4. m \in Int /\ m + 281216 >= 0 /\ m + 281216 = 14254916 - 39000 * (e - 1)
    OBVIOUS
  <1>5. 562432 \div 2 = 281216
    OBVIOUS
  <1> HIDE DEF m
  <1>6. u32Quotient(m) = (m + 281216) \div 562432
    BY <1>1, <1>4, <1>5 DEF u32Quotient
  <1> QED
    BY <1>2, <1>3, <1>4, <1>6 DEF cidEmissionBps, EpochFloorBps, m

\* Its rate is what an epoch adds to what was spent.
LEMMA RateSpent ==
    ASSUME NEW e \in 1 .. 312
    PROVE  cidEmissionBps(e) = Spent(e) - Spent(e - 1)
  <1> DEFINE r == 14254916 - 39000 * (e - 1)
             q == r \div 562432
  <1>1. cidEmissionBps(e) = Greater(3, q)
    BY CurveRate
  <1>2. r \in Nat /\ q \in Nat /\ 562432 * q <= r /\ r < 562432 * q + 562432
    OBVIOUS
  <1> HIDE DEF q
  <1> QED
    BY <1>1, <1>2 DEF Spent, Upto, Greater

\* What the curve has spent at the end of each year
LEMMA SpentAtYearEnd ==
    /\ Spent(0) = 0
    /\ Spent(52) = 1200
    /\ Spent(104) = 2213
    /\ Spent(156) = 3037
    /\ Spent(208) = 3676
    /\ Spent(260) = 4125
    /\ Spent(312) = 4387
  <1>1. Spent(0) = 0
    BY DEF Spent, Upto
  <1>2. Spent(52) = 1200
    BY DEF Spent, Upto
  <1>3. Spent(104) = 2213
    BY DEF Spent, Upto
  <1>4. Spent(156) = 3037
    BY DEF Spent, Upto
  <1>5. Spent(208) = 3676
    BY DEF Spent, Upto
  <1>6. Spent(260) = 4125
    BY DEF Spent, Upto
  <1>7. Spent(312) = 4387
    BY DEF Spent, Upto
  <1> QED
    BY <1>1, <1>2, <1>3, <1>4, <1>5, <1>6, <1>7

\* What the curve gives the epochs 1..e that are not quiet
Emitted(e) == Spent(e) - Spent(Upto(e, 7))

\* A sum of rates is an integer.
LEMMA EmittedInt ==
    ASSUME NEW e \in Int
    PROVE  Emitted(e) \in Int
  <1>1. \A i \in Int : Spent(i) \in Int
    BY DEF Spent, Upto
  <1> QED
    BY <1>1 DEF Emitted, Upto

\* What an epoch emits is what it adds to the emission of the epochs before it.
LEMMA EpochEmits ==
    ASSUME NEW e \in 1 .. 312
    PROVE  emissionBps(e) = Emitted(e) - Emitted(e - 1)
  <1>1. cidEmissionBps(e) = Spent(e) - Spent(e - 1)
    BY RateSpent
  <1>2. Spent(e) \in Int /\ Spent(e - 1) \in Int /\ Spent(7) \in Int
    BY DEF Spent, Upto
  <1>3. CASE e <= 7
    <2>1. Upto(e, 7) = e /\ Upto(e - 1, 7) = e - 1 /\ emissionBps(e) = 0
      BY <1>3 DEF Upto, emissionBps, FirstEmissionEpoch
    <2> QED
      BY <1>2, <2>1 DEF Emitted
  <1>4. CASE e > 7
    <2>1. Upto(e, 7) = 7 /\ Upto(e - 1, 7) = 7 /\ emissionBps(e) = cidEmissionBps(e)
      BY <1>4 DEF Upto, emissionBps, FirstEmissionEpoch
    <2> QED
      BY <1>1, <1>2, <2>1 DEF Emitted
  <1> QED
    BY <1>3, <1>4

\* The rates that the quiet epochs of the first year would have had
LEMMA QuietSpent == QuietBps = Spent(7)
  <1>1. /\ cidEmissionBps(1) = Spent(1) - Spent(0) /\ cidEmissionBps(2) = Spent(2) - Spent(1)
        /\ cidEmissionBps(3) = Spent(3) - Spent(2) /\ cidEmissionBps(4) = Spent(4) - Spent(3)
        /\ cidEmissionBps(5) = Spent(5) - Spent(4) /\ cidEmissionBps(6) = Spent(6) - Spent(5)
        /\ cidEmissionBps(7) = Spent(7) - Spent(6)
    BY RateSpent
  <1>2. Spent(0) = 0 /\ \A e \in 0 .. 7 : Spent(e) \in Int
    BY DEF Spent, Upto
  <1> QED
    BY <1>1, <1>2 DEF QuietBps

\* What the year has emitted is the emission since the year began.
YearInv ==
    EpochInRange /\ (n <= 312 => yearBps = Emitted(n) - Emitted(YearStart(n)))

\* What the 52 epochs of each of the six years before the floor emit, each rounded
\* on its own, is the average that cidYearlyAvgBps computes, within one basis
\* point, and in the first year less the rates of its quiet epochs.
THEOREM BudgetAlwaysKept == EmissionSpec => []YearlyBudgetKept
  <1>1. EmissionInit => YearInv
    <2> SUFFICES ASSUME EmissionInit PROVE YearInv
      OBVIOUS
    <2>1. n = 1 /\ yearBps = Emitted(1) - Emitted(0)
      BY EpochEmits DEF EmissionInit
    <2>2. YearStart(1) = 0
      BY DEF YearStart, EpochsPerYear
    <2> QED
      BY <2>1, <2>2, LastEpochAssumption DEF YearInv, EpochInRange
  <1>2. YearInv /\ [OpenEpoch]_emissionVars => YearInv'
    <2> SUFFICES ASSUME YearInv, OpenEpoch PROVE YearInv'
      BY DEF YearInv, EpochInRange, YearStart, emissionVars
    <2>1. /\ n \in Nat /\ n >= 1 /\ n < LastEpoch /\ n' = n + 1
          /\ yearBps' = emissionBps(n + 1) + (IF n % 52 = 0 THEN 0 ELSE yearBps)
      BY DEF YearInv, EpochInRange, OpenEpoch, EpochsPerYear
    <2>2. EpochInRange'
      BY <2>1, LastEpochAssumption DEF EpochInRange
    <2>3. ASSUME n + 1 <= 312 PROVE yearBps' = Emitted(n + 1) - Emitted(YearStart(n + 1))
      <3>1. emissionBps(n + 1) = Emitted(n + 1) - Emitted(n)
        BY <2>1, <2>3, EpochEmits
      <3>2. yearBps = Emitted(n) - Emitted(YearStart(n))
        BY <2>1, <2>3 DEF YearInv
      <3>3. YearStart(n + 1) = IF n % 52 = 0 THEN n ELSE YearStart(n)
        BY <2>1 DEF YearStart, EpochsPerYear
      <3>4. YearStart(n) \in Int
        BY <2>1 DEF YearStart, EpochsPerYear
      <3>5. Emitted(n) \in Int /\ Emitted(n + 1) \in Int /\ Emitted(YearStart(n)) \in Int
        BY <2>1, <3>4, EmittedInt
      <3> QED
        BY <2>1, <3>1, <3>2, <3>3, <3>5
    <2> QED
      BY <2>1, <2>2, <2>3 DEF YearInv
  <1>3. YearInv => YearlyBudgetKept
    <2> SUFFICES ASSUME YearInv, n % 52 = 0, n <= 312
                 PROVE  (yearBps + (IF n = 52 THEN QuietBps ELSE 0)) - cidYearlyAvgBps(n) \in -1 .. 1
      BY DEF YearlyBudgetKept, CurveYears, EpochsPerYear
    <2>1. n \in {52, 104, 156, 208, 260, 312}
      BY DEF YearInv, EpochInRange
    <2>2. yearBps = Emitted(n) - Emitted(YearStart(n)) /\ YearStart(n) = n - 52
      BY <2>1 DEF YearInv, YearStart, EpochsPerYear
    <2>3. cidEpochBpsDenominator = 562432
      BY DEF cidEpochBpsDenominator, EpochsPerYear, DeclineDen
    <2> DEFINE m == 674918400 - 105456000 * ((n - 52) \div 52)
    <2>4. cidYearNumerator((n - 1) \div 52) = m
      BY <2>1 DEF cidYearNumerator, EpochsPerYear, Year1AvgBps, DeclineDen, DeclineNum
    <2>5. cidYearlyAvgBps(n) = Greater(150, u32Quotient(m))
      BY <2>1, <2>4 DEF cidYearlyAvgBps, EpochsPerYear, YearlyFloorBps
    <2>6. u32Quotient(m) = (m + 281216) \div 562432
      BY <2>1, <2>3 DEF u32Quotient
    <2>7. yearBps + (IF n = 52 THEN QuietBps ELSE 0) = Spent(n) - Spent(n - 52)
      <3>1. /\ Upto(n, 7) = 7 /\ Upto(n - 52, 7) = IF n = 52 THEN 0 ELSE 7
            /\ n = 52 => n - 52 = 0
        BY <2>1 DEF Upto
      <3>2. Spent(0) = 0 /\ Spent(7) \in Int /\ Spent(n) \in Int /\ Spent(n - 52) \in Int
        BY <2>1 DEF Spent, Upto
      <3>3. /\ Emitted(n) = Spent(n) - Spent(7)
            /\ Emitted(n - 52) = IF n = 52 THEN 0 ELSE Spent(n - 52) - Spent(7)
        BY <3>1, <3>2 DEF Emitted
      <3> QED
        BY <2>2, <3>1, <3>2, <3>3, QuietSpent
    <2>8. /\ n = 52 => Spent(n) - Spent(n - 52) = 1200
          /\ n = 104 => Spent(n) - Spent(n - 52) = 1013
          /\ n = 156 => Spent(n) - Spent(n - 52) = 824
          /\ n = 208 => Spent(n) - Spent(n - 52) = 639
          /\ n = 260 => Spent(n) - Spent(n - 52) = 449
          /\ n = 312 => Spent(n) - Spent(n - 52) = 262
      BY SpentAtYearEnd
    <2>9. /\ n = 52 => cidYearlyAvgBps(n) = 1200
          /\ n = 104 => cidYearlyAvgBps(n) = 1013
          /\ n = 156 => cidYearlyAvgBps(n) = 825
          /\ n = 208 => cidYearlyAvgBps(n) = 638
          /\ n = 260 => cidYearlyAvgBps(n) = 450
          /\ n = 312 => cidYearlyAvgBps(n) = 263
      BY <2>5, <2>6 DEF Greater
    <2> HIDE DEF m
    <2> DEFINE sum == yearBps + (IF n = 52 THEN QuietBps ELSE 0)
    <2>10. sum = Spent(n) - Spent(n - 52)
      BY <2>7
    <2> HIDE DEF sum
    <2>11. sum - cidYearlyAvgBps(n) \in -1 .. 1
      BY <2>1, <2>8, <2>9, <2>10
    <2> QED
      BY <2>11 DEF sum
  <1> QED
    BY <1>1, <1>2, <1>3, PTL DEF EmissionSpec

=============================================================================
