-------------------------- MODULE LPRewards_proofs --------------------------
(***************************************************************************)
(* Theorems about reward epochs and the three kinds of claims, for every   *)
(* number of accounts, keys, vaults and AMMs and every emission curve.     *)
(*                                                                         *)
(* ClaimEffect and LpClaimEffect say that a claim pays at most the pool    *)
(* and takes what it pays out of pool and treasury, or only claims its     *)
(* fee; every other transaction leaves the epoch alone and the treasury no *)
(* poorer. The invariants rest on those two lemmas and on what a close     *)
(* makes of the epoch.                                                     *)
(***************************************************************************)
EXTENDS LPRewards, ValidatorBonds_proofs

-----------------------------------------------------------------------------
(* Arithmetic                                                              *)

\* muldiv64 of natural numbers, whatever the multiplier.
LEMMA MuldivNat ==
    ASSUME NEW a \in Nat, NEW b \in Nat, NEW d \in Nat \ {0}
    PROVE  muldiv64(a, b, d) \in Nat
  <1>1. a \div d \in Nat /\ a % d \in Nat
    OBVIOUS
  <1>2. (a \div d) * b \in Nat /\ (a % d) * b \in Nat
    BY <1>1
  <1>3. ((a % d) * b) \div d \in Nat
    BY <1>2
  <1> QED
    BY <1>2, <1>3 DEF muldiv64

\* The lesser of two numbers is one of them and at most either.
LEMMA LesserTyped ==
    ASSUME NEW x \in Nat, NEW y \in Nat
    PROVE  Lesser(x, y) \in Nat /\ Lesser(x, y) <= x /\ Lesser(x, y) <= y
  BY DEF Lesser

\* A set of naturals with a member has a least one.
LEMMA LeastNat ==
    ASSUME NEW S \in SUBSET Nat, NEW x \in S
    PROVE  \E m \in S : \A y \in S : m <= y
  <1> DEFINE R == OpToRel(<, Nat)
  <1>1. IsWellFoundedOn(R, Nat)
    BY NatLessThanWellFounded
  <1>2. \A y, m \in Nat : <<y, m>> \notin R => m <= y
    BY DEF OpToRel
  <1> HIDE DEF R
  <1>3. PICK m \in S : \A y \in S : ~(<<y, m>> \in R)
    BY <1>1, WFMin
  <1> QED
    BY <1>2, <1>3

-----------------------------------------------------------------------------
(* Stored mantissas                                                        *)

\* g normalises the mantissas of s..(10 * MinMantissa - 1).
Normalizes(g, s) ==
    g = [x \in s..(10 * MinMantissa - 1) |-> IF x < MinMantissa THEN g[10 * x] ELSE x]

\* The loop of IOUAmount::normalize ends: its result is defined.
LEMMA NormalizeDefined ==
    normalize = [x \in 1..(10 * MinMantissa - 1) |->
                   IF x < MinMantissa THEN normalize[10 * x] ELSE x]
  <1> DEFINE M == MinMantissa
             L == {s \in 1..M : \E g : Normalizes(g, s)}
  <1>m. M \in Nat \ {0}
    BY LPAssumption
  <1>1. M \in L
    <2> DEFINE g == [x \in M..(10 * M - 1) |-> x]
    <2>1. Normalizes(g, M)
      BY <1>m DEF Normalizes
    <2> QED
      BY <1>m, <2>1
  <1>2. L \in SUBSET Nat
    BY <1>m
  <1> HIDE DEF L
  <1>3. PICK s \in L : \A t \in L : s <= t
    BY <1>1, <1>2, LeastNat
  <1>4. s \in 1..M /\ \E g : Normalizes(g, s)
    BY <1>3 DEF L
  <1>5. s = 1
    <2> SUFFICES ASSUME s # 1 PROVE FALSE
      OBVIOUS
    <2>1. PICK g : Normalizes(g, s)
      BY <1>4
    <2> DEFINE t == s - 1
               h == [x \in t..(10 * M - 1) |-> IF x = t THEN g[10 * x] ELSE g[x]]
    <2>2. t \in 1..M /\ t < M /\ t < s /\ s \in Nat
      BY <1>4, <1>m
    <2>3. ASSUME NEW x \in t..(10 * M - 1)
          PROVE  h[x] = IF x < M THEN h[10 * x] ELSE x
      <3>0. x \in Nat /\ x >= t /\ x >= 1
        BY <1>m, <2>2, <2>3
      <3>1. x < M => 10 * x \in s..(10 * M - 1) /\ 10 * x # t
        BY <1>m, <2>2, <3>0
      <3>2. x < M => h[10 * x] = g[10 * x]
        BY <1>m, <2>2, <3>1
      <3>3. CASE x = t
        BY <2>2, <2>3, <3>2, <3>3
      <3>4. CASE x # t
        <4>1. x \in s..(10 * M - 1)
          BY <1>m, <2>2, <2>3, <3>4
        <4>2. g[x] = IF x < M THEN g[10 * x] ELSE x
          BY <2>1, <4>1 DEF Normalizes
        <4> QED
          BY <2>3, <3>2, <3>4, <4>2
      <3> QED
        BY <3>3, <3>4
    <2>4. h = [x \in t..(10 * M - 1) |-> h[x]]
      OBVIOUS
    <2> HIDE DEF h
    <2>5. Normalizes(h, t)
      BY <2>3, <2>4 DEF Normalizes
    <2>6. t \in L
      BY <2>2, <2>5 DEF L
    <2> QED
      BY <1>3, <2>2, <2>6
  <1>6. \E g : Normalizes(g, 1)
    BY <1>4, <1>5
  <1>7. normalize = CHOOSE g : Normalizes(g, 1)
    BY DEF normalize, Normalizes
  <1>8. Normalizes(normalize, 1)
    BY <1>6, <1>7
  <1> QED
    BY <1>8 DEF Normalizes

\* A stored mantissa lies in its range.
LEMMA NormalizeRange ==
    ASSUME NEW n \in 1..(10 * MinMantissa - 1)
    PROVE  normalize[n] \in MinMantissa..(10 * MinMantissa - 1)
  <1> DEFINE M == MinMantissa
             D == 1..(10 * M - 1)
             B == {x \in D : normalize[x] \notin M..(10 * M - 1)}
             C == {10 * M - x : x \in B}
  <1>m. M \in Nat \ {0}
    BY LPAssumption
  <1> SUFFICES ASSUME n \in B PROVE FALSE
    OBVIOUS
  <1>1. C \in SUBSET Nat /\ 10 * M - n \in C
    BY <1>m
  <1> HIDE DEF C
  <1>2. PICK c \in C : \A y \in C : c <= y
    BY <1>1, LeastNat
  <1>3. PICK x \in B : c = 10 * M - x
    BY DEF C
  <1>4. normalize[x] = IF x < M THEN normalize[10 * x] ELSE x
    BY <1>3, NormalizeDefined
  <1>5. x < M
    BY <1>3, <1>4, <1>m
  <1>6. 10 * x \in D /\ 10 * x > x
    BY <1>3, <1>5, <1>m
  <1>7. 10 * x \in B
    BY <1>3, <1>4, <1>5, <1>6
  <1>8. 10 * M - 10 * x \in C
    BY <1>7 DEF C
  <1> QED
    BY <1>2, <1>3, <1>6, <1>8, <1>m

-----------------------------------------------------------------------------
(* What a transaction does to the epoch, its pool and the treasury.        *)

\* The fee, or what the account has of it, is all that a moves.
OnlyFee(a) ==
    /\ UNCHANGED <<seq, ownerCount, bonds, names, nameOf, epoch>>
    /\ treasury' >= treasury
    /\ Received(a) = 0

\* Account a gets pay out of the pool and out of the treasury.
Pays(a, pay) ==
    /\ epoch # NoEpoch /\ pay \in Nat /\ pay <= epoch.pool
    /\ epoch' = [epoch EXCEPT !.pool = @ - pay]
    /\ treasury' >= treasury - pay
    /\ Received(a) = pay
    /\ UNCHANGED <<seq, ownerCount, names, nameOf>>

\* An epoch of the ledger is well typed.
LEMMA EpochTyped ==
    ASSUME LedgerTypeOK, epoch # NoEpoch
    PROVE  /\ epoch \in Epoch
           /\ epoch.number \in Nat /\ epoch.start \in Nat /\ epoch.pool \in Nat
           /\ epoch.emission \in Nat /\ epoch.lpBps \in Nat /\ epoch.lpShares \in Nat
           /\ epoch.ammBps \in Nat /\ epoch.ammTvl \in Nat /\ epoch.aggregate \in Nat
  <1>1. epoch \in Epoch
    BY DEF LedgerTypeOK
  <1> QED
    BY <1>1 DEF Epoch

\* Lowering the pool by at most what is in it.
LEMMA PoolLowered ==
    ASSUME NEW e \in Epoch, NEW pay \in Nat, pay <= e.pool
    PROVE  [e EXCEPT !.pool = @ - pay] \in Epoch
  <1> DEFINE x == e.pool - pay
  <1>1. x \in Nat
    BY DEF Epoch
  <1>2. [e EXCEPT !.pool = @ - pay] = [e EXCEPT !.pool = x]
    OBVIOUS
  <1> HIDE DEF x
  <1>3. [e EXCEPT !.pool = x] \in Epoch
    BY <1>1 DEF Epoch
  <1> QED
    BY <1>2, <1>3

\* A claimed fee is all that the account loses.
LEMMA ClaimFeeOnly ==
    ASSUME LedgerTypeOK, NEW a \in Accounts, ClaimFee(a)
    PROVE  LedgerTypeOK' /\ OnlyFee(a)
  <1> DEFINE fee == Lesser(Fee, balance[a])
             v == [View EXCEPT !.balance[a] = @ - fee]
  <1>1. Commit(v, fee)
    BY DEF ClaimFee
  <1>2. v.balance = [balance EXCEPT ![a] = @ - fee]
    BY DEF View
  <1>3. balance'[a] = balance[a] - fee
    <2> HIDE DEF fee, v
    <2> QED
      BY <1>1, <1>2 DEF Commit, LedgerTypeOK
  <1>4. balance[a] \in Nat /\ fee \in Nat
    BY FeeAssumption DEF LedgerTypeOK, Lesser
  <1>5. Received(a) = 0
    BY <1>3, <1>4 DEF Received
  <1> QED
    BY <1>5, ClaimFeeEffect DEF OnlyFee

\* The view after the fee is well typed.
LEMMA PayFeeView ==
    ASSUME LedgerTypeOK, NEW a \in Accounts, balance[a] >= Fee,
           NEW v, v = PayFee(a)
    PROVE  /\ ViewOK(v) /\ v.burned = 0
           /\ v.balance = [balance EXCEPT ![a] = @ - Fee]
           /\ v.ownerCount = ownerCount /\ v.treasury = treasury /\ v.bonds = bonds
           /\ v.names = names /\ v.nameOf = nameOf /\ v.epoch = epoch
  <1>1. /\ v.balance = [balance EXCEPT ![a] = @ - Fee]
        /\ v.ownerCount = ownerCount /\ v.treasury = treasury /\ v.bonds = bonds
        /\ v.names = names /\ v.nameOf = nameOf /\ v.epoch = epoch /\ v.burned = 0
    BY PayFeeFields
  <1> QED
    BY <1>1, FeePaid DEF ViewOK, LedgerTypeOK

\* A transaction that changes no object of the ledger costs its fee.
LEMMA FeeOnlyEffect ==
    ASSUME LedgerTypeOK, NEW a \in Accounts, balance[a] >= Fee,
           NEW v, v = PayFee(a), Commit(v, Fee)
    PROVE  LedgerTypeOK' /\ OnlyFee(a)
  <1>1. /\ ViewOK(v) /\ v.burned = 0
        /\ v.balance = [balance EXCEPT ![a] = @ - Fee]
        /\ v.ownerCount = ownerCount /\ v.treasury = treasury /\ v.bonds = bonds
        /\ v.names = names /\ v.nameOf = nameOf /\ v.epoch = epoch
    BY PayFeeView
  <1>2. LedgerTypeOK' /\ treasury' >= treasury
    BY <1>1, FeeAssumption, CommitTyped
  <1>3. balance'[a] = balance[a] - Fee /\ balance[a] \in Nat
    BY <1>1 DEF Commit, LedgerTypeOK
  <1>4. Received(a) = 0
    BY <1>3, FeeAssumption DEF Received, Lesser
  <1> QED
    BY <1>1, <1>2, <1>4 DEF OnlyFee, Commit

\* A share of the validators' basket is a number.
LEMMA RewardPayTyped ==
    ASSUME LedgerTypeOK, NEW k \in Keys, Claimable(k)
    PROVE  /\ RewardShare(epoch, bonds[k]) \in Nat
           /\ RewardPay(epoch, bonds[k]) \in Nat
           /\ RewardPay(epoch, bonds[k]) <= epoch.pool
           /\ RewardPay(epoch, bonds[k]) <= RewardShare(epoch, bonds[k])
  <1>1. bonds[k] \in Bond /\ epoch # NoEpoch /\ epoch.aggregate # 0
    BY RegisteredTyped DEF Claimable, HasStatus
  <1>2. /\ epoch.emission \in Nat /\ epoch.lpBps \in Nat /\ epoch.ammBps \in Nat
        /\ epoch.aggregate \in Nat \ {0} /\ epoch.pool \in Nat
        /\ bonds[k].composite \in Nat
    BY <1>1, EpochTyped DEF Bond
  <1> DEFINE w == ValidatorBps(epoch)
             q == muldiv64(epoch.emission, w, BpsDenom)
  <1>3. w \in Nat
    BY <1>2, BpsAssumption DEF ValidatorBps, Lesser
  <1> HIDE DEF w
  <1>4. q \in Nat
    BY <1>2, <1>3, BpsAssumption, MuldivNat
  <1> HIDE DEF q
  <1>5. RewardShare(epoch, bonds[k]) \in Nat
    BY <1>2, <1>4, MuldivNat DEF RewardShare, q, w
  <1> QED
    BY <1>2, <1>5, LesserTyped DEF RewardPay

\* The view of a paying ClaimReward, one field at a time.
LEMMA ClaimFields ==
    ASSUME LedgerTypeOK, NEW a \in Accounts, NEW k \in Keys, Registered(k),
           epoch # NoEpoch, balance[a] >= Fee, NEW pay, pay = RewardPay(epoch, bonds[k]),
           pay # 0, NEW v, v = claimApply(PayFee(a), a, k)
    PROVE  /\ v.balance = [[balance EXCEPT ![a] = @ - Fee] EXCEPT ![a] = @ + pay]
           /\ v.treasury = treasury - pay
           /\ v.epoch = [epoch EXCEPT !.pool = @ - pay]
           /\ v.bonds = [bonds EXCEPT ![k] = [@ EXCEPT !.claimed = epoch.number]]
           /\ v.ownerCount = ownerCount /\ v.names = names /\ v.nameOf = nameOf
           /\ v.burned = 0
  BY PayFeeFields DEF claimApply

\* A bond that is marked as having claimed is still a bond, otherwise the same.
LEMMA MarkedTyped ==
    ASSUME NEW b \in Bond, NEW n \in Nat, NEW c, c = [b EXCEPT !.claimed = n]
    PROVE  /\ c \in Bond /\ c.owner = b.owner /\ c.amount = b.amount
           /\ c.status = b.status /\ c.start = b.start /\ c.mult = b.mult
           /\ c.slashes = b.slashes /\ c.composite = b.composite /\ c.claimed = n
  BY DEF Bond

\* The view of a ClaimReward is well typed: neither pool nor treasury is
\* overdrawn.
LEMMA ClaimView ==
    ASSUME LedgerTypeOK, NEW a \in Accounts, NEW k \in Keys, canClaim(a, k),
           balance[a] >= Fee, NEW v, v = claimApply(PayFee(a), a, k)
    PROVE  ViewOK(v) /\ v.burned = 0
  <1> DEFINE pay == RewardPay(epoch, bonds[k])
  <1>1. /\ Claimable(k) /\ Registered(k) /\ epoch # NoEpoch
        /\ bonds[k] \in Bond
    BY RegisteredTyped DEF canClaim, Claimable, HasStatus
  <1>2. /\ pay \in Nat /\ pay <= epoch.pool
        /\ RewardShare(epoch, bonds[k]) \in Nat /\ pay <= RewardShare(epoch, bonds[k])
    BY <1>1, RewardPayTyped
  <1>3. pay # 0 => treasury >= pay
    <2> HIDE DEF pay
    <2>1. pay # 0 => RewardShare(epoch, bonds[k]) > 0
      BY <1>2
    <2> QED
      BY <2>1 DEF canClaim, pay
  <1>4. CASE pay = 0
    <2>1. v = PayFee(a)
      <3>1. PayFee(a).epoch = epoch /\ PayFee(a).bonds = bonds
        BY PayFeeFields
      <3> QED
        BY <1>4, <3>1 DEF claimApply
    <2> QED
      BY <2>1, PayFeeView
  <1>5. CASE pay # 0
    <2>1. /\ v.balance = [[balance EXCEPT ![a] = @ - Fee] EXCEPT ![a] = @ + pay]
          /\ v.treasury = treasury - pay
          /\ v.epoch = [epoch EXCEPT !.pool = @ - pay]
          /\ v.bonds = [bonds EXCEPT ![k] = [@ EXCEPT !.claimed = epoch.number]]
          /\ v.ownerCount = ownerCount /\ v.names = names /\ v.nameOf = nameOf
          /\ v.burned = 0
      BY <1>1, <1>5, ClaimFields
    <2> HIDE DEF pay
    <2>2. v.epoch \in Epoch /\ epoch.number \in Nat
      BY <1>1, <1>2, <2>1, EpochTyped, PoolLowered
    <2>3. [bonds[k] EXCEPT !.claimed = epoch.number] \in Bond
      BY <1>1, <2>2, MarkedTyped
    <2>4. v.bonds \in [Keys -> Bond \cup {NoBond}]
      BY <2>1, <2>3 DEF LedgerTypeOK
    <2>5. v.balance \in [Accounts -> Nat]
      BY <1>2, <2>1, FeeAssumption DEF LedgerTypeOK
    <2>6. v.treasury \in Nat
      BY <1>2, <1>3, <1>5, <2>1 DEF LedgerTypeOK
    <2> QED
      BY <2>1, <2>2, <2>4, <2>5, <2>6 DEF ViewOK, LedgerTypeOK
  <1> QED
    BY <1>4, <1>5

\* What a paying claim of a validator does.
Rewards(a, k, pay) ==
    /\ Claimable(k) /\ pay > 0 /\ Pays(a, pay)
    /\ bonds' = [bonds EXCEPT ![k] = [@ EXCEPT !.claimed = epoch.number]]

\* ClaimReward pays out of pool and treasury and marks the bond, or costs its
\* fee.
LEMMA ClaimEffect ==
    ASSUME LedgerTypeOK, NEW a \in Accounts, NEW k \in Keys, ClaimReward(a, k)
    PROVE  /\ LedgerTypeOK' /\ UNCHANGED signed
           /\ OnlyFee(a) \/ \E pay \in Nat : Rewards(a, k, pay)
  <1> DEFINE v == claimApply(PayFee(a), a, k)
             pay == RewardPay(epoch, bonds[k])
  <1>0. UNCHANGED signed
    BY DEF ClaimReward
  <1>1. CASE ClaimFee(a)
    BY <1>0, <1>1, ClaimFeeOnly
  <1>2. CASE balance[a] >= Fee /\ canClaim(a, k) /\ Commit(v, Fee)
    <2>1. Claimable(k) /\ Registered(k) /\ epoch # NoEpoch
      BY <1>2 DEF canClaim, Claimable, HasStatus
    <2>2. pay \in Nat /\ pay <= epoch.pool
      BY <2>1, RewardPayTyped
    <2>3. CASE pay = 0
      <3>1. v = PayFee(a)
        <4>1. PayFee(a).epoch = epoch /\ PayFee(a).bonds = bonds
          BY PayFeeFields
        <4> QED
          BY <2>3, <4>1 DEF claimApply
      <3> QED
        BY <1>0, <1>2, <3>1, FeeOnlyEffect
    <2>4. CASE pay # 0
      <3>1. /\ v.balance = [[balance EXCEPT ![a] = @ - Fee] EXCEPT ![a] = @ + pay]
            /\ v.treasury = treasury - pay
            /\ v.epoch = [epoch EXCEPT !.pool = @ - pay]
            /\ v.bonds = [bonds EXCEPT ![k] = [@ EXCEPT !.claimed = epoch.number]]
            /\ v.ownerCount = ownerCount /\ v.names = names /\ v.nameOf = nameOf
            /\ v.burned = 0
        BY <1>2, <2>1, <2>4, ClaimFields
      <3>2. ViewOK(v)
        BY <1>2, ClaimView
      <3> HIDE DEF v, pay
      <3>3. LedgerTypeOK' /\ treasury' >= treasury - pay
        BY <1>2, <3>1, <3>2, FeeAssumption, CommitTyped
      <3>4. /\ balance'[a] = balance[a] - Fee + pay /\ balance[a] \in Nat
        BY <1>2, <2>2, <3>1 DEF Commit, LedgerTypeOK
      <3>5. Received(a) = pay
        BY <1>2, <2>2, <3>4, FeeAssumption DEF Received, Lesser
      <3>6. Pays(a, pay)
        BY <1>2, <2>1, <2>2, <3>1, <3>3, <3>5 DEF Pays, Commit
      <3>7. Rewards(a, k, pay)
        BY <1>2, <2>1, <2>2, <2>4, <3>1, <3>6 DEF Rewards, Commit
      <3> QED
        BY <1>0, <2>2, <3>3, <3>7
    <2> QED
      BY <2>3, <2>4
  <1> QED
    BY <1>1, <1>2 DEF ClaimReward, Transact, Succeeds

\* The view of a claim of a liquidity provider, one field at a time.
LEMMA LpClaimFields ==
    ASSUME NEW a \in Accounts, NEW share, NEW pay, pay = Lesser(share, epoch.pool),
           NEW v, v = lpClaimApply(PayFee(a), a, share)
    PROVE  /\ v.balance = [[balance EXCEPT ![a] = @ - Fee] EXCEPT ![a] = @ + pay]
           /\ v.treasury = treasury - pay
           /\ v.epoch = [epoch EXCEPT !.pool = @ - pay]
           /\ v.bonds = bonds
           /\ v.ownerCount = ownerCount /\ v.names = names /\ v.nameOf = nameOf
           /\ v.burned = 0
  BY PayFeeFields DEF lpClaimApply

\* The view of a claim of a liquidity provider is well typed.
LEMMA LpClaimView ==
    ASSUME LedgerTypeOK, NEW a \in Accounts, NEW share \in Nat, epoch # NoEpoch,
           lpClaimFunded(share), balance[a] >= Fee,
           NEW v, v = lpClaimApply(PayFee(a), a, share)
    PROVE  ViewOK(v) /\ v.burned = 0
  <1> DEFINE pay == Lesser(share, epoch.pool)
  <1>1. epoch \in Epoch /\ epoch.pool \in Nat
    BY EpochTyped
  <1>2. pay \in Nat /\ pay <= epoch.pool /\ pay <= share
    BY <1>1, LesserTyped
  <1>3. /\ v.balance = [[balance EXCEPT ![a] = @ - Fee] EXCEPT ![a] = @ + pay]
        /\ v.treasury = treasury - pay
        /\ v.epoch = [epoch EXCEPT !.pool = @ - pay]
        /\ v.bonds = bonds
        /\ v.ownerCount = ownerCount /\ v.names = names /\ v.nameOf = nameOf
        /\ v.burned = 0
    BY LpClaimFields
  <1>4. treasury >= pay /\ treasury \in Nat
    <2>1. CASE share > 0
      BY <2>1 DEF lpClaimFunded, LedgerTypeOK
    <2>2. CASE ~(share > 0)
      <3> HIDE DEF pay
      <3> QED
        BY <1>2, <2>2 DEF LedgerTypeOK
    <2> QED
      BY <2>1, <2>2
  <1> HIDE DEF pay
  <1>5. v.epoch \in Epoch
    BY <1>1, <1>2, <1>3, PoolLowered
  <1>6. v.balance \in [Accounts -> Nat]
    BY <1>2, <1>3, FeeAssumption DEF LedgerTypeOK
  <1>7. v.treasury \in Nat
    BY <1>2, <1>3, <1>4
  <1> QED
    BY <1>3, <1>5, <1>6, <1>7 DEF ViewOK, LedgerTypeOK

\* What a claim of a provider on pool p does when it succeeds.
Provides(a, p, share) ==
    /\ \E pay \in Nat : pay <= share /\ Pays(a, pay)
    /\ UNCHANGED bonds
    /\ lastClaim' = IF share > 0 THEN [lastClaim EXCEPT ![p][a] = epoch.number]
                    ELSE lastClaim

\* A claim of a provider pays at most its share, out of pool and treasury, and
\* leaves its mark, or costs its fee.
LEMMA LpClaimEffect ==
    ASSUME LedgerTypeOK, NEW a \in Accounts, NEW p, NEW ok, NEW share \in Nat,
           ok => epoch # NoEpoch, LpClaim(a, p, ok, share)
    PROVE  /\ LedgerTypeOK'
           /\ \/ OnlyFee(a) /\ UNCHANGED lastClaim
              \/ ok /\ Provides(a, p, share)
  <1> DEFINE can == ok /\ lpClaimFunded(share)
             v == lpClaimApply(PayFee(a), a, share)
             pay == Lesser(share, epoch.pool)
  <1>1. CASE ~Succeeds(a, can, v, FALSE)
    <2>1. ClaimFee(a) /\ UNCHANGED lastClaim
      BY <1>1 DEF LpClaim, Transact
    <2> QED
      BY <2>1, ClaimFeeOnly
  <1>2. CASE Succeeds(a, can, v, FALSE)
    <2>1. /\ Commit(v, Fee) /\ balance[a] >= Fee /\ ok /\ lpClaimFunded(share)
          /\ epoch # NoEpoch
          /\ lastClaim' = IF share > 0 THEN [lastClaim EXCEPT ![p][a] = epoch.number]
                          ELSE lastClaim
      BY <1>2 DEF LpClaim, Transact, Succeeds
    <2>2. /\ v.balance = [[balance EXCEPT ![a] = @ - Fee] EXCEPT ![a] = @ + pay]
          /\ v.treasury = treasury - pay
          /\ v.epoch = [epoch EXCEPT !.pool = @ - pay]
          /\ v.bonds = bonds
          /\ v.ownerCount = ownerCount /\ v.names = names /\ v.nameOf = nameOf
          /\ v.burned = 0
      BY LpClaimFields
    <2>3. ViewOK(v)
      BY <2>1, LpClaimView
    <2>4. pay \in Nat /\ pay <= epoch.pool /\ pay <= share
      BY <2>1, EpochTyped, LesserTyped
    <2> HIDE DEF v, pay, can
    <2>5. LedgerTypeOK' /\ treasury' >= treasury - pay
      BY <2>1, <2>2, <2>3, FeeAssumption, CommitTyped
    <2>6. balance'[a] = balance[a] - Fee + pay /\ balance[a] \in Nat
      BY <2>1, <2>2, <2>4 DEF Commit, LedgerTypeOK
    <2>7. Received(a) = pay
      BY <2>1, <2>4, <2>6, FeeAssumption DEF Received, Lesser
    <2>8. Pays(a, pay)
      BY <2>1, <2>2, <2>4, <2>5, <2>7 DEF Pays, Commit
    <2>9. Provides(a, p, share)
      BY <2>1, <2>2, <2>4, <2>8 DEF Provides, Commit
    <2> QED
      BY <2>1, <2>5, <2>9
  <1> QED
    BY <1>1, <1>2

\* A transaction that moves shares or tokens costs its fee.
LEMMA MoveEffect ==
    ASSUME LedgerTypeOK, NEW a \in Accounts, Transact(a, TRUE, PayFee(a), FALSE)
    PROVE  LedgerTypeOK' /\ OnlyFee(a)
  BY ClaimFeeOnly, FeeOnlyEffect DEF Transact, Succeeds

-----------------------------------------------------------------------------
(* Shares, snapshots and epochs are well typed.                            *)

\* The tokens of an AMM stay within what one normalised mantissa can hold.
TokensBounded == \A m \in Amms : Supply(tokens[m]) <= MaxTokens

\* The vault shares in circulation are a number.
LEMMA SupplyTyped ==
    ASSUME shares \in [Vaults -> [Accounts -> Nat]]
    PROVE  /\ aggregateVaultShareSupply \in Nat
           /\ \A v \in Vaults : Supply(shares[v]) \in Nat
  <1>1. ASSUME NEW v \in Vaults
        PROVE  SumFunction(shares[v]) \in Nat
    <2>1. shares[v] \in [Accounts -> Nat] /\ shares[v] \in [Accounts -> Int]
      OBVIOUS
    <2> QED
      BY <2>1, FiniteAssumption, SumTyped
  <1> DEFINE f == [v \in Vaults |-> SumFunction(shares[v])]
  <1>2. f \in [Vaults -> Nat] /\ f \in [Vaults -> Int]
    BY <1>1
  <1> HIDE DEF f
  <1>3. SumFunction(f) \in Nat
    BY <1>2, LPAssumption, SumTyped
  <1> QED
    BY <1>1, <1>3 DEF aggregateVaultShareSupply, Supply, f

\* The share of a vault provider is a number.
LEMMA VaultShareTyped ==
    ASSUME LedgerTypeOK, shares \in [Vaults -> [Accounts -> Nat]],
           NEW a \in Accounts, NEW v \in Vaults, canClaimVault(a, v)
    PROVE  vaultShare(epoch, a, v) \in Nat
  <1>1. /\ epoch.emission \in Nat /\ epoch.lpBps \in Nat /\ epoch.lpShares \in Nat
        /\ epoch.lpShares # 0
    BY EpochTyped DEF canClaimVault
  <1> DEFINE d == Greater(epoch.lpShares, aggregateVaultShareSupply)
             b == Basket(epoch, epoch.lpBps)
  <1>2. d \in Nat \ {0}
    BY <1>1, SupplyTyped DEF Greater
  <1>3. b \in Nat
    BY <1>1, BpsAssumption, MuldivNat DEF Basket
  <1>4. shares[v][a] \in Nat
    OBVIOUS
  <1> HIDE DEF d, b
  <1>5. muldiv64(b, shares[v][a], d) \in Nat
    BY <1>2, <1>3, <1>4, MuldivNat
  <1> QED
    BY <1>5 DEF vaultShare, d, b

\* The share of an AMM provider is a number.
LEMMA AmmShareTyped ==
    ASSUME LedgerTypeOK, tokens \in [Amms -> [Accounts -> Nat]], TokensBounded,
           NEW a \in Accounts, NEW m \in Amms, canClaimAmm(a, m)
    PROVE  ammShare(epoch, a, m) \in Nat
  <1>1. /\ epoch.emission \in Nat /\ epoch.ammBps \in Nat /\ epoch.ammTvl \in Nat
        /\ epoch.ammTvl # 0
    BY EpochTyped DEF canClaimAmm
  <1> DEFINE d == Greater(epoch.ammTvl, liveAggregateNativeAmmTvl)
             b == Basket(epoch, epoch.ammBps)
             q == muldiv64(b, AmmReserve, d)
             x == positiveMantissa(tokens[m][a])
             y == positiveMantissa(Supply(tokens[m]))
  <1>2. d \in Nat \ {0}
    <2>1. Cardinality(Amms) \in Nat
      BY LPAssumption, FS_CardinalityType
    <2>2. liveAggregateNativeAmmTvl \in Nat
      BY <2>1, LPAssumption DEF liveAggregateNativeAmmTvl
    <2> QED
      BY <1>1, <2>2 DEF Greater
  <1>3. b \in Nat
    BY <1>1, BpsAssumption, MuldivNat DEF Basket
  <1> HIDE DEF d, b
  <1>4. q \in Nat
    BY <1>2, <1>3, LPAssumption, MuldivNat
  <1>5. /\ tokens[m][a] \in Nat \ {0} /\ Supply(tokens[m]) \in Nat
        /\ tokens[m][a] <= Supply(tokens[m]) /\ Supply(tokens[m]) <= MaxTokens
    <2>1. tokens[m] \in [Accounts -> Nat] /\ tokens[m] \in [Accounts -> Int]
      OBVIOUS
    <2>2. SumFunction(tokens[m]) \in Nat /\ tokens[m][a] <= SumFunction(tokens[m])
      BY <2>1, FiniteAssumption, SumTyped
    <2> QED
      BY <2>1, <2>2 DEF canClaimAmm, Supply, TokensBounded
  <1>6. /\ tokens[m][a] \in 1..(10 * MinMantissa - 1)
        /\ Supply(tokens[m]) \in 1..(10 * MinMantissa - 1)
    BY <1>5, LPAssumption
  <1>7. x \in Nat \ {0} /\ y \in Nat \ {0}
    BY <1>5, <1>6, NormalizeRange, LPAssumption DEF positiveMantissa
  <1> HIDE DEF q, x, y
  <1>8. muldiv64(q, x, y) \in Nat
    BY <1>4, <1>7, MuldivNat
  <1> QED
    BY <1>8 DEF ammShare, q, x, y, b, d

\* What the close reads of the providers.
LEMMA SnapshotsTyped ==
    ASSUME shares \in [Vaults -> [Accounts -> Nat]]
    PROVE  /\ VaultSnapshot.providers \in Nat /\ VaultSnapshot.total \in Nat
           /\ VaultSnapshot.total = aggregateVaultShareSupply
           /\ AmmSnapshot.providers \in Nat /\ AmmSnapshot.total \in Nat
  <1>1. \A S \in SUBSET Accounts : Cardinality(S) \in Nat
    BY FiniteAssumption, FS_Subset, FS_CardinalityType
  <1>2. countActiveLpProviders \in Nat /\ countAmmLpProviders \in Nat
    BY <1>1 DEF countActiveLpProviders, countAmmLpProviders
  <1>3. Cardinality(Amms) \in Nat
    BY LPAssumption, FS_CardinalityType
  <1>4. liveAggregateNativeAmmTvl \in Nat
    BY <1>3, LPAssumption DEF liveAggregateNativeAmmTvl
  <1> QED
    BY <1>2, <1>4, SupplyTyped DEF VaultSnapshot, AmmSnapshot

\* The basis points of the providers are a number.
LEMMA ParticipationTyped ==
    ASSUME NEW n \in Nat
    PROVE  poplLpParticipationBps(n) \in Nat
  <1> DEFINE x == Lesser(n, MaxProviders)
             y == x * BpsPerProvider
  <1>1. x \in Nat
    BY EpochAssumption, LesserTyped
  <1> HIDE DEF x
  <1>2. y \in Nat
    BY <1>1, EpochAssumption
  <1> HIDE DEF y
  <1>3. Lesser(y, MaxLpBps) \in Nat
    BY <1>2, EpochAssumption, LesserTyped
  <1> QED
    BY <1>3 DEF poplLpParticipationBps, x, y

\* A new epoch commits a part of the treasury, all of it emitted and none of it
\* paid.
LEMMA NewEpochTyped ==
    ASSUME NEW t \in Nat, NEW s \in Nat, s <= MaxSeq, NEW lp, NEW amm,
           lp.providers \in Nat, lp.total \in Nat,
           amm.providers \in Nat, amm.total \in Nat,
           NEW e, e = NewEpoch(t, s, lp, amm)
    PROVE  /\ e \in Epoch
           /\ e.number = s \div EpochLedgers /\ e.start = s
           /\ e.pool <= t /\ e.emission = e.pool /\ e.lpShares = lp.total
           /\ e.aggregate = 0
  <1> DEFINE n == s \div EpochLedgers
             bps == IF n < FirstEmissionEpoch THEN 0 ELSE EmissionBps(n)
             pool == muldiv64(t, bps, BpsDenom)
             lb == poplLpParticipationBps(lp.providers)
             ab == poplLpParticipationBps(amm.providers)
             bb == PressureBurnBps(t)
  <1>1. n \in Nat /\ n \in 0..MaxSeq
    <2>1. \A x \in Nat, d \in Nat \ {0} : x \div d \in Nat /\ x \div d <= x
      OBVIOUS
    <2> QED
      BY <2>1, EpochAssumption, BondAssumption
  <1> HIDE DEF n
  <1>2. bps \in 0..BpsDenom
    BY <1>1, EpochAssumption, BpsAssumption
  <1> HIDE DEF bps
  <1>3. pool \in Nat /\ pool <= t
    BY <1>2, BpsAssumption, MuldivIsPart
  <1>4. lb \in Nat /\ ab \in Nat
    BY ParticipationTyped
  <1>5. bb \in Nat
    <2> DEFINE x == ((t \div TreasuryPerBps) * TreasurySensitivity) \div BpsDenom
    <2>1. t \div TreasuryPerBps \in Nat
      BY EpochAssumption
    <2>2. (t \div TreasuryPerBps) * TreasurySensitivity \in Nat
      BY <2>1, EpochAssumption
    <2>3. x \in Nat
      BY <2>2, BpsAssumption
    <2> HIDE DEF x
    <2> QED
      BY <2>3, BpsAssumption DEF PressureBurnBps, Clamp, x
  <1>6. <<>> \in Seq(Proposals)
    OBVIOUS
  <1>7. e = [number |-> n, start |-> s, pool |-> pool, emission |-> pool,
             lpBps |-> lb, lpShares |-> lp.total,
             ammBps |-> ab, ammTvl |-> amm.total,
             aggregate |-> 0, burnBps |-> bb, proposals |-> <<>>]
    BY DEF NewEpoch, n, bps
  <1> HIDE DEF pool, lb, ab, bb
  <1>8. e \in Epoch
    BY <1>1, <1>3, <1>4, <1>5, <1>6, <1>7 DEF Epoch
  <1> QED
    BY <1>3, <1>7, <1>8 DEF n

\* Scoring changes the composite score of a bond only.
LEMMA ScoreTyped ==
    ASSUME NEW b \in Bond, NEW raw \in Nat, NEW c, c = ScoreBond(b, raw)
    PROVE  /\ c \in Bond /\ c.owner = b.owner /\ c.amount = b.amount
           /\ c.status = b.status /\ c.start = b.start /\ c.mult = b.mult
           /\ c.slashes = b.slashes /\ c.claimed = b.claimed
  <1> DEFINE r == (raw * b.mult) \div BpsDenom
             x == emaComposite(r, b.composite)
  <1>1. b.mult \in Nat /\ b.composite \in Nat
    BY DEF Bond
  <1>2. r \in Nat
    <2>1. raw * b.mult \in Nat
      BY <1>1
    <2> QED
      BY <2>1, BpsAssumption
  <1> HIDE DEF r
  <1>3. x \in Nat
    <2>1. r * EmaNewBps \in Nat
      BY <1>2, EpochAssumption, BpsAssumption
    <2>2. BpsDenom - EmaNewBps \in Nat
      BY EpochAssumption, BpsAssumption
    <2>3. b.composite * (BpsDenom - EmaNewBps) \in Nat
      BY <1>1, <2>2
    <2>4. (r * EmaNewBps + b.composite * (BpsDenom - EmaNewBps)) \div BpsDenom \in Nat
      BY <2>1, <2>3, BpsAssumption
    <2> QED
      BY <1>2, <2>4 DEF emaComposite
  <1>4. c = [b EXCEPT !.composite = x]
    BY DEF ScoreBond, r
  <1> HIDE DEF x
  <1> QED
    BY <1>3, <1>4 DEF Bond

\* The score that a bond adds to the aggregate.
Earning(b) == IF b # NoBond /\ b.status = "BONDED" THEN b.composite ELSE 0

\* The aggregate of the bonded scores, as a sum over all keys.
LEMMA AggregateSum ==
    ASSUME NEW bs \in [Keys -> Bond \cup {NoBond}]
    PROVE  /\ [k \in Keys |-> Earning(bs[k])] \in [Keys -> Nat]
           /\ sumAggregateComposites(bs) = SumFunction([k \in Keys |-> Earning(bs[k])])
           /\ sumAggregateComposites(bs) \in Nat
  <1> DEFINE B == BondedIn(bs)
             f == [k \in Keys |-> Earning(bs[k])]
             g == [k \in B |-> bs[k].composite]
  <1>1. f \in [Keys -> Nat]
    BY DEF Earning, Bond
  <1>2. B \in SUBSET Keys /\ (\A k \in Keys \ B : f[k] = 0) /\ (\A k \in B : f[k] = g[k])
    BY DEF BondedIn, Earning
  <1>3. IsFiniteSet(B) /\ IntOn(f, Keys)
    BY <1>1, <1>2, FiniteAssumption, FS_Subset DEF IntOn
  <1>4. SumFunction(g) = SumFunctionOnSet(g, B) /\ SumFunction(f) = SumFunctionOnSet(f, Keys)
    BY DEF SumFunction
  <1> HIDE DEF B, f, g
  <1>5. SumFunctionOnSet(f, Keys) = SumFunctionOnSet(f, B)
    BY <1>2, <1>3, FiniteAssumption, SumSupport
  <1>6. SumFunctionOnSet(f, B) = SumFunctionOnSet(g, B)
    BY <1>2, <1>3, SumSame
  <1>7. f \in [Keys -> Int]
    BY <1>1
  <1>8. SumFunction(f) \in Nat
    BY <1>1, <1>7, FiniteAssumption, SumTyped
  <1> QED
    BY <1>1, <1>4, <1>5, <1>6, <1>8 DEF sumAggregateComposites, f, g, B

\* Scoring a bond, or not, changes its composite score only.
Rescored(b, c) ==
    /\ b = NoBond <=> c = NoBond
    /\ b # NoBond =>
         /\ c.owner = b.owner /\ c.amount = b.amount /\ c.status = b.status
         /\ c.start = b.start /\ c.mult = b.mult /\ c.slashes = b.slashes
         /\ c.claimed = b.claimed
         /\ b.status # "BONDED" => c = b

\* The scoring phase keeps the bonds well typed and changes scores only.
LEMMA ScoredTyped ==
    ASSUME NEW bs \in [Keys -> Bond \cup {NoBond}], NEW s, NEW raw \in [Keys -> RawScores],
           NEW cs, cs = scoredBonds(bs, s, raw)
    PROVE  /\ cs \in [Keys -> Bond \cup {NoBond}]
           /\ \A k \in Keys : Rescored(bs[k], cs[k])
           /\ ~ScoringLedger(s) => cs = bs
  <1>1. CASE ~ScoringLedger(s)
    BY <1>1 DEF scoredBonds, Rescored
  <1>2. CASE ScoringLedger(s)
    <2>1. cs = [k \in Keys |->
                  IF k \in BondedIn(bs) THEN ScoreBond(bs[k], raw[k]) ELSE bs[k]]
      BY <1>2 DEF scoredBonds
    <2>2. ASSUME NEW k \in Keys
          PROVE  cs[k] \in Bond \cup {NoBond} /\ Rescored(bs[k], cs[k])
      <3>1. CASE k \in BondedIn(bs)
        <4>0. raw[k] \in Nat
          <5>1. raw[k] \in RawScores
            OBVIOUS
          <5>2. RawScores \subseteq 0..BpsDenom /\ BpsDenom \in Nat
            BY EpochAssumption, BpsAssumption
          <5>3. raw[k] \in 0..BpsDenom
            BY <5>1, <5>2, Zenon
          <5> QED
            BY <5>2, <5>3
        <4>1. bs[k] \in Bond /\ bs[k] # NoBond /\ bs[k].status = "BONDED" /\ raw[k] \in Nat
          <5>1. bs[k] # NoBond /\ bs[k].status = "BONDED"
            BY <3>1 DEF BondedIn
          <5>2. bs[k] \in Bond \cup {NoBond}
            OBVIOUS
          <5> QED
            BY <4>0, <5>1, <5>2
        <4>2. cs[k] = ScoreBond(bs[k], raw[k])
          BY <2>1, <3>1
        <4>3. /\ cs[k] \in Bond /\ cs[k].owner = bs[k].owner
              /\ cs[k].amount = bs[k].amount /\ cs[k].status = bs[k].status
              /\ cs[k].start = bs[k].start /\ cs[k].mult = bs[k].mult
              /\ cs[k].slashes = bs[k].slashes /\ cs[k].claimed = bs[k].claimed
          BY <4>1, <4>2, ScoreTyped
        <4> QED
          BY <4>1, <4>3, AbsentAssumption DEF Rescored
      <3>2. CASE k \notin BondedIn(bs)
        BY <2>1, <3>2 DEF Rescored
      <3> QED
        BY <3>1, <3>2
    <2> QED
      BY <1>2, <2>1, <2>2
  <1> QED
    BY <1>1, <1>2

\* The epoch phase of a close opens an epoch with a part of the treasury.
Opens ==
    /\ seq % EpochLedgers = 0 /\ treasury > 0
    /\ epoch' # NoEpoch /\ epoch'.start = seq
    /\ epoch'.number = seq \div EpochLedgers
    /\ epoch'.pool <= treasury /\ epoch'.emission = epoch'.pool
    /\ epoch'.lpShares = aggregateVaultShareSupply

\* The epoch phase leaves the epoch as it is.
Stays ==
    /\ ~(seq % EpochLedgers = 0 /\ treasury > 0)
    /\ epoch = NoEpoch <=> epoch' = NoEpoch
    /\ epoch # NoEpoch =>
         /\ epoch'.number = epoch.number /\ epoch'.start = epoch.start
         /\ epoch'.pool = epoch.pool /\ epoch'.emission = epoch.emission
         /\ epoch'.lpBps = epoch.lpBps /\ epoch'.lpShares = epoch.lpShares

\* Writing the aggregate keeps an epoch well typed and the rest of it.
LEMMA AggregateTyped ==
    ASSUME NEW e \in Epoch, NEW n \in Nat, NEW d, d = [e EXCEPT !.aggregate = n]
    PROVE  /\ d \in Epoch /\ d # NoEpoch /\ d.aggregate = n
           /\ d.number = e.number /\ d.start = e.start /\ d.pool = e.pool
           /\ d.emission = e.emission /\ d.lpBps = e.lpBps /\ d.lpShares = e.lpShares
  <1>1. d \in Epoch
    BY DEF Epoch
  <1>2. /\ d.aggregate = n
        /\ d.number = e.number /\ d.start = e.start /\ d.pool = e.pool
        /\ d.emission = e.emission /\ d.lpBps = e.lpBps /\ d.lpShares = e.lpShares
    BY DEF Epoch
  <1> QED
    BY <1>1, <1>2, AbsentAssumption

\* d is the epoch e, with some list of proposals.
Relisted(e, d) ==
    /\ d \in Epoch \cup {NoEpoch} /\ (d = NoEpoch <=> e = NoEpoch)
    /\ e # NoEpoch =>
         /\ d.number = e.number /\ d.start = e.start /\ d.pool = e.pool
         /\ d.emission = e.emission /\ d.lpBps = e.lpBps /\ d.lpShares = e.lpShares
         /\ d.aggregate = e.aggregate

\* The aggregate stays what it was.
AggregateStays == epoch # NoEpoch => epoch'.aggregate = epoch.aggregate

\* A close opens an epoch or keeps the one there is; on a scoring ledger the
\* aggregate is then that of the new scores. It may change the list.
LEMMA CloseEffect ==
    ASSUME LpTypeOK, NEW raw \in [Keys -> RawScores], NEW c, CloseWith(c, raw),
           closedEpoch(VaultSnapshot, AmmSnapshot, raw) \in Epoch \cup {NoEpoch}
             => Relisted(closedEpoch(VaultSnapshot, AmmSnapshot, raw), c)
    PROVE  /\ TypeOK' /\ seq' = seq + 1
           /\ \A k \in Keys : Rescored(bonds[k], bonds'[k])
           /\ Opens \/ Stays
           /\ ScoringLedger(seq) /\ epoch' # NoEpoch
                => epoch'.aggregate = sumAggregateComposites(bonds')
           /\ ~ScoringLedger(seq)
                => /\ bonds' = bonds
                   /\ Stays => AggregateStays
                   /\ Opens => epoch'.aggregate = 0
  <1>t. /\ LedgerTypeOK /\ seq \in Nat /\ seq <= MaxSeq /\ treasury \in Nat
        /\ bonds \in [Keys -> Bond \cup {NoBond}]
        /\ epoch \in Epoch \cup {NoEpoch} /\ shares \in [Vaults -> [Accounts -> Nat]]
        /\ signed \subseteq Validation
    BY DEF LpTypeOK, EpochTypeOK, TypeOK, LedgerTypeOK
  <1> DEFINE e1 == applyRewardEpoch(epoch, treasury, seq, VaultSnapshot, AmmSnapshot)
             e2 == NewEpoch(treasury, seq, VaultSnapshot, AmmSnapshot)
             cs == scoredBonds(bonds, seq, raw)
             e3 == scoredEpoch(e1, cs, seq)
  <1>0. /\ bonds' = cs /\ epoch' = c
        /\ seq < MaxSeq /\ seq' = seq + 1
        /\ UNCHANGED <<balance, ownerCount, treasury, drops, names, nameOf, signed>>
        /\ e3 \in Epoch \cup {NoEpoch} => Relisted(e3, c)
    BY DEF CloseWith, closedEpoch, NextLedger
  <1>1. /\ cs \in [Keys -> Bond \cup {NoBond}]
        /\ \A k \in Keys : Rescored(bonds[k], cs[k])
        /\ ~ScoringLedger(seq) => cs = bonds
    BY <1>t, ScoredTyped
  <1>2. /\ e2 \in Epoch
        /\ e2.number = seq \div EpochLedgers /\ e2.start = seq
        /\ e2.pool <= treasury /\ e2.emission = e2.pool
        /\ e2.lpShares = aggregateVaultShareSupply /\ e2.aggregate = 0
    <2>1. /\ VaultSnapshot.providers \in Nat /\ VaultSnapshot.total \in Nat
          /\ VaultSnapshot.total = aggregateVaultShareSupply
          /\ AmmSnapshot.providers \in Nat /\ AmmSnapshot.total \in Nat
      BY <1>t, SnapshotsTyped
    <2>2. /\ e2 \in Epoch
          /\ e2.number = seq \div EpochLedgers /\ e2.start = seq
          /\ e2.pool <= treasury /\ e2.emission = e2.pool
          /\ e2.lpShares = VaultSnapshot.total /\ e2.aggregate = 0
      BY <1>t, <2>1, NewEpochTyped
    <2> QED
      BY <2>1, <2>2
  <1>3. e1 = IF seq % EpochLedgers = 0 /\ treasury > 0 THEN e2 ELSE epoch
    BY DEF applyRewardEpoch
  <1> HIDE DEF e1, e2, cs, e3
  <1>4. e1 \in Epoch \cup {NoEpoch}
    BY <1>t, <1>2, <1>3
  <1>5. sumAggregateComposites(cs) \in Nat
    BY <1>1, AggregateSum
  <1> DEFINE n == sumAggregateComposites(cs)
             d == [e1 EXCEPT !.aggregate = n]
  <1>6. e3 = IF ScoringLedger(seq) /\ e1 # NoEpoch THEN d ELSE e1
    BY DEF scoredEpoch, e3
  <1>7. e1 # NoEpoch =>
          /\ d \in Epoch /\ d # NoEpoch /\ d.aggregate = n
          /\ d.number = e1.number /\ d.start = e1.start /\ d.pool = e1.pool
          /\ d.emission = e1.emission /\ d.lpBps = e1.lpBps /\ d.lpShares = e1.lpShares
    BY <1>4, <1>5, AggregateTyped
  <1> HIDE DEF d
  <1>r. e3 \in Epoch \cup {NoEpoch} /\ (e3 = NoEpoch <=> e1 = NoEpoch)
    BY <1>4, <1>6, <1>7
  <1>s. Relisted(e3, epoch')
    BY <1>0, <1>r
  <1>8. epoch' \in Epoch \cup {NoEpoch} /\ (epoch' = NoEpoch <=> e1 = NoEpoch)
    BY <1>r, <1>s DEF Relisted
  <1>9. TypeOK'
    BY <1>0, <1>1, <1>8, <1>t, BondAssumption DEF TypeOK, LedgerTypeOK
  <1>10. e1 # NoEpoch =>
          /\ epoch'.number = e1.number /\ epoch'.start = e1.start /\ epoch'.pool = e1.pool
          /\ epoch'.emission = e1.emission /\ epoch'.lpBps = e1.lpBps
          /\ epoch'.lpShares = e1.lpShares
          /\ epoch'.aggregate = IF ScoringLedger(seq) THEN n ELSE e1.aggregate
    BY <1>6, <1>7, <1>r, <1>s DEF Relisted
  <1>11. CASE seq % EpochLedgers = 0 /\ treasury > 0
    <2>1. e1 = e2 /\ e1 # NoEpoch
      BY <1>2, <1>3, <1>11, AbsentAssumption
    <2>2. Opens /\ ~Stays
      BY <1>2, <1>8, <1>10, <1>11, <2>1 DEF Opens, Stays
    <2> QED
      BY <1>0, <1>1, <1>2, <1>8, <1>9, <1>10, <2>1, <2>2
  <1>12. CASE ~(seq % EpochLedgers = 0 /\ treasury > 0)
    <2>1. e1 = epoch
      BY <1>3, <1>12
    <2>2. Stays /\ ~Opens
      BY <1>8, <1>10, <1>12, <2>1 DEF Opens, Stays
    <2> QED
      BY <1>0, <1>1, <1>8, <1>9, <1>10, <2>1, <2>2 DEF AggregateStays
  <1> QED
    BY <1>11, <1>12

-----------------------------------------------------------------------------
(* The kinds of transactions, by what they do to the rewards.              *)

\* The liquidity providers' side of the ledger.
Positions == <<shares, tokens, lastClaim, lpPaid, moved>>

\* A bond transaction.
BondMoves ==
    /\ \E a \in Accounts, k \in Keys : BondTx(a, k)
    /\ UNCHANGED <<epoch, claims, paid, Positions>>

\* Nobody is paid. Shares and tokens may move.
Moves ==
    /\ UNCHANGED <<bonds, epoch, claims, paid, lastClaim, lpPaid>>
    /\ \/ UNCHANGED <<shares, moved>>
       \/ \E how \in {"mint", "burn", "send"} :
            /\ moved' = moved \cup {how}
            /\ how = "burn" =>
                 \E v \in Vaults, a \in Accounts :
                     /\ shares[v][a] > 0
                     /\ shares' = [shares EXCEPT ![v][a] = @ - 1]

\* Key k of account a is paid.
KeyPaid(a, k, pay) ==
    /\ Rewards(a, k, pay)
    /\ paid' = paid + pay /\ claims' = [claims EXCEPT ![k] = @ + 1]
    /\ UNCHANGED Positions

\* A provider a is paid for its shares of vault v.
VaultPaid(a, v, pay) ==
    /\ canClaimVault(a, v) /\ Pays(a, pay) /\ pay <= vaultShare(epoch, a, v)
    /\ paid' = paid + pay /\ lpPaid' = lpPaid + pay
    /\ lastClaim' = IF vaultShare(epoch, a, v) > 0
                    THEN [lastClaim EXCEPT ![v][a] = epoch.number] ELSE lastClaim
    /\ UNCHANGED <<bonds, claims, shares, tokens, moved>>

\* A provider a is paid for its tokens of AMM m.
AmmPaid(a, m, pay) ==
    /\ Pays(a, pay)
    /\ paid' = paid + pay
    /\ \/ UNCHANGED lastClaim
       \/ lastClaim' = [lastClaim EXCEPT ![m][a] = epoch.number]
    /\ UNCHANGED <<bonds, claims, shares, tokens, moved, lpPaid>>

\* What every transaction is.
Transacts ==
    /\ seq' = seq
    /\ \/ treasury' >= treasury /\ (BondMoves \/ Moves)
       \/ \E a \in Accounts, k \in Keys, pay \in Nat : KeyPaid(a, k, pay)
       \/ \E a \in Accounts, v \in Vaults, pay \in Nat : VaultPaid(a, v, pay)
       \/ \E a \in Accounts, m \in Amms, pay \in Nat : AmmPaid(a, m, pay)

\* A transaction of the validators.
LEMMA ValidatorEffect ==
    ASSUME LpTypeOK, TokensBounded, ValidatorStep,
           UNCHANGED <<shares, tokens, lastClaim, lpPaid, moved>>
    PROVE  LpTypeOK' /\ TokensBounded' /\ Transacts
  <1>t. /\ LedgerTypeOK /\ seq <= MaxSeq /\ signed \subseteq Validation
        /\ claims \in [Keys -> Nat] /\ paid \in Nat
    BY DEF LpTypeOK, EpochTypeOK, TypeOK
  <1>u. TokensBounded'
    BY DEF TokensBounded, Supply
  <1>1. ASSUME NEW a \in Accounts, NEW k \in Keys, BondTx(a, k), UNCHANGED <<claims, paid>>
        PROVE  LpTypeOK' /\ Transacts
    <2>1. LedgerTypeOK' /\ Untouched /\ UNCHANGED signed /\ treasury' >= treasury
      BY <1>1, <1>t, BondTxEffect
    <2>2. BondMoves
      BY <1>1, <2>1 DEF BondMoves, Untouched, Positions
    <2> QED
      BY <1>1, <1>t, <2>1, <2>2 DEF LpTypeOK, EpochTypeOK, TypeOK, Transacts, Untouched
  <1>2. ASSUME NEW v \in Validation, Sign(v), UNCHANGED <<claims, paid>>
        PROVE  LpTypeOK' /\ Transacts
    <2>1. signed' = signed \cup {v} /\ UNCHANGED ledgerVars
      BY <1>2 DEF Sign
    <2>2. LedgerTypeOK' /\ UNCHANGED <<seq, treasury, bonds, epoch>>
      BY <1>t, <2>1 DEF LedgerTypeOK, ledgerVars
    <2>3. Moves
      BY <1>2, <2>2 DEF Moves
    <2> QED
      BY <1>2, <1>t, <2>1, <2>2, <2>3
         DEF LpTypeOK, EpochTypeOK, TypeOK, Transacts, LedgerTypeOK
  <1>3. ASSUME NEW a \in Accounts, NEW k \in Keys, ClaimReward(a, k)
        PROVE  LpTypeOK' /\ Transacts
    <2>1. /\ LedgerTypeOK' /\ UNCHANGED signed
          /\ OnlyFee(a) \/ \E pay \in Nat : Rewards(a, k, pay)
      BY <1>3, <1>t, ClaimEffect
    <2>2. /\ paid' = paid + Received(a)
          /\ claims' = IF Received(a) > 0 THEN [claims EXCEPT ![k] = @ + 1] ELSE claims
      BY <1>3 DEF ClaimReward
    <2>3. CASE OnlyFee(a)
      <3>1. paid' = paid /\ claims' = claims
        BY <1>t, <2>2, <2>3 DEF OnlyFee
      <3>2. Moves /\ seq' = seq /\ treasury' >= treasury
        BY <2>3, <3>1 DEF Moves, OnlyFee
      <3> QED
        BY <1>t, <2>1, <3>1, <3>2 DEF LpTypeOK, EpochTypeOK, TypeOK, Transacts
    <2>4. ASSUME NEW pay \in Nat, Rewards(a, k, pay)
          PROVE  LpTypeOK' /\ Transacts
      <3>1. pay > 0 /\ Received(a) = pay /\ seq' = seq
        BY <2>4 DEF Rewards, Pays
      <3>2. paid' = paid + pay /\ claims' = [claims EXCEPT ![k] = @ + 1]
        BY <2>2, <3>1
      <3>3. KeyPaid(a, k, pay)
        BY <2>4, <3>2 DEF KeyPaid, Positions
      <3>4. paid' \in Nat /\ claims' \in [Keys -> Nat]
        BY <1>t, <3>2
      <3> QED
        BY <1>t, <2>1, <3>1, <3>3, <3>4 DEF LpTypeOK, EpochTypeOK, TypeOK, Transacts
    <2> QED
      BY <2>1, <2>3, <2>4
  <1> QED
    BY <1>1, <1>2, <1>3, <1>u DEF ValidatorStep, BondStep

\* What a claim of a provider on pool p keeps well typed.
LEMMA LpClaimTyped ==
    ASSUME LpTypeOK, LedgerTypeOK', NEW a \in Accounts, NEW p \in Pools,
           NEW ok, NEW share \in Nat, LpClaim(a, p, ok, share),
           paid' \in Nat, lpPaid' \in Nat, seq' = seq,
           \/ UNCHANGED lastClaim
           \/ lastClaim' = [lastClaim EXCEPT ![p][a] = epoch.number]
                 /\ epoch.number \in Nat
    PROVE  LpTypeOK'
  <1>1. UNCHANGED <<signed, claims, shares, tokens, moved>>
    BY DEF LpClaim
  <1>2. lastClaim' \in [Pools -> [Accounts -> Nat]]
    <2>1. lastClaim \in [Pools -> [Accounts -> Nat]]
      BY DEF LpTypeOK
    <2>2. CASE UNCHANGED lastClaim
      BY <2>1, <2>2
    <2>3. CASE lastClaim' = [lastClaim EXCEPT ![p][a] = epoch.number] /\ epoch.number \in Nat
      <3> DEFINE n == epoch.number
      <3>1. n \in Nat /\ lastClaim' = [lastClaim EXCEPT ![p][a] = n]
        BY <2>3
      <3> HIDE DEF n
      <3> QED
        BY <2>1, <3>1
    <2> QED
      BY <2>2, <2>3
  <1> QED
    BY <1>1, <1>2 DEF LpTypeOK, EpochTypeOK, TypeOK

\* A claim of a vault provider.
LEMMA VaultClaimEffect ==
    ASSUME LpTypeOK, NEW a \in Accounts, NEW v \in Vaults, ClaimLPReward(a, v)
    PROVE  LpTypeOK' /\ Transacts
  <1>t. /\ LedgerTypeOK /\ paid \in Nat /\ lpPaid \in Nat
        /\ shares \in [Vaults -> [Accounts -> Nat]] /\ v \in Pools
    BY DEF LpTypeOK, EpochTypeOK, TypeOK, Pools
  <1> DEFINE ok == canClaimVault(a, v)
             share == IF ok THEN vaultShare(epoch, a, v) ELSE 0
  <1>1. share \in Nat /\ (ok => epoch # NoEpoch)
    BY <1>t, VaultShareTyped DEF canClaimVault
  <1>2. /\ LpClaim(a, v, ok, share) /\ lpPaid' = lpPaid + (paid' - paid)
        /\ paid' = paid + Received(a) /\ UNCHANGED <<claims, shares, tokens, moved>>
    BY DEF ClaimLPReward, LpClaim
  <1>3. ok => share = vaultShare(epoch, a, v)
    OBVIOUS
  <1> HIDE DEF share
  <1>4. /\ LedgerTypeOK'
        /\ \/ OnlyFee(a) /\ UNCHANGED lastClaim
           \/ ok /\ Provides(a, v, share)
    BY <1>t, <1>1, <1>2, LpClaimEffect
  <1>5. CASE OnlyFee(a) /\ UNCHANGED lastClaim
    <2>1. paid' = paid /\ lpPaid' = lpPaid
      BY <1>t, <1>2, <1>5 DEF OnlyFee
    <2>2. Moves /\ seq' = seq /\ treasury' >= treasury
      BY <1>2, <1>5, <2>1 DEF Moves, OnlyFee
    <2>3. LpTypeOK'
      BY <1>1, <1>2, <1>4, <1>5, <1>t, <2>1, <2>2, LpClaimTyped
    <2> QED
      BY <2>2, <2>3 DEF Transacts
  <1>6. CASE ok /\ Provides(a, v, share)
    <2>1. PICK pay \in Nat : pay <= share /\ Pays(a, pay)
      BY <1>6 DEF Provides
    <2>2. /\ UNCHANGED bonds
          /\ lastClaim' = IF share > 0 THEN [lastClaim EXCEPT ![v][a] = epoch.number]
                          ELSE lastClaim
      BY <1>6 DEF Provides
    <2>3. Received(a) = pay /\ seq' = seq
      BY <2>1 DEF Pays
    <2>4. paid' = paid + pay /\ lpPaid' = lpPaid + pay
      BY <1>t, <1>2, <2>3
    <2>5. VaultPaid(a, v, pay)
      BY <1>2, <1>3, <1>6, <2>1, <2>2, <2>4 DEF VaultPaid
    <2>6. epoch.number \in Nat
      BY <1>1, <1>6, <1>t, EpochTyped
    <2>7. LpTypeOK'
      <3>1. paid' \in Nat /\ lpPaid' \in Nat
        BY <1>t, <2>4
      <3>2. \/ UNCHANGED lastClaim
            \/ lastClaim' = [lastClaim EXCEPT ![v][a] = epoch.number]
        BY <2>2
      <3> QED
        BY <1>1, <1>2, <1>4, <1>t, <2>3, <2>6, <3>1, <3>2, LpClaimTyped
    <2> QED
      BY <2>3, <2>5, <2>7 DEF Transacts
  <1> QED
    BY <1>4, <1>5, <1>6

\* A claim of an AMM provider.
LEMMA AmmClaimEffect ==
    ASSUME LpTypeOK, TokensBounded, NEW a \in Accounts, NEW m \in Amms,
           ClaimAmmLpReward(a, m)
    PROVE  LpTypeOK' /\ Transacts
  <1>t. /\ LedgerTypeOK /\ paid \in Nat /\ lpPaid \in Nat
        /\ tokens \in [Amms -> [Accounts -> Nat]] /\ m \in Pools
    BY DEF LpTypeOK, EpochTypeOK, TypeOK, Pools
  <1> DEFINE ok == canClaimAmm(a, m)
             share == IF ok THEN ammShare(epoch, a, m) ELSE 0
  <1>1. share \in Nat /\ (ok => epoch # NoEpoch)
    BY <1>t, AmmShareTyped DEF canClaimAmm
  <1>2. /\ LpClaim(a, m, ok, share) /\ UNCHANGED lpPaid
        /\ paid' = paid + Received(a) /\ UNCHANGED <<claims, shares, tokens, moved>>
    BY DEF ClaimAmmLpReward, LpClaim
  <1> HIDE DEF share
  <1>4. /\ LedgerTypeOK'
        /\ \/ OnlyFee(a) /\ UNCHANGED lastClaim
           \/ ok /\ Provides(a, m, share)
    BY <1>t, <1>1, <1>2, LpClaimEffect
  <1>5. CASE OnlyFee(a) /\ UNCHANGED lastClaim
    <2>1. paid' = paid /\ lpPaid' = lpPaid
      BY <1>t, <1>2, <1>5 DEF OnlyFee
    <2>2. Moves /\ seq' = seq /\ treasury' >= treasury
      BY <1>2, <1>5, <2>1 DEF Moves, OnlyFee
    <2>3. LpTypeOK'
      BY <1>1, <1>2, <1>4, <1>5, <1>t, <2>1, <2>2, LpClaimTyped
    <2> QED
      BY <2>2, <2>3 DEF Transacts
  <1>6. CASE ok /\ Provides(a, m, share)
    <2>1. PICK pay \in Nat : pay <= share /\ Pays(a, pay)
      BY <1>6 DEF Provides
    <2>2. /\ UNCHANGED bonds
          /\ \/ UNCHANGED lastClaim
             \/ lastClaim' = [lastClaim EXCEPT ![m][a] = epoch.number]
      BY <1>6 DEF Provides
    <2>3. Received(a) = pay /\ seq' = seq
      BY <2>1 DEF Pays
    <2>4. paid' = paid + pay
      BY <1>2, <2>3
    <2>5. AmmPaid(a, m, pay)
      BY <1>2, <2>1, <2>2, <2>4 DEF AmmPaid
    <2>6. epoch.number \in Nat
      BY <1>1, <1>6, <1>t, EpochTyped
    <2>7. paid' \in Nat /\ lpPaid' \in Nat
      BY <1>2, <1>t, <2>4
    <2>8. LpTypeOK'
      BY <1>1, <1>2, <1>4, <1>t, <2>2, <2>3, <2>6, <2>7, LpClaimTyped
    <2> QED
      BY <2>3, <2>5, <2>8 DEF Transacts
  <1> QED
    BY <1>4, <1>5, <1>6

\* A transaction that moves vault shares.
LEMMA SharesEffect ==
    ASSUME LpTypeOK, NEW a \in Accounts, NEW ok, NEW how \in {"mint", "burn", "send"},
           NEW held \in [Vaults -> [Accounts -> Nat]], MoveTx(a, ok, how, held),
           how = "burn" =>
             \E v \in Vaults, b \in Accounts :
                 shares[v][b] > 0 /\ held = [shares EXCEPT ![v][b] = @ - 1]
    PROVE  LpTypeOK' /\ Transacts
  <1>t. LedgerTypeOK /\ shares \in [Vaults -> [Accounts -> Nat]]
    BY DEF LpTypeOK, EpochTypeOK, TypeOK
  <1>1. /\ Transact(a, TRUE, PayFee(a), FALSE)
        /\ \/ shares' = held /\ moved' = moved \cup {how}
           \/ UNCHANGED <<shares, moved>>
        /\ UNCHANGED <<signed, claims, paid, tokens, lastClaim, lpPaid>>
    BY DEF MoveTx
  <1>2. LedgerTypeOK' /\ OnlyFee(a)
    BY <1>1, <1>t, MoveEffect
  <1>3. Moves
    BY <1>1, <1>2 DEF Moves, OnlyFee
  <1>4. shares' \in [Vaults -> [Accounts -> Nat]]
    BY <1>1, <1>t
  <1>5. seq' = seq /\ treasury' >= treasury
    BY <1>2 DEF OnlyFee
  <1> QED
    BY <1>1, <1>2, <1>3, <1>4, <1>5 DEF LpTypeOK, EpochTypeOK, TypeOK, Transacts

\* A deposit in an AMM.
LEMMA ProvideEffect ==
    ASSUME LpTypeOK, TokensBounded, NEW a \in Accounts, NEW m \in Amms,
           ProvideLiquidity(a, m)
    PROVE  LpTypeOK' /\ TokensBounded' /\ Transacts
  <1>t. LedgerTypeOK /\ tokens \in [Amms -> [Accounts -> Nat]]
    BY DEF LpTypeOK, EpochTypeOK, TypeOK
  <1>1. /\ Supply(tokens[m]) < MaxTokens
        /\ Transact(a, TRUE, PayFee(a), FALSE)
        /\ \/ tokens' = [tokens EXCEPT ![m][a] = @ + 1]
           \/ UNCHANGED tokens
        /\ UNCHANGED <<signed, claims, paid, shares, lastClaim, lpPaid, moved>>
    BY DEF ProvideLiquidity
  <1>2. LedgerTypeOK' /\ OnlyFee(a)
    BY <1>1, <1>t, MoveEffect
  <1>3. Moves
    BY <1>1, <1>2 DEF Moves, OnlyFee
  <1>4. tokens' \in [Amms -> [Accounts -> Nat]]
    BY <1>1, <1>t
  <1>5. seq' = seq /\ treasury' >= treasury
    BY <1>2 DEF OnlyFee
  <1>6. TokensBounded'
    <2>1. CASE UNCHANGED tokens
      BY <2>1 DEF TokensBounded, Supply
    <2>2. CASE tokens' = [tokens EXCEPT ![m][a] = @ + 1]
      <3> SUFFICES ASSUME NEW n \in Amms PROVE SumFunction(tokens'[n]) <= MaxTokens
        BY DEF TokensBounded, Supply
      <3>1. CASE n # m
        <4>1. tokens'[n] = tokens[n]
          BY <1>t, <2>2, <3>1
        <4> QED
          BY <4>1 DEF TokensBounded, Supply
      <3>2. CASE n = m
        <4> DEFINE f == tokens[m]
                   g == tokens'[m]
        <4>1. /\ f \in [Accounts -> Int] /\ g \in [Accounts -> Int]
              /\ f \in [Accounts -> Nat]
              /\ g[a] = f[a] + 1 /\ \A y \in Accounts : y # a => f[y] = g[y]
          BY <1>t, <2>2
        <4> HIDE DEF f, g
        <4>2. SumFunction(g) = SumFunction(f) - f[a] + g[a]
          BY <4>1, FiniteAssumption, SumUpdate
        <4>3. SumFunction(f) \in Nat
          BY <4>1, FiniteAssumption, SumTyped
        <4>4. f[a] \in Nat
          BY <4>1
        <4>5. SumFunction(f) < MaxTokens
          BY <1>1 DEF Supply, f
        <4>6. SumFunction(g) <= MaxTokens
          BY <4>1, <4>2, <4>3, <4>4, <4>5, LPAssumption
        <4> QED
          BY <3>2, <4>6 DEF g
      <3> QED
        BY <3>1, <3>2
    <2> QED
      BY <1>1, <2>1, <2>2
  <1> QED
    BY <1>1, <1>2, <1>3, <1>4, <1>5, <1>6 DEF LpTypeOK, EpochTypeOK, TypeOK, Transacts

\* Every transaction keeps the types and is one of the kinds above.
LEMMA TxEffect ==
    ASSUME LpTypeOK, TokensBounded, RewardTx
    PROVE  LpTypeOK' /\ TokensBounded' /\ Transacts
  <1>t. shares \in [Vaults -> [Accounts -> Nat]]
    BY DEF LpTypeOK
  <1>0. UNCHANGED tokens => TokensBounded'
    BY DEF TokensBounded, Supply
  <1>1. ASSUME NEW a \in Accounts, NEW v \in Vaults,
               \/ ClaimLPReward(a, v)
               \/ MintShares(a, v)
               \/ BurnShares(a, v)
               \/ \E b \in Accounts : SendShares(a, b, v)
        PROVE  LpTypeOK' /\ TokensBounded' /\ Transacts
    <2>0. UNCHANGED tokens
      BY <1>1 DEF ClaimLPReward, LpClaim, MintShares, BurnShares, SendShares, MoveTx
    <2>1. CASE ClaimLPReward(a, v)
      BY <1>0, <2>0, <2>1, VaultClaimEffect
    <2>2. CASE MintShares(a, v)
      <3> DEFINE held == [shares EXCEPT ![v][a] = @ + 1]
      <3>1. held \in [Vaults -> [Accounts -> Nat]]
        BY <1>t
      <3>2. MoveTx(a, Supply(shares[v]) < MaxShares, "mint", held)
        BY <2>2 DEF MintShares
      <3> HIDE DEF held
      <3> QED
        BY <1>0, <2>0, <3>1, <3>2, SharesEffect
    <2>3. CASE BurnShares(a, v)
      <3> DEFINE held == [shares EXCEPT ![v][a] = @ - 1]
      <3>1. MoveTx(a, shares[v][a] > 0, "burn", held) /\ shares[v][a] > 0
        BY <2>3 DEF BurnShares, MoveTx
      <3>2. held \in [Vaults -> [Accounts -> Nat]]
        BY <1>t, <3>1
      <3>3. \E w \in Vaults, b \in Accounts :
                 shares[w][b] > 0 /\ held = [shares EXCEPT ![w][b] = @ - 1]
        BY <3>1
      <3> HIDE DEF held
      <3> QED
        BY <1>0, <2>0, <3>1, <3>2, <3>3, SharesEffect
    <2>4. ASSUME NEW b \in Accounts, SendShares(a, b, v)
          PROVE  LpTypeOK' /\ TokensBounded' /\ Transacts
      <3> DEFINE held == [shares EXCEPT ![v][a] = @ - 1, ![v][b] = @ + 1]
      <3>1. /\ MoveTx(a, a # b /\ shares[v][a] > 0, "send", held)
            /\ a # b /\ shares[v][a] > 0
        BY <2>4 DEF SendShares, MoveTx
      <3>2. held \in [Vaults -> [Accounts -> Nat]]
        BY <1>t, <3>1
      <3> HIDE DEF held
      <3> QED
        BY <1>0, <2>0, <3>1, <3>2, SharesEffect
    <2> QED
      BY <1>1, <2>1, <2>2, <2>3, <2>4
  <1>2. ASSUME NEW a \in Accounts, NEW m \in Amms, ClaimAmmLpReward(a, m)
        PROVE  LpTypeOK' /\ TokensBounded' /\ Transacts
    <2>1. UNCHANGED tokens
      BY <1>2 DEF ClaimAmmLpReward, LpClaim
    <2> QED
      BY <1>0, <1>2, <2>1, AmmClaimEffect
  <1>3. ASSUME NEW a \in Accounts, NEW m \in Amms, ProvideLiquidity(a, m)
        PROVE  LpTypeOK' /\ TokensBounded' /\ Transacts
    BY <1>3, ProvideEffect
  <1>4. CASE ValidatorStep /\ UNCHANGED <<shares, tokens, lastClaim, lpPaid, moved>>
    BY <1>4, ValidatorEffect
  <1> QED
    BY <1>1, <1>2, <1>3, <1>4 DEF RewardTx, ProviderStep

-----------------------------------------------------------------------------
(* The pool                                                                *)

\* An epoch lies in the past, at a boundary, and when the next boundary passes
\* without a new one the treasury, and so the pool, was empty.
EpochShape ==
    /\ seq >= 1
    /\ epoch # NoEpoch =>
         /\ epoch.start < seq /\ epoch.number >= 1
         /\ epoch.start = EpochLedgers * epoch.number
         /\ seq > epoch.start + EpochLedgers => epoch.pool = 0

\* A boundary is a multiple of the length of an epoch.
LEMMA BoundaryQuotient ==
    ASSUME NEW s \in Nat \ {0}, NEW d \in Nat \ {0}, s % d = 0
    PROVE  s = d * (s \div d) /\ s \div d >= 1 /\ s \div d \in Nat
  <1>1. s = d * (s \div d) + (s % d) /\ s \div d \in Nat
    OBVIOUS
  <1>2. s \div d # 0
    <2> SUFFICES ASSUME s \div d = 0 PROVE FALSE
      OBVIOUS
    <2>1. d * 0 = 0
      OBVIOUS
    <2> QED
      BY <1>1, <2>1
  <1> QED
    BY <1>1, <1>2

\* One epoch after a boundary comes the next.
LEMMA NextBoundary ==
    ASSUME NEW n \in Nat, NEW d \in Nat \ {0}
    PROVE  (d * n + d) % d = 0
  <1> DEFINE x == d * n + d
             q == x \div d
             r == x % d
  <1>1. x \in Nat
    OBVIOUS
  <1>2. x = d * (n + 1)
    OBVIOUS
  <1> HIDE DEF x
  <1>3. x = d * q + r /\ q \in Nat /\ r \in 0..(d - 1)
    BY <1>1
  <1> HIDE DEF q, r
  <1>4. CASE q >= n + 1
    <2>1. d * q >= d * (n + 1)
      BY <1>3, <1>4, TimesMonotone
    <2>2. d * q \in Nat /\ d * (n + 1) \in Nat
      BY <1>3
    <2>3. r = 0
      BY <1>2, <1>3, <2>1, <2>2
    <2> QED
      BY <2>3 DEF r, x
  <1>5. CASE q <= n
    <2>1. d * q <= d * n /\ d * q \in Nat /\ d * n \in Nat
      BY <1>3, <1>5, TimesMonotone
    <2>2. x = d * n + d
      BY DEF x
    <2> QED
      BY <1>3, <2>1, <2>2
  <1> QED
    BY <1>3, <1>4, <1>5

\* What a payment leaves of the epoch.
LEMMA PaidEpoch ==
    ASSUME LedgerTypeOK, NEW a, NEW pay, Pays(a, pay)
    PROVE  /\ epoch # NoEpoch /\ epoch' # NoEpoch /\ pay \in Nat
           /\ epoch'.pool = epoch.pool - pay /\ epoch'.pool \in Nat
           /\ epoch'.number = epoch.number /\ epoch'.start = epoch.start
           /\ epoch'.emission = epoch.emission /\ epoch'.aggregate = epoch.aggregate
           /\ epoch'.lpBps = epoch.lpBps /\ epoch'.lpShares = epoch.lpShares
  <1>1. /\ epoch \in Epoch /\ pay \in Nat /\ pay <= epoch.pool /\ epoch.pool \in Nat
        /\ epoch # NoEpoch
        /\ epoch' = [epoch EXCEPT !.pool = @ - pay]
    BY EpochTyped DEF Pays
  <1>2. epoch' \in Epoch
    BY <1>1, PoolLowered
  <1>3. epoch' # NoEpoch
    BY <1>2, AbsentAssumption
  <1> DEFINE x == epoch.pool - pay
  <1>4. x \in Nat /\ epoch' = [epoch EXCEPT !.pool = x]
    BY <1>1
  <1> HIDE DEF x
  <1>5. /\ epoch'.pool = x
        /\ epoch'.number = epoch.number /\ epoch'.start = epoch.start
        /\ epoch'.emission = epoch.emission /\ epoch'.aggregate = epoch.aggregate
        /\ epoch'.lpBps = epoch.lpBps /\ epoch'.lpShares = epoch.lpShares
    BY <1>1, <1>4 DEF Epoch
  <1> QED
    BY <1>1, <1>3, <1>4, <1>5 DEF x

\* A close that opens an epoch, and one that does not.
Opened ==
    /\ Opens
    /\ claims' = [k \in Keys |-> 0] /\ paid' = 0 /\ lpPaid' = 0 /\ moved' = {}
Kept == Stays /\ UNCHANGED <<claims, paid, lpPaid, moved>>

\* What the close of a ledger does to the rewards.
Built ==
    /\ LpTypeOK' /\ TokensBounded' /\ seq' = seq + 1
    /\ UNCHANGED <<balance, treasury, drops, names, shares, tokens, lastClaim>>
    /\ \A k \in Keys : Rescored(bonds[k], bonds'[k])
    /\ Opened \/ Kept
    /\ ScoringLedger(seq) /\ epoch' # NoEpoch
         => epoch'.aggregate = sumAggregateComposites(bonds')
    /\ ~ScoringLedger(seq)
         => /\ bonds' = bonds
            /\ Stays => AggregateStays
            /\ Opens => epoch'.aggregate = 0

\* A close with the epoch of the epoch and scoring phases, and any list.
LEMMA RewardsClosed ==
    ASSUME LpTypeOK, TokensBounded, EpochShape, NEW raw \in [Keys -> RawScores],
           NEW e, CloseRewards(e, raw),
           closedEpoch(VaultSnapshot, AmmSnapshot, raw) \in Epoch \cup {NoEpoch}
             => Relisted(closedEpoch(VaultSnapshot, AmmSnapshot, raw), e)
    PROVE  Built
  <1>2. /\ CloseWith(e, raw) /\ epoch' = e
        /\ IF e # NoEpoch /\ e.start = seq
           THEN lpPaid' = 0 /\ moved' = {}
           ELSE UNCHANGED <<lpPaid, moved>>
        /\ IF e # NoEpoch /\ e.start = seq
           THEN claims' = [k \in Keys |-> 0] /\ paid' = 0
           ELSE UNCHANGED <<claims, paid>>
        /\ UNCHANGED <<shares, tokens, lastClaim>>
        /\ UNCHANGED <<balance, treasury, drops, names>>
    BY DEF CloseRewards, CloseWith
  <1>3. /\ TypeOK' /\ seq' = seq + 1
        /\ \A k \in Keys : Rescored(bonds[k], bonds'[k])
        /\ Opens \/ Stays
        /\ ScoringLedger(seq) /\ epoch' # NoEpoch
             => epoch'.aggregate = sumAggregateComposites(bonds')
        /\ ~ScoringLedger(seq)
             => /\ bonds' = bonds
                /\ Stays => AggregateStays
                /\ Opens => epoch'.aggregate = 0
    BY <1>2, CloseEffect
  <1>4. Opened \/ Kept
    <2>1. CASE Opens
      <3>1. e # NoEpoch /\ e.start = seq
        BY <1>2, <2>1 DEF Opens
      <3> QED
        BY <1>2, <2>1, <3>1 DEF Opened
    <2>2. CASE Stays
      <3>1. ~(e # NoEpoch /\ e.start = seq)
        <4> SUFFICES ASSUME e # NoEpoch, e.start = seq PROVE FALSE
          OBVIOUS
        <4>1. epoch # NoEpoch /\ epoch.start = seq
          BY <1>2, <2>2 DEF Stays
        <4>2. epoch.start < seq /\ seq \in Nat
          BY <4>1 DEF EpochShape, LpTypeOK, EpochTypeOK, TypeOK, LedgerTypeOK
        <4> QED
          BY <4>1, <4>2
      <3> QED
        BY <1>2, <2>2, <3>1 DEF Kept
    <2> QED
      BY <1>3, <2>1, <2>2
  <1>5. LpTypeOK'
    <2>1. claims' \in [Keys -> Nat] /\ paid' \in Nat /\ lpPaid' \in Nat
      BY <1>4 DEF Opened, Kept, LpTypeOK, EpochTypeOK
    <2> QED
      BY <1>2, <1>3, <2>1 DEF LpTypeOK, EpochTypeOK
  <1>6. TokensBounded'
    BY <1>2 DEF TokensBounded, Supply
  <1> QED
    BY <1>2, <1>3, <1>4, <1>5, <1>6 DEF Built

\* What the close of a ledger without governance does.
LEMMA BuildEffect ==
    ASSUME LpTypeOK, TokensBounded, EpochShape, BuildLedger
    PROVE  Built
  <1>1. PICK raw \in [Keys -> RawScores] :
          CloseRewards(closedEpoch(VaultSnapshot, AmmSnapshot, raw), raw)
    BY DEF BuildLedger
  <1> DEFINE e == closedEpoch(VaultSnapshot, AmmSnapshot, raw)
  <1>2. CloseRewards(e, raw)
    BY <1>1
  <1>3. e \in Epoch \cup {NoEpoch} => Relisted(e, e)
    BY DEF Relisted
  <1> QED
    BY <1>2, <1>3, RewardsClosed

\* The inductive invariant of the pool.
PoolInv == LpTypeOK /\ TokensBounded /\ EpochShape /\ PoolFunded /\ PoolAccounting

LEMMA InitPool == LPInit => PoolInv
  <1> SUFFICES ASSUME LPInit PROVE PoolInv
    OBVIOUS
  <1>1. TypeOK /\ seq = 1 /\ epoch = NoEpoch
    BY InitTyped DEF LPInit, EpochInit, Init, LedgerInit
  <1>2. LpTypeOK
    BY <1>1 DEF LPInit, EpochInit, LpTypeOK, EpochTypeOK
  <1>3. TokensBounded
    <2> SUFFICES ASSUME NEW m \in Amms PROVE SumFunction(tokens[m]) <= MaxTokens
      BY DEF TokensBounded, Supply
    <2>1. tokens[m] = [a \in Accounts |-> 0]
      BY DEF LPInit
    <2>2. SumFunction(tokens[m]) = Cardinality(Accounts) * 0
      BY <2>1, FiniteAssumption, SumOfConstant
    <2>3. Cardinality(Accounts) \in Nat
      BY FiniteAssumption, FS_CardinalityType
    <2> QED
      BY <2>2, <2>3, LPAssumption
  <1> QED
    BY <1>1, <1>2, <1>3 DEF PoolInv, EpochShape, PoolFunded, PoolAccounting

\* A payment takes what it pays out of the pool, and the treasury can spare it.
LEMMA PayPool ==
    ASSUME LpTypeOK, LpTypeOK', EpochShape, PoolFunded, PoolAccounting,
           NEW a, NEW pay, Pays(a, pay), paid' = paid + pay
    PROVE  EpochShape' /\ PoolFunded' /\ PoolAccounting'
  <1>1. LedgerTypeOK /\ paid \in Nat /\ treasury \in Nat /\ seq \in Nat
    BY DEF LpTypeOK, EpochTypeOK, TypeOK, LedgerTypeOK
  <1>2. /\ epoch # NoEpoch /\ epoch' # NoEpoch /\ pay \in Nat
        /\ epoch'.pool = epoch.pool - pay /\ epoch'.pool \in Nat
        /\ epoch'.number = epoch.number /\ epoch'.start = epoch.start
        /\ epoch'.emission = epoch.emission
    BY <1>1, PaidEpoch
  <1>3. epoch.pool \in Nat /\ epoch.start \in Nat /\ epoch.number \in Nat
    BY <1>1, <1>2, EpochTyped
  <1>4. treasury' >= treasury - pay /\ seq' = seq /\ treasury' \in Nat
    BY DEF Pays, LpTypeOK, EpochTypeOK, TypeOK, LedgerTypeOK
  <1>5. EpochShape'
    <2>1. seq > epoch.start + EpochLedgers => epoch.pool = 0
      BY <1>2 DEF EpochShape
    <2>2. seq' > epoch'.start + EpochLedgers => epoch'.pool = 0
      BY <1>2, <1>3, <1>4, <2>1
    <2> QED
      BY <1>2, <1>4, <2>2 DEF EpochShape
  <1>6. PoolFunded'
    BY <1>1, <1>2, <1>3, <1>4 DEF PoolFunded
  <1>7. PoolAccounting'
    BY <1>1, <1>2, <1>3 DEF PoolAccounting
  <1> QED
    BY <1>5, <1>6, <1>7

\* A close keeps the pool funded and accounted for.
LEMMA ClosePool ==
    ASSUME PoolInv, Built
    PROVE  PoolInv'
  <1>1. /\ LpTypeOK' /\ TokensBounded' /\ seq' = seq + 1
        /\ UNCHANGED treasury /\ (Opened \/ Kept)
    BY DEF Built
  <1>2. seq \in Nat /\ seq >= 1 /\ treasury \in Nat /\ LedgerTypeOK /\ paid \in Nat
    BY DEF PoolInv, LpTypeOK, EpochTypeOK, TypeOK, LedgerTypeOK, EpochShape
  <1>e. EpochLedgers \in Nat \ {0}
    BY EpochAssumption
  <1>3. CASE Opened
    <2>1. /\ seq % EpochLedgers = 0 /\ epoch' # NoEpoch /\ epoch'.start = seq
          /\ epoch'.number = seq \div EpochLedgers
          /\ epoch'.pool <= treasury /\ epoch'.emission = epoch'.pool /\ paid' = 0
      BY <1>3 DEF Opened, Opens
    <2>2. /\ seq = EpochLedgers * (seq \div EpochLedgers)
          /\ seq \div EpochLedgers >= 1
      BY <1>2, <1>e, <2>1, BoundaryQuotient
    <2>3. EpochShape'
      <3>1. ~(seq' > epoch'.start + EpochLedgers)
        BY <1>1, <1>2, <1>e, <2>1
      <3> QED
        BY <1>1, <1>2, <2>1, <2>2, <3>1 DEF EpochShape
    <2>4. epoch'.pool \in Nat
      <3>1. LedgerTypeOK'
        BY <1>1 DEF LpTypeOK, EpochTypeOK, TypeOK
      <3>2. epoch' \in Epoch
        BY <2>1, <3>1 DEF LedgerTypeOK
      <3> QED
        BY <3>2 DEF Epoch
    <2>5. PoolFunded' /\ PoolAccounting'
      BY <1>1, <2>1, <2>4 DEF PoolFunded, PoolAccounting
    <2> QED
      BY <1>1, <2>3, <2>5 DEF PoolInv
  <1>4. CASE Kept
    <2>1. /\ ~(seq % EpochLedgers = 0 /\ treasury > 0)
          /\ epoch = NoEpoch <=> epoch' = NoEpoch
          /\ epoch # NoEpoch =>
               /\ epoch'.number = epoch.number /\ epoch'.start = epoch.start
               /\ epoch'.pool = epoch.pool /\ epoch'.emission = epoch.emission
          /\ paid' = paid
      BY <1>4 DEF Kept, Stays
    <2>2. PoolFunded' /\ PoolAccounting'
      BY <1>1, <2>1 DEF PoolFunded, PoolAccounting, PoolInv
    <2>3. ASSUME epoch # NoEpoch
          PROVE  /\ epoch'.start < seq' /\ epoch'.number >= 1
                 /\ epoch'.start = EpochLedgers * epoch'.number
                 /\ seq' > epoch'.start + EpochLedgers => epoch'.pool = 0
      <3>1. /\ epoch.start \in Nat /\ epoch.number \in Nat /\ epoch.pool \in Nat
            /\ epoch.start < seq /\ epoch.number >= 1
            /\ epoch.start = EpochLedgers * epoch.number
            /\ seq > epoch.start + EpochLedgers => epoch.pool = 0
            /\ epoch.pool <= treasury
        BY <1>2, <2>3, EpochTyped DEF PoolInv, EpochShape, PoolFunded
      <3>2. CASE seq = epoch.start + EpochLedgers
        <4>1. seq % EpochLedgers = 0
          BY <1>e, <3>1, <3>2, NextBoundary
        <4>2. epoch.pool = 0
          BY <1>2, <2>1, <3>1, <4>1
        <4> QED
          BY <1>1, <1>2, <2>1, <2>3, <3>1, <4>2
      <3>3. CASE seq # epoch.start + EpochLedgers
        <4>1. seq + 1 > epoch.start + EpochLedgers => seq > epoch.start + EpochLedgers
          BY <1>2, <1>e, <3>1, <3>3
        <4>2. epoch'.start < seq + 1
          BY <1>2, <2>1, <2>3, <3>1
        <4> QED
          BY <1>1, <2>1, <2>3, <3>1, <4>1, <4>2
      <3> QED
        BY <3>2, <3>3
    <2>4. EpochShape'
      BY <1>1, <1>2, <2>1, <2>3 DEF EpochShape
    <2> QED
      BY <1>1, <2>2, <2>4 DEF PoolInv
  <1> QED
    BY <1>1, <1>3, <1>4

\* A transaction that pays nobody keeps the pool.
LEMMA QuietPool ==
    ASSUME PoolInv, UNCHANGED <<epoch, paid>>, seq' = seq,
           treasury' >= treasury, LpTypeOK'
    PROVE  EpochShape' /\ PoolFunded' /\ PoolAccounting'
  <1>1. epoch # NoEpoch => epoch.pool <= treasury /\ epoch.pool \in Nat
    BY EpochTyped DEF PoolInv, PoolFunded, LpTypeOK, EpochTypeOK, TypeOK
  <1>2. treasury \in Nat /\ treasury' \in Nat
    BY DEF PoolInv, LpTypeOK, EpochTypeOK, TypeOK, LedgerTypeOK
  <1>3. PoolFunded'
    BY <1>1, <1>2 DEF PoolFunded
  <1> QED
    BY <1>3 DEF PoolInv, EpochShape, PoolAccounting

\* Every step keeps the pool's invariant.
LEMMA NextPool == PoolInv /\ [LPNext]_lpVars => PoolInv'
  <1> SUFFICES ASSUME PoolInv, [LPNext]_lpVars PROVE PoolInv'
    OBVIOUS
  <1>1. CASE RewardTx
    <2>1. LpTypeOK' /\ TokensBounded' /\ Transacts
      BY <1>1, TxEffect DEF PoolInv
    <2>2. CASE treasury' >= treasury /\ (BondMoves \/ Moves)
      <3>1. UNCHANGED <<epoch, paid>> /\ seq' = seq
        BY <2>1, <2>2 DEF BondMoves, Moves, Transacts
      <3> QED
        BY <2>1, <2>2, <3>1, QuietPool DEF PoolInv
    <2>3. ASSUME NEW a, NEW pay, Pays(a, pay), paid' = paid + pay
          PROVE  PoolInv'
      <3>1. EpochShape' /\ PoolFunded' /\ PoolAccounting'
        BY <2>1, <2>3, PayPool DEF PoolInv
      <3> QED
        BY <2>1, <3>1 DEF PoolInv
    <2>4. (\E a \in Accounts, k \in Keys, pay \in Nat : KeyPaid(a, k, pay)) => PoolInv'
      BY <2>3 DEF KeyPaid, Rewards
    <2>5. (\E a \in Accounts, v \in Vaults, pay \in Nat : VaultPaid(a, v, pay)) => PoolInv'
      BY <2>3 DEF VaultPaid
    <2>6. (\E a \in Accounts, m \in Amms, pay \in Nat : AmmPaid(a, m, pay)) => PoolInv'
      BY <2>3 DEF AmmPaid
    <2> QED
      BY <2>1, <2>2, <2>4, <2>5, <2>6 DEF Transacts
  <1>2. CASE BuildLedger
    BY <1>2, BuildEffect, ClosePool DEF PoolInv
  <1>3. CASE UNCHANGED lpVars
    <2>1. UNCHANGED <<seq, balance, ownerCount, treasury, drops, bonds, names, nameOf, epoch,
                      signed, claims, paid, shares, tokens, lastClaim, lpPaid, moved>>
      BY <1>3 DEF lpVars, epochVars, bondVars, ledgerVars
    <2>2. LpTypeOK'
      BY <2>1 DEF PoolInv, LpTypeOK, EpochTypeOK, TypeOK, LedgerTypeOK
    <2>3. TokensBounded'
      BY <2>1 DEF PoolInv, TokensBounded, Supply
    <2> QED
      BY <2>1, <2>2, <2>3 DEF PoolInv, EpochShape, PoolFunded, PoolAccounting
  <1> QED
    BY <1>1, <1>2, <1>3 DEF LPNext

\* The inductive invariant holds in every reachable state.
LEMMA PoolAlways == LPSpec => []PoolInv
  BY InitPool, NextPool, PTL DEF LPSpec

\* No claim of the three kinds ever overdraws the treasury, the pool or an
\* account, which the code keeps as unsigned numbers, for any number of
\* claimants, vaults and AMMs and every emission curve (ClaimReward,
\* ClaimLPReward, ClaimAmmLpReward).
THEOREM RewardsTypeCorrect == LPSpec => []LpTypeOK
  <1>1. PoolInv => LpTypeOK
    BY DEF PoolInv
  <1> QED
    BY <1>1, PoolAlways, PTL

\* The treasury can always pay what is left of the pool, in whatever order
\* epochs open, fees are split and claims arrive: the treasury check in
\* ClaimReward::doApply never refuses a claim that the pool admits.
THEOREM PoolAlwaysFunded == LPSpec => []PoolFunded
  <1>1. PoolInv => PoolFunded
    BY DEF PoolInv
  <1> QED
    BY <1>1, PoolAlways, PTL

\* What an epoch has paid and what it can still pay are its emission: every
\* claim lowers sfEpochPoolBalance by exactly what its account receives.
THEOREM PoolAlwaysAccounted == LPSpec => []PoolAccounting
  <1>1. PoolInv => PoolAccounting
    BY DEF PoolInv
  <1> QED
    BY <1>1, PoolAlways, PTL

-----------------------------------------------------------------------------
(* Bonds between two scorings                                              *)

\* Scores and marks that a change of a bond carries over.
LEMMA CarriedOver ==
    ASSUME NEW b \in Bond, NEW x
    PROVE  /\ Bonded(b, x).composite = b.composite
           /\ Unbonding(b).claimed = b.claimed
           /\ Slashed(b).claimed = b.claimed
  <1>1. Bonded(b, x).composite = b.composite
    BY DEF Bonded, Bond
  <1>2. Unbonding(b).claimed = b.claimed
    BY DEF Unbonding, Bond
  <1>3. Slashed(b).claimed = b.claimed
    <2> DEFINE m == IF b.mult >= MultiplierStep THEN b.mult - MultiplierStep ELSE 0
               n == b.slashes + 1
               y == b.amount - SlashedDrops(b)
    <2>1. Slashed(b) = [b EXCEPT !.amount = y, !.status = "UNBONDING", !.start = seq,
                                 !.mult = m, !.slashes = n]
      BY DEF Slashed
    <2> HIDE DEF m, n, y
    <2> QED
      BY <2>1 DEF Bond
  <1> QED
    BY <1>1, <1>2, <1>3

\* What a bond transaction on key k can do to the bond of k.
BondChange(a, k) ==
    \/ bonds'[k] = bonds[k]
    \/ ~Registered(k) /\ bonds'[k] = FreshBond(a)
    \/ /\ HasStatus(k, "REGISTERED") /\ bonds'[k].status = "BONDED"
       /\ bonds'[k].composite = bonds[k].composite
    \/ /\ HasStatus(k, "REGISTERED") \/ HasStatus(k, "BONDED")
       /\ bonds'[k] # NoBond /\ bonds'[k].status = "UNBONDING"
       /\ bonds'[k].start = seq /\ bonds'[k].claimed = bonds[k].claimed
    \/ canRelease(k) /\ bonds'[k] = NoBond

\* A bond transaction touches one bond.
LEMMA BondTxChange ==
    ASSUME LedgerTypeOK, NEW a \in Accounts, NEW k \in Keys, BondTx(a, k)
    PROVE  /\ \A j \in Keys : j # k => bonds'[j] = bonds[j]
           /\ BondChange(a, k)
           /\ LedgerTypeOK'
  <1>1. /\ LedgerTypeOK'
        /\ \/ Charged(a)
           \/ Registers(a, k)
           \/ \E x \in BondAmounts : Bonds(a, k, x)
           \/ Unbonds(a, k)
           \/ Releases(a, k)
           \/ Slashes(a, k)
    BY BondTxEffect
  <1>2. bonds \in [Keys -> Bond \cup {NoBond}] /\ seq \in Nat
    BY DEF LedgerTypeOK
  <1>3. CASE Charged(a)
    BY <1>1, <1>3 DEF Charged, BondChange
  <1>4. CASE Registers(a, k)
    BY <1>1, <1>2, <1>4 DEF Registers, BondChange
  <1>5. ASSUME NEW x \in BondAmounts, Bonds(a, k, x)
        PROVE  (\A j \in Keys : j # k => bonds'[j] = bonds[j]) /\ BondChange(a, k)
    <2>1. bonds' = [bonds EXCEPT ![k] = Bonded(bonds[k], x)] /\ HasStatus(k, "REGISTERED")
      BY <1>5 DEF Bonds, canBond
    <2>2. bonds[k] \in Bond /\ x \in Nat
      BY <2>1, RegisteredTyped, BondAssumption DEF HasStatus
    <2>3. bonds'[k] = Bonded(bonds[k], x)
      BY <1>2, <2>1
    <2>4. bonds'[k].status = "BONDED" /\ bonds'[k].composite = bonds[k].composite
      BY <2>2, <2>3, BondedTyped, CarriedOver
    <2> QED
      BY <1>2, <2>1, <2>4 DEF BondChange
  <1>6. CASE Unbonds(a, k)
    <2>1. bonds' = [bonds EXCEPT ![k] = Unbonding(bonds[k])] /\ HasStatus(k, "BONDED")
      BY <1>6 DEF Unbonds, canUnbond
    <2>2. bonds[k] \in Bond
      BY <2>1, RegisteredTyped DEF HasStatus
    <2>3. bonds'[k] = Unbonding(bonds[k])
      BY <1>2, <2>1
    <2>4. /\ bonds'[k] # NoBond /\ bonds'[k].status = "UNBONDING"
          /\ bonds'[k].start = seq /\ bonds'[k].claimed = bonds[k].claimed
      BY <1>2, <2>2, <2>3, UnbondingTyped, CarriedOver, AbsentAssumption
    <2> QED
      BY <1>1, <1>2, <2>1, <2>4 DEF BondChange
  <1>7. CASE Releases(a, k)
    BY <1>1, <1>2, <1>7 DEF Releases, BondChange
  <1>8. CASE Slashes(a, k)
    <2>1. /\ bonds' = [bonds EXCEPT ![k] = Slashed(bonds[k])]
          /\ HasStatus(k, "BONDED") \/ HasStatus(k, "REGISTERED")
      BY <1>8 DEF Slashes, canSlash
    <2>2. bonds[k] \in Bond
      BY <2>1, RegisteredTyped DEF HasStatus
    <2>3. bonds'[k] = Slashed(bonds[k])
      BY <1>2, <2>1
    <2>4. /\ bonds'[k] # NoBond /\ bonds'[k].status = "UNBONDING"
          /\ bonds'[k].start = seq /\ bonds'[k].claimed = bonds[k].claimed
      BY <1>2, <2>2, <2>3, SlashedTyped, CarriedOver, AbsentAssumption
    <2> QED
      BY <1>1, <1>2, <2>1, <2>4 DEF BondChange
  <1> QED
    BY <1>1, <1>3, <1>4, <1>5, <1>6, <1>7, <1>8

-----------------------------------------------------------------------------
(* The aggregate                                                           *)

\* A key has no score before it is bonded.
Unscored == \A k \in Keys : HasStatus(k, "REGISTERED") => bonds[k].composite = 0

\* The aggregate covers what the bonded scores add up to.
Covers(e, bs) == e # NoEpoch /\ e.aggregate # 0 => sumAggregateComposites(bs) <= e.aggregate

\* No score grows, so what was covered stays covered.
LEMMA CoverKept ==
    ASSUME NEW e \in Epoch \cup {NoEpoch},
           NEW bs \in [Keys -> Bond \cup {NoBond}], NEW cs \in [Keys -> Bond \cup {NoBond}],
           \A k \in Keys : Earning(cs[k]) <= Earning(bs[k]), Covers(e, bs)
    PROVE  Covers(e, cs)
  <1> DEFINE f == [k \in Keys |-> Earning(bs[k])]
             g == [k \in Keys |-> Earning(cs[k])]
  <1>1. /\ f \in [Keys -> Nat] /\ sumAggregateComposites(bs) = SumFunction(f)
        /\ sumAggregateComposites(bs) \in Nat
    BY AggregateSum
  <1>2. /\ g \in [Keys -> Nat] /\ sumAggregateComposites(cs) = SumFunction(g)
        /\ sumAggregateComposites(cs) \in Nat
    BY AggregateSum
  <1>3. \A k \in Keys : g[k] <= f[k]
    OBVIOUS
  <1> HIDE DEF f, g
  <1>4. f \in [Keys -> Int] /\ g \in [Keys -> Int]
    BY <1>1, <1>2
  <1>5. SumFunction(g) <= SumFunction(f)
    BY <1>3, <1>4, FiniteAssumption, SumOrdered
  <1>6. e # NoEpoch => e.aggregate \in Nat
    BY DEF Epoch
  <1> QED
    BY <1>1, <1>2, <1>5, <1>6 DEF Covers

\* Between two scorings no transaction on bonds raises a score that counts.
LEMMA BondTxScores ==
    ASSUME LedgerTypeOK, Unscored, NEW a \in Accounts, NEW k \in Keys, BondTx(a, k)
    PROVE  /\ Unscored'
           /\ \A j \in Keys : Earning(bonds'[j]) <= Earning(bonds[j])
  <1>1. /\ \A j \in Keys : j # k => bonds'[j] = bonds[j]
        /\ BondChange(a, k) /\ LedgerTypeOK'
    BY BondTxChange
  <1>2. \A j \in Keys : /\ bonds[j] \in Bond \cup {NoBond} /\ bonds'[j] \in Bond \cup {NoBond}
    BY <1>1 DEF LedgerTypeOK
  <1>3. \A b \in Bond \cup {NoBond} : Earning(b) \in Nat
    BY DEF Earning, Bond
  <1>4. FreshBond(a).status = "REGISTERED" /\ FreshBond(a).composite = 0
    BY DEF FreshBond
  <1>5. /\ Earning(bonds'[k]) <= Earning(bonds[k])
        /\ HasStatus(k, "REGISTERED")' => bonds'[k].composite = 0
    <2>1. CASE bonds'[k] = bonds[k]
      BY <1>2, <1>3, <2>1 DEF Unscored, HasStatus, Registered
    <2>2. CASE ~Registered(k) /\ bonds'[k] = FreshBond(a)
      <3>1. Earning(bonds'[k]) = 0 /\ Earning(bonds[k]) = 0
        BY <1>4, <2>2 DEF Earning, Registered
      <3> QED
        BY <1>4, <2>2, <3>1
    <2>3. CASE /\ HasStatus(k, "REGISTERED") /\ bonds'[k].status = "BONDED"
               /\ bonds'[k].composite = bonds[k].composite
      <3>1. bonds'[k].composite = 0
        BY <2>3 DEF Unscored
      <3>2. Earning(bonds'[k]) = 0
        BY <3>1 DEF Earning
      <3> QED
        BY <1>2, <1>3, <3>1, <3>2
    <2>4. CASE bonds'[k].status = "UNBONDING"
      <3>1. Earning(bonds'[k]) = 0
        BY <2>4 DEF Earning
      <3> QED
        BY <1>2, <1>3, <2>4, <3>1 DEF HasStatus
    <2>5. CASE bonds'[k] = NoBond
      <3>1. Earning(bonds'[k]) = 0 /\ ~HasStatus(k, "REGISTERED")'
        BY <2>5 DEF Earning, HasStatus, Registered
      <3> QED
        BY <1>2, <1>3, <3>1
    <2> QED
      BY <1>1, <2>1, <2>2, <2>3, <2>4, <2>5 DEF BondChange
  <1>6. ASSUME NEW j \in Keys
        PROVE  /\ Earning(bonds'[j]) <= Earning(bonds[j])
               /\ HasStatus(j, "REGISTERED")' => bonds'[j].composite = 0
    <2>1. CASE j = k
      BY <1>5, <2>1
    <2>2. CASE j # k
      BY <1>1, <1>2, <1>3, <2>2 DEF Unscored, HasStatus, Registered
    <2> QED
      BY <2>1, <2>2
  <1> QED
    BY <1>6 DEF Unscored

\* A claim of a validator changes no score.
LEMMA MarkScores ==
    ASSUME LedgerTypeOK, Unscored, NEW a, NEW k \in Keys, NEW pay, Rewards(a, k, pay)
    PROVE  /\ Unscored'
           /\ \A j \in Keys : Earning(bonds'[j]) <= Earning(bonds[j])
  <1>1. /\ bonds \in [Keys -> Bond \cup {NoBond}] /\ bonds[k] \in Bond
        /\ epoch.number \in Nat
        /\ bonds' = [bonds EXCEPT ![k] = [@ EXCEPT !.claimed = epoch.number]]
    BY RegisteredTyped, EpochTyped DEF LedgerTypeOK, Rewards, Pays, Claimable, HasStatus
  <1>2. bonds'[k] = [bonds[k] EXCEPT !.claimed = epoch.number]
    BY <1>1
  <1>3. /\ bonds'[k] \in Bond /\ bonds'[k].status = bonds[k].status
        /\ bonds'[k].composite = bonds[k].composite
    BY <1>1, <1>2, MarkedTyped
  <1>4. bonds'[k] # NoBond /\ bonds[k] # NoBond
    BY <1>1, <1>3, AbsentAssumption
  <1>5. \A b \in Bond \cup {NoBond} : Earning(b) \in Nat
    BY DEF Earning, Bond
  <1>6. ASSUME NEW j \in Keys
        PROVE  /\ Earning(bonds'[j]) <= Earning(bonds[j])
               /\ HasStatus(j, "REGISTERED")' => bonds'[j].composite = 0
    <2>0. bonds[j] \in Bond \cup {NoBond}
      BY <1>1
    <2>1. CASE j = k
      <3>1. Earning(bonds'[j]) = Earning(bonds[j])
        BY <1>3, <1>4, <2>1 DEF Earning
      <3> QED
        BY <1>3, <1>4, <1>5, <2>0, <2>1, <3>1 DEF Unscored, HasStatus, Registered
    <2>2. CASE j # k
      <3>1. bonds'[j] = bonds[j]
        BY <1>1, <2>2
      <3> QED
        BY <1>5, <2>0, <3>1 DEF Unscored, HasStatus, Registered
    <2> QED
      BY <2>1, <2>2
  <1> QED
    BY <1>6 DEF Unscored

\* The inductive invariant of the aggregate.
ScoreInv == Unscored /\ AggregateCoversBonded

\* A close scores the bonds and adds the scores up, or leaves both alone.
LEMMA CloseScores ==
    ASSUME LedgerTypeOK, ScoreInv, Built
    PROVE  ScoreInv'
  <1>1. /\ LpTypeOK'
        /\ \A k \in Keys : Rescored(bonds[k], bonds'[k])
        /\ Opened \/ Kept
        /\ ScoringLedger(seq) /\ epoch' # NoEpoch
             => epoch'.aggregate = sumAggregateComposites(bonds')
        /\ ~ScoringLedger(seq)
             => /\ bonds' = bonds
                /\ Stays => AggregateStays
                /\ Opens => epoch'.aggregate = 0
    BY DEF Built
  <1>2. Unscored /\ Covers(epoch, bonds)
    BY DEF ScoreInv, AggregateCoversBonded, Covers, sumAggregateComposites
  <1>3. Unscored'
    BY <1>1, <1>2 DEF Unscored, HasStatus, Registered, Rescored
  <1>4. bonds' \in [Keys -> Bond \cup {NoBond}]
    BY <1>1 DEF LpTypeOK, EpochTypeOK, TypeOK, LedgerTypeOK
  <1>5. sumAggregateComposites(bonds') \in Nat
    BY <1>4, AggregateSum
  <1>6. Covers(epoch', bonds')
    <2>1. CASE ScoringLedger(seq)
      BY <1>1, <1>5, <2>1 DEF Covers
    <2>2. CASE ~ScoringLedger(seq)
      BY <1>1, <1>2, <2>2 DEF Covers, Opened, Kept, Stays, AggregateStays
    <2> QED
      BY <2>1, <2>2
  <1> QED
    BY <1>3, <1>6 DEF ScoreInv, AggregateCoversBonded, Covers, sumAggregateComposites

\* Every step keeps the aggregate above the bonded scores.
LEMMA NextScores == PoolInv /\ ScoreInv /\ [LPNext]_lpVars => ScoreInv'
  <1> SUFFICES ASSUME PoolInv, ScoreInv, [LPNext]_lpVars PROVE ScoreInv'
    OBVIOUS
  <1>t. LedgerTypeOK /\ LpTypeOK /\ TokensBounded /\ EpochShape
    BY DEF PoolInv, LpTypeOK, EpochTypeOK, TypeOK
  <1>b. /\ bonds \in [Keys -> Bond \cup {NoBond}] /\ epoch \in Epoch \cup {NoEpoch}
        /\ Covers(epoch, bonds) /\ Unscored
    BY <1>t DEF LedgerTypeOK, ScoreInv, AggregateCoversBonded, Covers, sumAggregateComposites
  <1>c. Covers(epoch', bonds') => AggregateCoversBonded'
    BY DEF AggregateCoversBonded, Covers, sumAggregateComposites
  <1>q. UNCHANGED <<bonds, epoch>> => ScoreInv'
    BY DEF ScoreInv, AggregateCoversBonded, Unscored, HasStatus, Registered, BondedIn
  <1>p. ASSUME NEW a, NEW pay, Pays(a, pay), Covers(epoch, bonds')
        PROVE  Covers(epoch', bonds')
    BY <1>p, <1>t, PaidEpoch DEF Covers
  <1>1. CASE RewardTx
    <2>1. LpTypeOK' /\ Transacts
      BY <1>1, <1>t, TxEffect
    <2>2. bonds' \in [Keys -> Bond \cup {NoBond}]
      BY <2>1 DEF LpTypeOK, EpochTypeOK, TypeOK, LedgerTypeOK
    <2>3. CASE BondMoves
      <3>1. PICK a \in Accounts, k \in Keys : BondTx(a, k)
        BY <2>3 DEF BondMoves
      <3>2. Unscored' /\ \A j \in Keys : Earning(bonds'[j]) <= Earning(bonds[j])
        BY <1>b, <1>t, <3>1, BondTxScores
      <3>3. Covers(epoch, bonds')
        BY <1>b, <2>2, <3>2, CoverKept
      <3> QED
        BY <1>c, <2>3, <3>2, <3>3 DEF BondMoves, ScoreInv
    <2>4. CASE Moves
      BY <1>q, <2>4 DEF Moves
    <2>5. ASSUME NEW a \in Accounts, NEW k \in Keys, NEW pay \in Nat, KeyPaid(a, k, pay)
          PROVE  ScoreInv'
      <3>1. Rewards(a, k, pay) /\ Pays(a, pay)
        BY <2>5 DEF KeyPaid, Rewards
      <3>2. Unscored' /\ \A j \in Keys : Earning(bonds'[j]) <= Earning(bonds[j])
        BY <1>b, <1>t, <3>1, MarkScores
      <3>3. Covers(epoch, bonds')
        BY <1>b, <2>2, <3>2, CoverKept
      <3> QED
        BY <1>c, <1>p, <3>1, <3>2, <3>3 DEF ScoreInv
    <2>6. ASSUME NEW a, NEW pay, Pays(a, pay), UNCHANGED bonds
          PROVE  ScoreInv'
      <3>1. Unscored'
        BY <1>b, <2>6 DEF Unscored, HasStatus, Registered
      <3>2. Covers(epoch, bonds')
        BY <1>b, <2>6
      <3> QED
        BY <1>c, <1>p, <2>6, <3>1, <3>2 DEF ScoreInv
    <2> QED
      BY <2>1, <2>3, <2>4, <2>5, <2>6 DEF Transacts, VaultPaid, AmmPaid
  <1>2. CASE BuildLedger
    BY <1>2, <1>t, BuildEffect, CloseScores
  <1>3. CASE UNCHANGED lpVars
    BY <1>3, <1>q DEF lpVars, epochVars, bondVars, ledgerVars
  <1> QED
    BY <1>1, <1>2, <1>3 DEF LPNext

\* Once the aggregate is known no bonded score is missing from it, for any
\* number of validators and although bonds come, go and are slashed between two
\* scorings: muldiv64's precondition in ClaimReward holds.
THEOREM AggregateAlwaysCovers == LPSpec => []AggregateCoversBonded
  <1>1. LPInit => ScoreInv
    BY DEF LPInit, EpochInit, Init, LedgerInit, ScoreInv, Unscored, AggregateCoversBonded,
           HasStatus, Registered
  <1>2. ScoreInv => AggregateCoversBonded
    BY DEF ScoreInv
  <1> QED
    BY <1>1, <1>2, PoolAlways, NextScores, PTL DEF LPSpec

-----------------------------------------------------------------------------
(* One reward per key and epoch                                            *)

\* The bond of k is marked for this epoch and has not left since.
ClaimMarked(k) ==
    /\ HasStatus(k, "BONDED") \/ HasStatus(k, "UNBONDING")
    /\ bonds[k].claimed = epoch.number
    /\ bonds[k].status = "UNBONDING" => bonds[k].start > epoch.start

\* A key that was paid cannot be paid again: it is marked, or nothing is left.
PaidOnce(k) ==
    /\ claims[k] <= 1
    /\ claims[k] = 1 => epoch # NoEpoch /\ (epoch.pool = 0 \/ ClaimMarked(k))

PaidKeysMarked == \A k \in Keys : PaidOnce(k)

\* A mark outlives every transaction on the bond, except its release, which
\* comes after the end of the epoch.
LEMMA BondTxMark ==
    ASSUME PoolInv, NEW a \in Accounts, NEW k \in Keys, BondTx(a, k), UNCHANGED epoch,
           NEW j \in Keys, epoch # NoEpoch, epoch.pool = 0 \/ ClaimMarked(j)
    PROVE  epoch'.pool = 0 \/ ClaimMarked(j)'
  <1>t. LedgerTypeOK /\ seq \in Nat /\ LockLedgers \in Nat /\ EpochLedgers \in Nat
    BY EpochAssumption, BondAssumption
       DEF PoolInv, LpTypeOK, EpochTypeOK, TypeOK, LedgerTypeOK
  <1>e. epoch.start \in Nat /\ epoch.start < seq
    BY <1>t, EpochTyped DEF PoolInv, EpochShape
  <1>1. /\ \A i \in Keys : i # k => bonds'[i] = bonds[i]
        /\ BondChange(a, k) /\ LedgerTypeOK'
    BY <1>t, BondTxChange
  <1>2. CASE epoch.pool = 0
    BY <1>2
  <1>3. CASE ClaimMarked(j) /\ j # k
    BY <1>1, <1>3 DEF ClaimMarked, HasStatus, Registered
  <1>4. CASE ClaimMarked(j) /\ j = k
    <2>0. bonds[k].status = "BONDED" \/ bonds[k].status = "UNBONDING"
      BY <1>4 DEF ClaimMarked, HasStatus
    <2>1. CASE bonds'[k] = bonds[k]
      BY <1>4, <2>1 DEF ClaimMarked, HasStatus, Registered
    <2>2. CASE ~Registered(k)
      BY <1>4, <2>2 DEF ClaimMarked, HasStatus
    <2>3. CASE HasStatus(k, "REGISTERED")
      BY <2>0, <2>3 DEF HasStatus
    <2>4. CASE /\ HasStatus(k, "BONDED")
               /\ bonds'[k] # NoBond /\ bonds'[k].status = "UNBONDING"
               /\ bonds'[k].start = seq /\ bonds'[k].claimed = bonds[k].claimed
      BY <1>4, <1>e, <2>4 DEF ClaimMarked, HasStatus, Registered
    <2>5. CASE canRelease(k)
      <3>1. seq >= bonds[k].start + LockLedgers /\ bonds[k].status = "UNBONDING"
            /\ bonds[k] \in Bond
        BY <1>t, <2>5, RegisteredTyped DEF canRelease, HasStatus
      <3>2. bonds[k].start > epoch.start /\ bonds[k].start \in Nat
        BY <1>4, <3>1 DEF ClaimMarked, Bond
      <3>3. seq > epoch.start + EpochLedgers
        BY <1>e, <1>t, <3>1, <3>2, LockAssumption
      <3> QED
        BY <3>3 DEF PoolInv, EpochShape
    <2> QED
      BY <1>1, <2>1, <2>2, <2>3, <2>4, <2>5 DEF BondChange
  <1> QED
    BY <1>2, <1>3, <1>4

\* A payment to another claimant keeps the marks.
LEMMA PayMark ==
    ASSUME LedgerTypeOK, NEW a, NEW pay, Pays(a, pay), NEW j \in Keys,
           bonds'[j] = bonds[j], claims'[j] = claims[j], PaidOnce(j)
    PROVE  PaidOnce(j)'
  <1>1. /\ epoch # NoEpoch /\ epoch' # NoEpoch /\ pay \in Nat
        /\ epoch'.pool = epoch.pool - pay /\ pay <= epoch.pool
        /\ epoch'.number = epoch.number /\ epoch'.start = epoch.start
    BY PaidEpoch DEF Pays
  <1>2. epoch.pool = 0 => epoch'.pool = 0
    BY <1>1
  <1>3. ClaimMarked(j) => ClaimMarked(j)'
    BY <1>1 DEF ClaimMarked, HasStatus, Registered
  <1> QED
    BY <1>1, <1>2, <1>3 DEF PaidOnce

\* The key that is paid was not paid before.
LEMMA RewardMark ==
    ASSUME LedgerTypeOK, NEW a, NEW k \in Keys, NEW pay \in Nat, Rewards(a, k, pay),
           claims \in [Keys -> Nat], claims' = [claims EXCEPT ![k] = @ + 1], PaidOnce(k)
    PROVE  PaidOnce(k)'
  <1>1. /\ epoch # NoEpoch /\ epoch' # NoEpoch /\ pay > 0 /\ pay <= epoch.pool
        /\ epoch'.number = epoch.number /\ epoch'.start = epoch.start
        /\ epoch.pool \in Nat /\ epoch.number \in Nat
    BY PaidEpoch, EpochTyped DEF Rewards, Pays
  <1>2. /\ HasStatus(k, "BONDED") /\ bonds[k].claimed < epoch.number /\ bonds[k] \in Bond
        /\ bonds' = [bonds EXCEPT ![k] = [@ EXCEPT !.claimed = epoch.number]]
        /\ bonds \in [Keys -> Bond \cup {NoBond}]
    BY RegisteredTyped DEF Rewards, Claimable, HasStatus, LedgerTypeOK
  <1>3. bonds[k].claimed \in Nat
    BY <1>2 DEF Bond
  <1>4. claims[k] # 1
    <2> SUFFICES ASSUME claims[k] = 1 PROVE FALSE
      OBVIOUS
    <2>1. epoch.pool = 0 \/ ClaimMarked(k)
      BY DEF PaidOnce
    <2>2. bonds[k].claimed = epoch.number
      BY <1>1, <2>1 DEF ClaimMarked
    <2> QED
      BY <1>1, <1>2, <1>3, <2>2
  <1>5. claims[k] = 0 /\ claims'[k] = 1
    BY <1>4 DEF PaidOnce
  <1>6. bonds'[k] = [bonds[k] EXCEPT !.claimed = epoch.number]
    BY <1>2
  <1>7. /\ bonds'[k] \in Bond /\ bonds'[k].status = bonds[k].status
        /\ bonds'[k].claimed = epoch.number
    BY <1>1, <1>2, <1>6, MarkedTyped
  <1>8. bonds'[k] # NoBond
    BY <1>7, AbsentAssumption
  <1>9. ClaimMarked(k)'
    BY <1>1, <1>2, <1>7, <1>8 DEF ClaimMarked, HasStatus, Registered
  <1> QED
    BY <1>1, <1>5, <1>9 DEF PaidOnce

\* A close starts the count of a new epoch, or leaves the marks.
LEMMA CloseMark ==
    ASSUME Built, NEW j \in Keys, PaidOnce(j)
    PROVE  PaidOnce(j)'
  <1>1. Rescored(bonds[j], bonds'[j]) /\ (Opened \/ Kept)
    BY DEF Built
  <1>2. CASE Opened
    BY <1>2 DEF Opened, PaidOnce
  <1>3. CASE Kept
    <2>1. /\ epoch = NoEpoch <=> epoch' = NoEpoch
          /\ epoch # NoEpoch =>
               /\ epoch'.number = epoch.number /\ epoch'.start = epoch.start
               /\ epoch'.pool = epoch.pool
          /\ claims' = claims
      BY <1>3 DEF Kept, Stays
    <2>2. epoch # NoEpoch /\ ClaimMarked(j) => ClaimMarked(j)'
      BY <1>1, <2>1 DEF ClaimMarked, HasStatus, Registered, Rescored
    <2> QED
      BY <2>1, <2>2 DEF PaidOnce
  <1> QED
    BY <1>1, <1>2, <1>3

\* Every step keeps the marks of the keys that were paid.
LEMMA NextMarks == PoolInv /\ PaidKeysMarked /\ [LPNext]_lpVars => PaidKeysMarked'
  <1> SUFFICES ASSUME PoolInv, PaidKeysMarked, [LPNext]_lpVars, NEW j \in Keys
               PROVE  PaidOnce(j)'
    BY DEF PaidKeysMarked
  <1>t. LedgerTypeOK /\ LpTypeOK /\ TokensBounded /\ EpochShape /\ claims \in [Keys -> Nat]
    BY DEF PoolInv, LpTypeOK, EpochTypeOK, TypeOK
  <1>j. PaidOnce(j)
    BY DEF PaidKeysMarked
  <1>q. UNCHANGED <<bonds, epoch, claims>> => PaidOnce(j)'
    BY <1>j DEF PaidOnce, ClaimMarked, HasStatus, Registered
  <1>1. CASE RewardTx
    <2>1. Transacts
      BY <1>1, <1>t, TxEffect
    <2>3. CASE BondMoves
      <3>1. PICK a \in Accounts, k \in Keys : BondTx(a, k)
        BY <2>3 DEF BondMoves
      <3>2. UNCHANGED <<epoch, claims>>
        BY <2>3 DEF BondMoves
      <3>3. epoch # NoEpoch /\ (epoch.pool = 0 \/ ClaimMarked(j))
              => epoch'.pool = 0 \/ ClaimMarked(j)'
        BY <3>1, <3>2, BondTxMark
      <3> QED
        BY <1>j, <3>2, <3>3 DEF PaidOnce
    <2>4. CASE Moves
      BY <1>q, <2>4 DEF Moves
    <2>5. ASSUME NEW a \in Accounts, NEW k \in Keys, NEW pay \in Nat, KeyPaid(a, k, pay)
          PROVE  PaidOnce(j)'
      <3>1. /\ Rewards(a, k, pay) /\ Pays(a, pay) /\ claims' = [claims EXCEPT ![k] = @ + 1]
            /\ bonds' = [bonds EXCEPT ![k] = [@ EXCEPT !.claimed = epoch.number]]
        BY <2>5 DEF KeyPaid, Rewards
      <3>2. CASE j = k
        BY <1>j, <1>t, <3>1, <3>2, RewardMark
      <3>3. CASE j # k
        <4>1. bonds'[j] = bonds[j] /\ claims'[j] = claims[j]
          BY <1>t, <3>1, <3>3 DEF LedgerTypeOK
        <4> QED
          BY <1>j, <1>t, <3>1, <4>1, PayMark
      <3> QED
        BY <3>2, <3>3
    <2>6. ASSUME NEW a, NEW pay, Pays(a, pay), UNCHANGED <<bonds, claims>>
          PROVE  PaidOnce(j)'
      BY <1>j, <1>t, <2>6, PayMark
    <2> QED
      BY <2>1, <2>3, <2>4, <2>5, <2>6 DEF Transacts, VaultPaid, AmmPaid
  <1>2. CASE BuildLedger
    BY <1>2, <1>j, <1>t, BuildEffect, CloseMark
  <1>3. CASE UNCHANGED lpVars
    BY <1>3, <1>q DEF lpVars, epochVars, bondVars, ledgerVars
  <1> QED
    BY <1>1, <1>2, <1>3 DEF LPNext

\* A consensus key is paid at most once in an epoch, although a released and
\* registered bond forgets sfLastClaimedEpoch: the lock of an exit outlasts the
\* epoch in which the key was paid (ClaimReward::doApply, ReleaseBond::preclaim).
THEOREM RewardedOncePerEpoch == LPSpec => []OneRewardPerEpoch
  <1>1. LPInit => PaidKeysMarked
    BY DEF LPInit, EpochInit, PaidKeysMarked, PaidOnce
  <1>2. PaidKeysMarked => OneRewardPerEpoch
    BY DEF PaidKeysMarked, PaidOnce, OneRewardPerEpoch
  <1> QED
    BY <1>1, <1>2, PoolAlways, NextMarks, PTL DEF LPSpec

-----------------------------------------------------------------------------
(* The supply                                                              *)

\* A claim of a provider moves drops from the treasury to an account.
LEMMA LpClaimSupply ==
    ASSUME LedgerTypeOK, SupplyIsHeld, NEW a \in Accounts, NEW p, NEW ok,
           NEW share \in Nat, ok => epoch # NoEpoch, LpClaim(a, p, ok, share)
    PROVE  SupplyIsHeld'
  <1> DEFINE can == ok /\ lpClaimFunded(share)
             v == lpClaimApply(PayFee(a), a, share)
  <1>1. Transact(a, can, v, FALSE)
    BY DEF LpClaim
  <1>2. Succeeds(a, can, v, FALSE) => ViewOK(v) /\ v.burned = 0
    <2> SUFFICES ASSUME balance[a] >= Fee, can PROVE ViewOK(v) /\ v.burned = 0
      BY DEF Succeeds
    <2> QED
      BY LpClaimView
  <1> HIDE DEF can, v
  <1> QED
    BY <1>1, <1>2, TransactSupply

\* A transaction that moves shares or tokens moves no drops but its fee.
LEMMA MoveSupply ==
    ASSUME LedgerTypeOK, SupplyIsHeld, NEW a \in Accounts,
           Transact(a, TRUE, PayFee(a), FALSE)
    PROVE  SupplyIsHeld'
  <1>1. \A v : v = PayFee(a) /\ balance[a] >= Fee => ViewOK(v) /\ v.burned = 0
    BY PayFeeView
  <1>2. Succeeds(a, TRUE, PayFee(a), FALSE) => ViewOK(PayFee(a)) /\ PayFee(a).burned = 0
    BY <1>1 DEF Succeeds
  <1> QED
    BY <1>2, TransactSupply

\* A claim of a validator moves drops from the treasury to an account.
LEMMA ClaimSupply ==
    ASSUME LedgerTypeOK, SupplyIsHeld, NEW a \in Accounts, NEW k \in Keys,
           ClaimReward(a, k)
    PROVE  SupplyIsHeld'
  <1> DEFINE v == claimApply(PayFee(a), a, k)
  <1>1. Transact(a, canClaim(a, k), v, FALSE)
    BY DEF ClaimReward
  <1>2. Succeeds(a, canClaim(a, k), v, FALSE) => ViewOK(v) /\ v.burned = 0
    <2> SUFFICES ASSUME balance[a] >= Fee, canClaim(a, k) PROVE ViewOK(v) /\ v.burned = 0
      BY DEF Succeeds
    <2> QED
      BY ClaimView
  <1> HIDE DEF v
  <1> QED
    BY <1>1, <1>2, TransactSupply

\* Scoring moves no drops.
LEMMA RescoredDrops ==
    ASSUME \A k \in Keys : Rescored(bonds[k], bonds'[k])
    PROVE  BondedDrops(bonds') = BondedDrops(bonds)
  <1> DEFINE f == [k \in Keys |-> IF bonds[k] = NoBond THEN 0 ELSE bonds[k].amount]
             g == [k \in Keys |-> IF bonds'[k] = NoBond THEN 0 ELSE bonds'[k].amount]
  <1>1. f = g
    BY DEF Rescored
  <1> HIDE DEF f, g
  <1>2. SumFunction(f) = SumFunction(g)
    BY <1>1
  <1> QED
    BY <1>2 DEF BondedDrops, f, g

\* A close moves no drops.
LEMMA CloseSupply ==
    ASSUME SupplyIsHeld, Built
    PROVE  SupplyIsHeld'
  <1>1. /\ UNCHANGED <<balance, treasury, drops, names>>
        /\ \A k \in Keys : Rescored(bonds[k], bonds'[k])
    BY DEF Built
  <1>2. BondedDrops(bonds') = BondedDrops(bonds)
    BY <1>1, RescoredDrops
  <1> QED
    BY <1>1, <1>2, SupplyKept

\* Every step keeps the header's supply true.
LEMMA NextRewardSupply == PoolInv /\ SupplyIsHeld /\ [LPNext]_lpVars => SupplyIsHeld'
  <1> SUFFICES ASSUME PoolInv, SupplyIsHeld, [LPNext]_lpVars PROVE SupplyIsHeld'
    OBVIOUS
  <1>t. /\ LedgerTypeOK /\ LpTypeOK /\ TokensBounded /\ EpochShape
        /\ shares \in [Vaults -> [Accounts -> Nat]] /\ tokens \in [Amms -> [Accounts -> Nat]]
    BY DEF PoolInv, LpTypeOK, EpochTypeOK, TypeOK
  <1>1. CASE ValidatorStep
    <2>1. ASSUME NEW a \in Accounts, NEW k \in Keys, BondTx(a, k) PROVE SupplyIsHeld'
      BY <1>t, <2>1, BondTxSupply
    <2>2. ASSUME NEW v \in Validation, Sign(v) PROVE SupplyIsHeld'
      BY <2>2, SupplyKept DEF Sign, ledgerVars
    <2>3. ASSUME NEW a \in Accounts, NEW k \in Keys, ClaimReward(a, k) PROVE SupplyIsHeld'
      BY <1>t, <2>3, ClaimSupply
    <2> QED
      BY <1>1, <2>1, <2>2, <2>3 DEF ValidatorStep, BondStep
  <1>2. ASSUME NEW a \in Accounts, NEW v \in Vaults,
               \/ MintShares(a, v)
               \/ BurnShares(a, v)
               \/ \E b \in Accounts : SendShares(a, b, v)
        PROVE  SupplyIsHeld'
    <2>1. Transact(a, TRUE, PayFee(a), FALSE)
      BY <1>2 DEF MintShares, BurnShares, SendShares, MoveTx
    <2> QED
      BY <1>t, <2>1, MoveSupply
  <1>3. ASSUME NEW a \in Accounts, NEW v \in Vaults, ClaimLPReward(a, v)
        PROVE  SupplyIsHeld'
    <2> DEFINE ok == canClaimVault(a, v)
               share == IF ok THEN vaultShare(epoch, a, v) ELSE 0
    <2>1. share \in Nat /\ (ok => epoch # NoEpoch)
      BY <1>t, VaultShareTyped DEF canClaimVault
    <2>2. LpClaim(a, v, ok, share)
      BY <1>3 DEF ClaimLPReward
    <2> HIDE DEF share
    <2> QED
      BY <1>t, <2>1, <2>2, LpClaimSupply
  <1>4. ASSUME NEW a \in Accounts, NEW m \in Amms, ClaimAmmLpReward(a, m)
        PROVE  SupplyIsHeld'
    <2> DEFINE ok == canClaimAmm(a, m)
               share == IF ok THEN ammShare(epoch, a, m) ELSE 0
    <2>1. share \in Nat /\ (ok => epoch # NoEpoch)
      BY <1>t, AmmShareTyped DEF canClaimAmm
    <2>2. LpClaim(a, m, ok, share)
      BY <1>4 DEF ClaimAmmLpReward
    <2> HIDE DEF share
    <2> QED
      BY <1>t, <2>1, <2>2, LpClaimSupply
  <1>5. ASSUME NEW a \in Accounts, NEW m \in Amms, ProvideLiquidity(a, m)
        PROVE  SupplyIsHeld'
    <2>1. Transact(a, TRUE, PayFee(a), FALSE)
      BY <1>5 DEF ProvideLiquidity
    <2> QED
      BY <1>t, <2>1, MoveSupply
  <1>6. CASE BuildLedger
    BY <1>6, <1>t, BuildEffect, CloseSupply
  <1>7. CASE UNCHANGED lpVars
    BY <1>7, SupplyKept DEF lpVars, epochVars, bondVars, ledgerVars
  <1> QED
    BY <1>1, <1>2, <1>3, <1>4, <1>5, <1>6, <1>7 DEF LPNext, RewardTx, ProviderStep

\* With epochs, scorings and the three kinds of claims too, the supply in the
\* ledger header is what accounts, treasury, bonds and names hold: a reward is
\* paid out of the treasury and never minted.
THEOREM SupplyHeldWithRewards == LPSpec => []SupplyIsHeld
  <1>1. LPInit => SupplyIsHeld
    BY InitSupply DEF LPInit, EpochInit
  <1> QED
    BY <1>1, PoolAlways, NextRewardSupply, PTL DEF LPSpec

-----------------------------------------------------------------------------
(* The basket of the vault providers                                       *)

\* muldiv64 rounds down.
LEMMA MuldivRoundsDown ==
    ASSUME NEW a \in Nat, NEW b \in Nat, NEW d \in Nat \ {0}
    PROVE  d * muldiv64(a, b, d) <= a * b
  <1> DEFINE q == a \div d
             r == a % d
             x == r * b
             y == x \div d
  <1>1. a = d * q + r /\ q \in Nat /\ r \in Nat
    OBVIOUS
  <1> HIDE DEF q, r
  <1>2. x \in Nat
    BY <1>1
  <1> HIDE DEF x
  <1>3. y \in Nat /\ d * y <= x
    BY <1>2
  <1> HIDE DEF y
  <1>4. muldiv64(a, b, d) = q * b + y
    BY DEF muldiv64, q, r, x, y
  <1>5. q * b \in Nat
    BY <1>1
  <1>6. d * (q * b + y) = d * (q * b) + d * y
    BY <1>3, <1>5
  <1>7. a * b = (d * q) * b + r * b
    BY <1>1
  <1>8. (d * q) * b = d * (q * b)
    BY <1>1
  <1>9. d * (q * b) \in Nat /\ d * y \in Nat
    BY <1>3, <1>5
  <1> QED
    BY <1>2, <1>3, <1>4, <1>6, <1>7, <1>8, <1>9 DEF x

\* A table of shares and what it adds up to.
Table == [Vaults -> [Accounts -> Nat]]
Total(t) == SumFunction([v \in Vaults |-> SumFunction(t[v])])

\* A row of a table has a sum.
LEMMA RowTyped ==
    ASSUME NEW t \in Table, NEW v \in Vaults
    PROVE  t[v] \in [Accounts -> Nat] /\ t[v] \in [Accounts -> Int] /\ SumFunction(t[v]) \in Nat
  <1>1. t[v] \in [Accounts -> Nat] /\ t[v] \in [Accounts -> Int]
    BY DEF Table
  <1> QED
    BY <1>1, FiniteAssumption, SumTyped

\* So has the table.
LEMMA TotalTyped ==
    ASSUME NEW t \in Table
    PROVE  /\ [v \in Vaults |-> SumFunction(t[v])] \in [Vaults -> Int]
           /\ Total(t) \in Nat
  <1> DEFINE f == [v \in Vaults |-> SumFunction(t[v])]
  <1>1. f \in [Vaults -> Nat] /\ f \in [Vaults -> Int]
    BY RowTyped
  <1> HIDE DEF f
  <1>2. SumFunction(f) \in Nat
    BY <1>1, LPAssumption, SumTyped
  <1> QED
    BY <1>1, <1>2 DEF Total, f

\* Smaller entries, smaller total.
LEMMA TotalOrdered ==
    ASSUME NEW t \in Table, NEW u \in Table,
           \A v \in Vaults, a \in Accounts : t[v][a] <= u[v][a]
    PROVE  Total(t) <= Total(u)
  <1> DEFINE f == [v \in Vaults |-> SumFunction(t[v])]
             g == [v \in Vaults |-> SumFunction(u[v])]
  <1>1. f \in [Vaults -> Int] /\ g \in [Vaults -> Int]
    BY TotalTyped
  <1>2. ASSUME NEW v \in Vaults
        PROVE  f[v] <= g[v]
    <2>1. SumFunction(t[v]) <= SumFunction(u[v])
      BY RowTyped, FiniteAssumption, SumOrdered
    <2> QED
      BY <2>1
  <1> HIDE DEF f, g
  <1>3. SumFunction(f) <= SumFunction(g)
    BY <1>1, <1>2, LPAssumption, SumOrdered
  <1> QED
    BY <1>3 DEF Total, f, g

\* One entry less counts once in the total.
LEMMA TotalUpdate ==
    ASSUME NEW t \in Table, NEW u \in Table, NEW w \in Vaults, NEW b \in Accounts,
           u[w][b] = 0,
           \A v \in Vaults, a \in Accounts : v # w \/ a # b => u[v][a] = t[v][a]
    PROVE  Total(u) = Total(t) - t[w][b]
  <1> DEFINE f == [v \in Vaults |-> SumFunction(t[v])]
             g == [v \in Vaults |-> SumFunction(u[v])]
  <1>1. f \in [Vaults -> Int] /\ g \in [Vaults -> Int]
    BY TotalTyped
  <1>2. ASSUME NEW v \in Vaults, v # w
        PROVE  f[v] = g[v]
    <2>1. t[v] = u[v]
      <3>1. t[v] \in [Accounts -> Nat] /\ u[v] \in [Accounts -> Nat]
        BY RowTyped
      <3>2. \A a \in Accounts : u[v][a] = t[v][a]
        BY <1>2
      <3> QED
        BY <3>1, <3>2
    <2> QED
      BY <2>1
  <1>3. SumFunction(u[w]) = SumFunction(t[w]) - t[w][b] + u[w][b]
    <2> DEFINE x == t[w]
               y == u[w]
    <2>1. x \in [Accounts -> Int] /\ y \in [Accounts -> Int]
      BY RowTyped
    <2>2. \A a \in Accounts : a # b => x[a] = y[a]
      OBVIOUS
    <2> HIDE DEF x, y
    <2>3. SumFunction(y) = SumFunction(x) - x[b] + y[b]
      BY <2>1, <2>2, FiniteAssumption, SumUpdate
    <2> QED
      BY <2>3 DEF x, y
  <1>4. /\ f[w] = SumFunction(t[w]) /\ g[w] = SumFunction(u[w])
        /\ SumFunction(t[w]) \in Nat /\ t[w][b] \in Nat
    BY RowTyped DEF Table
  <1> HIDE DEF f, g
  <1>5. SumFunction(g) = SumFunction(f) - f[w] + g[w]
    BY <1>1, <1>2, LPAssumption, SumUpdate
  <1>6. SumFunction(f) \in Nat
    BY TotalTyped DEF Total, f
  <1>7. SumFunction(g) = SumFunction(f) - t[w][b]
    BY <1>3, <1>4, <1>5, <1>6
  <1> QED
    BY <1>7 DEF Total, f, g

\* The shares that can still claim in epoch number n.
OpenShares(last, n, held) ==
    [v \in Vaults |-> [a \in Accounts |-> IF last[v][a] < n THEN held[v][a] ELSE 0]]
Unserved == Total(OpenShares(lastClaim, epoch.number, shares))

\* Drops of the vault providers' basket.
LpBasket == Basket(epoch, epoch.lpBps)

\* While shares are only burned, what was paid and what the open shares can
\* still claim fit the basket, each weighted with the shares of the snapshot.
BasketShape ==
    epoch # NoEpoch =>
        /\ epoch.lpShares = 0 => lpPaid = 0
        /\ moved \subseteq {"burn"} =>
             lpPaid * epoch.lpShares + LpBasket * Unserved <= LpBasket * epoch.lpShares

\* Open shares are shares.
LEMMA OpenTyped ==
    ASSUME NEW last, NEW n, NEW held \in Table
    PROVE  /\ OpenShares(last, n, held) \in Table
           /\ Total(OpenShares(last, n, held)) \in Nat
           /\ Total(OpenShares(last, n, held)) <= Total(held)
  <1> DEFINE t == OpenShares(last, n, held)
  <1>1. t \in Table
    BY DEF Table, OpenShares
  <1>2. \A v \in Vaults, a \in Accounts : t[v][a] <= held[v][a]
    BY DEF Table, OpenShares
  <1> HIDE DEF t
  <1> QED
    BY <1>1, <1>2, TotalTyped, TotalOrdered DEF t

\* The basket of an epoch is a number.
LEMMA BasketTyped ==
    ASSUME LedgerTypeOK, epoch # NoEpoch
    PROVE  LpBasket \in Nat /\ epoch.lpShares \in Nat
  BY EpochTyped, BpsAssumption, MuldivNat DEF LpBasket, Basket

\* Fewer open shares, and nothing else changed, fit as well.
LEMMA BasketFits ==
    ASSUME NEW p \in Nat, NEW s \in Nat, NEW b \in Nat, NEW u \in Nat, NEW w \in Nat,
           w <= u, p * s + b * u <= b * s
    PROVE  p * s + b * w <= b * s
  <1>1. b * w <= b * u /\ b * w \in Nat
    BY TimesMonotone
  <1>2. p * s \in Nat /\ b * u \in Nat /\ b * s \in Nat
    OBVIOUS
  <1> QED
    BY <1>1, <1>2

\* A claim that is served uses up its shares.
LEMMA BasketServes ==
    ASSUME NEW p \in Nat, NEW s \in Nat, NEW b \in Nat, NEW u \in Nat,
           NEW x \in Nat, x <= u, NEW pay \in Nat, pay * s <= b * x,
           p * s + b * u <= b * s
    PROVE  (p + pay) * s + b * (u - x) <= b * s
  <1>1. (p + pay) * s = p * s + pay * s
    OBVIOUS
  <1>2. b * (u - x) = b * u - b * x
    OBVIOUS
  <1>3. /\ p * s \in Nat /\ pay * s \in Nat /\ b * u \in Nat /\ b * x \in Nat
        /\ b * s \in Nat
    OBVIOUS
  <1> QED
    BY <1>1, <1>2, <1>3

\* A vault provider's pay is within what its shares are worth.
LEMMA PayWithinShare ==
    ASSUME LedgerTypeOK, shares \in Table, NEW a \in Accounts, NEW v \in Vaults,
           canClaimVault(a, v), NEW pay \in Nat, pay <= vaultShare(epoch, a, v)
    PROVE  pay * epoch.lpShares <= LpBasket * shares[v][a]
  <1> DEFINE s == epoch.lpShares
             g == aggregateVaultShareSupply
             d == Greater(s, g)
             x == shares[v][a]
             b == LpBasket
             m == muldiv64(b, x, d)
  <1>1. s \in Nat \ {0} /\ b \in Nat
    BY BasketTyped DEF canClaimVault
  <1>2. g \in Nat /\ x \in Nat
    BY SupplyTyped DEF Table
  <1> HIDE DEF g, s, b, x
  <1>3. d \in Nat \ {0} /\ s <= d
    BY <1>1, <1>2 DEF Greater
  <1>4. vaultShare(epoch, a, v) = m
    BY DEF vaultShare, LpBasket, s, g, x, b
  <1> HIDE DEF d
  <1>5. m \in Nat /\ d * m <= b * x
    BY <1>1, <1>2, <1>3, MuldivNat, MuldivRoundsDown
  <1> HIDE DEF m
  <1>6. pay * s <= pay * d /\ pay * s \in Nat /\ pay * d \in Nat
    BY <1>1, <1>3, TimesMonotone
  <1>7. d * pay <= d * m /\ d * m \in Nat
    BY <1>3, <1>4, <1>5, TimesMonotone
  <1>8. pay * d = d * pay
    BY <1>3
  <1>9. b * x \in Nat
    BY <1>1, <1>2
  <1>10. pay * s <= b * x
    BY <1>5, <1>6, <1>7, <1>8, <1>9
  <1> QED
    BY <1>10 DEF s, b, x

\* The terms of the epoch that the basket depends on.
SameTerms ==
    /\ epoch = NoEpoch <=> epoch' = NoEpoch
    /\ epoch # NoEpoch =>
         /\ epoch'.number = epoch.number /\ epoch'.emission = epoch.emission
         /\ epoch'.lpBps = epoch.lpBps /\ epoch'.lpShares = epoch.lpShares

\* A step that serves nobody and opens no share keeps the basket.
LEMMA IdleBasket ==
    ASSUME LpTypeOK, LpTypeOK', BasketShape, SameTerms, UNCHANGED lpPaid,
           moved \subseteq moved',
           moved' \subseteq {"burn"} /\ epoch # NoEpoch => Unserved' <= Unserved
    PROVE  BasketShape'
  <1> SUFFICES ASSUME epoch' # NoEpoch
               PROVE  /\ epoch'.lpShares = 0 => lpPaid' = 0
                      /\ moved' \subseteq {"burn"} =>
                           lpPaid' * epoch'.lpShares + LpBasket' * Unserved'
                             <= LpBasket' * epoch'.lpShares
    BY DEF BasketShape
  <1>t. /\ LedgerTypeOK /\ shares \in Table /\ shares' \in Table /\ lpPaid \in Nat
        /\ epoch # NoEpoch
    BY DEF LpTypeOK, EpochTypeOK, TypeOK, Table, SameTerms
  <1>1. /\ LpBasket' = LpBasket /\ epoch'.lpShares = epoch.lpShares
        /\ LpBasket \in Nat /\ epoch.lpShares \in Nat
    BY <1>t, BasketTyped DEF SameTerms, LpBasket, Basket
  <1>2. Unserved \in Nat /\ Unserved' \in Nat
    BY <1>t, OpenTyped DEF Unserved
  <1>3. epoch'.lpShares = 0 => lpPaid' = 0
    BY <1>1, <1>t DEF BasketShape
  <1>4. ASSUME moved' \subseteq {"burn"}
        PROVE  lpPaid' * epoch'.lpShares + LpBasket' * Unserved'
                 <= LpBasket' * epoch'.lpShares
    <2>1. lpPaid * epoch.lpShares + LpBasket * Unserved <= LpBasket * epoch.lpShares
      BY <1>4, <1>t DEF BasketShape
    <2>2. Unserved' <= Unserved
      BY <1>4, <1>t
    <2>3. lpPaid * epoch.lpShares + LpBasket * Unserved' <= LpBasket * epoch.lpShares
      BY <1>1, <1>2, <1>t, <2>1, <2>2, BasketFits
    <2> QED
      BY <1>1, <2>3
  <1> QED
    BY <1>3, <1>4

\* Fewer open shares have a smaller total.
LEMMA UnservedFalls ==
    ASSUME shares \in Table, shares' \in Table, epoch'.number = epoch.number,
           \A v \in Vaults, a \in Accounts :
               OpenShares(lastClaim', epoch.number, shares')[v][a]
                 <= OpenShares(lastClaim, epoch.number, shares)[v][a]
    PROVE  Unserved' <= Unserved
  <1> DEFINE t == OpenShares(lastClaim, epoch.number, shares)
             u == OpenShares(lastClaim', epoch.number, shares')
  <1>1. t \in Table /\ u \in Table
    BY OpenTyped
  <1>2. Unserved = Total(t) /\ Unserved' = Total(u)
    BY DEF Unserved
  <1> HIDE DEF t, u
  <1>3. \A v \in Vaults, a \in Accounts : u[v][a] <= t[v][a]
    BY DEF t, u
  <1>4. Total(u) <= Total(t)
    BY <1>1, <1>3, TotalOrdered
  <1> QED
    BY <1>2, <1>4

\* A transaction that pays nobody keeps the basket: burning closes shares, and
\* the property is given up when shares are minted or sent.
LEMMA MovesBasket ==
    ASSUME LpTypeOK, LpTypeOK', BasketShape, Moves
    PROVE  BasketShape'
  <1>t. shares \in Table /\ shares' \in Table
    BY DEF LpTypeOK, Table
  <1>1. /\ UNCHANGED <<epoch, lastClaim, lpPaid>> /\ SameTerms
        /\ moved \subseteq moved'
    BY DEF Moves, SameTerms
  <1>2. ASSUME moved' \subseteq {"burn"}, epoch # NoEpoch
        PROVE  Unserved' <= Unserved
    <2>1. \A v \in Vaults, a \in Accounts : shares'[v][a] <= shares[v][a]
      <3>1. CASE UNCHANGED shares
        BY <1>t, <3>1 DEF Table
      <3>2. ASSUME NEW v \in Vaults, NEW a \in Accounts,
                   shares[v][a] > 0, shares' = [shares EXCEPT ![v][a] = @ - 1]
            PROVE  \A w \in Vaults, b \in Accounts : shares'[w][b] <= shares[w][b]
        BY <1>t, <3>2 DEF Table
      <3>3. ASSUME NEW how \in {"mint", "burn", "send"}, moved' = moved \cup {how}
            PROVE  how = "burn"
        BY <1>2, <3>3
      <3> QED
        BY <3>1, <3>2, <3>3 DEF Moves
    <2>2. \A v \in Vaults, a \in Accounts :
               OpenShares(lastClaim', epoch.number, shares')[v][a]
                 <= OpenShares(lastClaim, epoch.number, shares)[v][a]
      BY <1>1, <2>1 DEF OpenShares
    <2> QED
      BY <1>1, <1>t, <2>2, UnservedFalls
  <1> QED
    BY <1>1, <1>2, IdleBasket

\* A claim of a vault provider is served from the basket.
LEMMA VaultBasket ==
    ASSUME LpTypeOK, LpTypeOK', BasketShape, NEW a \in Accounts, NEW v \in Vaults,
           NEW pay \in Nat, VaultPaid(a, v, pay)
    PROVE  BasketShape'
  <1>t. /\ LedgerTypeOK /\ shares \in Table /\ lpPaid \in Nat
        /\ lastClaim \in [Pools -> [Accounts -> Nat]] /\ v \in Pools /\ Vaults \subseteq Pools
    BY DEF LpTypeOK, EpochTypeOK, TypeOK, Table, Pools
  <1>1. /\ canClaimVault(a, v) /\ Pays(a, pay) /\ pay <= vaultShare(epoch, a, v)
        /\ lpPaid' = lpPaid + pay /\ UNCHANGED <<shares, moved>>
        /\ lastClaim' = IF vaultShare(epoch, a, v) > 0
                        THEN [lastClaim EXCEPT ![v][a] = epoch.number] ELSE lastClaim
    BY DEF VaultPaid
  <1>2. /\ epoch # NoEpoch /\ epoch' # NoEpoch /\ epoch'.number = epoch.number
        /\ epoch'.emission = epoch.emission /\ epoch'.lpBps = epoch.lpBps
        /\ epoch'.lpShares = epoch.lpShares
    BY <1>1, <1>t, PaidEpoch
  <1>3. CASE ~(vaultShare(epoch, a, v) > 0)
    <2>1. vaultShare(epoch, a, v) \in Nat
      BY <1>1, <1>t, VaultShareTyped DEF Table
    <2>2. pay = 0 /\ UNCHANGED <<lpPaid, lastClaim>>
      BY <1>1, <1>3, <1>t, <2>1
    <2>3. Unserved' = Unserved
      BY <1>1, <1>2, <2>2 DEF Unserved
    <2>4. Unserved \in Nat
      BY <1>t, OpenTyped DEF Unserved
    <2> QED
      BY <1>1, <1>2, <2>2, <2>3, <2>4, IdleBasket DEF SameTerms
  <1>4. CASE vaultShare(epoch, a, v) > 0
    <2> DEFINE n == epoch.number
               t == OpenShares(lastClaim, n, shares)
               u == OpenShares(lastClaim', n, shares)
               x == shares[v][a]
    <2>0. n \in Nat /\ x \in Nat /\ epoch.lpShares # 0 /\ lastClaim[v][a] < n
      BY <1>1, <1>2, <1>t, EpochTyped DEF canClaimVault, Unclaimed, Table
    <2>1. t \in Table /\ u \in Table /\ Total(t) \in Nat
      BY <1>t, OpenTyped
    <2>2. t[v][a] = x
      BY <2>0 DEF OpenShares
    <2>3. lastClaim' = [lastClaim EXCEPT ![v][a] = n]
      BY <1>1, <1>4
    <2> HIDE DEF n
    <2>4. /\ lastClaim'[v][a] = n
          /\ \A w \in Vaults, b \in Accounts :
                 w # v \/ b # a => lastClaim'[w][b] = lastClaim[w][b]
      BY <1>t, <2>3
    <2>5. u[v][a] = 0
      BY <2>0, <2>4 DEF OpenShares
    <2>6. \A w \in Vaults, b \in Accounts : w # v \/ b # a => u[w][b] = t[w][b]
      BY <2>4 DEF OpenShares
    <2>7. Unserved = Total(t) /\ Unserved' = Total(u)
      BY <1>1, <1>2 DEF Unserved, n
    <2> HIDE DEF t, u
    <2>8. Total(u) = Total(t) - t[v][a]
      BY <2>1, <2>5, <2>6, TotalUpdate
    <2>9. Total(u) \in Nat
      BY <2>1, TotalTyped
    <2>10. Unserved' = Unserved - x /\ x <= Unserved /\ Unserved \in Nat
      BY <2>0, <2>1, <2>2, <2>7, <2>8, <2>9
    <2>11. pay * epoch.lpShares <= LpBasket * x
      BY <1>1, <1>t, PayWithinShare
    <2>12. LpBasket \in Nat /\ epoch.lpShares \in Nat /\ LpBasket' = LpBasket
      BY <1>2, <1>t, BasketTyped DEF LpBasket, Basket
    <2> HIDE DEF x
    <2>13. ASSUME moved' \subseteq {"burn"}
           PROVE  lpPaid' * epoch'.lpShares + LpBasket' * Unserved'
                    <= LpBasket' * epoch'.lpShares
      <3>1. lpPaid * epoch.lpShares + LpBasket * Unserved <= LpBasket * epoch.lpShares
        BY <1>1, <1>2, <2>13 DEF BasketShape
      <3>2. (lpPaid + pay) * epoch.lpShares + LpBasket * (Unserved - x)
              <= LpBasket * epoch.lpShares
        BY <1>t, <2>0, <2>10, <2>11, <2>12, <3>1, BasketServes
      <3> QED
        BY <1>1, <1>2, <2>10, <2>12, <3>2
    <2> QED
      BY <1>2, <2>0, <2>13 DEF BasketShape
  <1> QED
    BY <1>3, <1>4

\* A claim of an AMM provider opens no vault share.
LEMMA AmmBasket ==
    ASSUME LpTypeOK, LpTypeOK', BasketShape, NEW a \in Accounts, NEW m \in Amms,
           NEW pay \in Nat, AmmPaid(a, m, pay)
    PROVE  BasketShape'
  <1>t. /\ LedgerTypeOK /\ shares \in Table /\ shares' \in Table
        /\ lastClaim \in [Pools -> [Accounts -> Nat]] /\ m \in Pools /\ Vaults \subseteq Pools
    BY DEF LpTypeOK, EpochTypeOK, TypeOK, Table, Pools
  <1>1. /\ Pays(a, pay) /\ UNCHANGED <<shares, moved, lpPaid>>
        /\ \/ UNCHANGED lastClaim
           \/ lastClaim' = [lastClaim EXCEPT ![m][a] = epoch.number]
    BY DEF AmmPaid
  <1>2. SameTerms /\ epoch # NoEpoch /\ epoch'.number = epoch.number
    BY <1>1, <1>t, PaidEpoch DEF SameTerms
  <1>3. epoch.number \in Nat
    BY <1>2, <1>t, EpochTyped
  <1> DEFINE n == epoch.number
  <1>4. \A v \in Vaults, b \in Accounts :
            \/ lastClaim'[v][b] = lastClaim[v][b]
            \/ lastClaim'[v][b] = n
    <2> HIDE DEF n
    <2> SUFFICES ASSUME NEW v \in Vaults, NEW b \in Accounts
                 PROVE  \/ lastClaim'[v][b] = lastClaim[v][b]
                        \/ lastClaim'[v][b] = n
      OBVIOUS
    <2>1. v \in Pools
      BY <1>t
    <2>2. UNCHANGED lastClaim \/ lastClaim' = [lastClaim EXCEPT ![m][a] = n]
      BY <1>1 DEF n
    <2> QED
      BY <1>t, <2>1, <2>2
  <1> HIDE DEF n
  <1>5. ASSUME NEW v \in Vaults, NEW b \in Accounts
        PROVE  OpenShares(lastClaim', n, shares')[v][b] <= OpenShares(lastClaim, n, shares)[v][b]
    <2>1. shares'[v][b] = shares[v][b] /\ shares[v][b] \in Nat /\ n \in Nat
      BY <1>1, <1>3, <1>t DEF Table, n
    <2>2. ~(n < n)
      BY <2>1
    <2> QED
      BY <1>4, <2>1, <2>2 DEF OpenShares
  <1>6. Unserved' <= Unserved
    BY <1>2, <1>5, <1>t, UnservedFalls DEF n
  <1> QED
    BY <1>1, <1>2, <1>6, IdleBasket

\* A close opens an epoch whose snapshot counts every share, or keeps the terms.
LEMMA CloseBasket ==
    ASSUME LpTypeOK, BasketShape, Built
    PROVE  BasketShape'
  <1>1. /\ LpTypeOK' /\ UNCHANGED <<shares, lastClaim>> /\ (Opened \/ Kept)
    BY DEF Built
  <1>t. LedgerTypeOK /\ LedgerTypeOK' /\ shares \in Table /\ lpPaid \in Nat
    BY <1>1 DEF LpTypeOK, EpochTypeOK, TypeOK, Table
  <1>2. CASE Opened
    <2>1. /\ epoch' # NoEpoch /\ epoch'.lpShares = aggregateVaultShareSupply
          /\ lpPaid' = 0 /\ moved' = {}
      BY <1>2 DEF Opened, Opens
    <2> DEFINE s == Total(shares)
               w == Unserved'
               b == LpBasket'
    <2>2. s \in Nat /\ w \in Nat /\ w <= s
      BY <1>1, <1>t, OpenTyped, TotalTyped DEF Unserved
    <2>3. epoch'.lpShares = s
      BY <2>1 DEF aggregateVaultShareSupply, Supply, Total
    <2>4. b \in Nat
      <3>1. epoch' \in Epoch
        BY <1>t, <2>1 DEF LedgerTypeOK
      <3>2. epoch'.emission \in Nat /\ epoch'.lpBps \in Nat
        BY <3>1 DEF Epoch
      <3> QED
        BY <3>2, BpsAssumption, MuldivNat DEF LpBasket, Basket
    <2> HIDE DEF s, w, b
    <2>5. b * w <= b * s /\ b * w \in Nat
      BY <2>2, <2>4, TimesMonotone
    <2>6. 0 * s + b * w <= b * s
      BY <2>2, <2>5
    <2> QED
      BY <2>1, <2>3, <2>6 DEF BasketShape, w, b
  <1>3. CASE Kept
    <2>1. SameTerms /\ UNCHANGED <<lpPaid, moved>>
      BY <1>3 DEF Kept, Stays, SameTerms
    <2>2. epoch # NoEpoch => Unserved' = Unserved /\ Unserved \in Nat
      BY <1>1, <1>t, <2>1, OpenTyped DEF Unserved, SameTerms
    <2>3. epoch # NoEpoch => Unserved' <= Unserved
      BY <2>2
    <2> QED
      BY <1>1, <2>1, <2>3, IdleBasket
  <1> QED
    BY <1>1, <1>2, <1>3

\* A step that moves no share and keeps the terms keeps the basket.
LEMMA StillBasket ==
    ASSUME LpTypeOK, LpTypeOK', BasketShape, SameTerms,
           UNCHANGED <<shares, lastClaim, lpPaid, moved>>
    PROVE  BasketShape'
  <1>1. shares \in Table
    BY DEF LpTypeOK, EpochTypeOK, TypeOK, Table
  <1>2. epoch # NoEpoch => Unserved' = Unserved /\ Unserved \in Nat
    BY <1>1, OpenTyped DEF Unserved, SameTerms
  <1>3. epoch # NoEpoch => Unserved' <= Unserved
    BY <1>2
  <1> QED
    BY <1>3, IdleBasket

\* Every step keeps the basket.
LEMMA NextBasket == PoolInv /\ BasketShape /\ [LPNext]_lpVars => BasketShape'
  <1> SUFFICES ASSUME PoolInv, BasketShape, [LPNext]_lpVars PROVE BasketShape'
    OBVIOUS
  <1>t. LpTypeOK /\ TokensBounded /\ EpochShape /\ LedgerTypeOK /\ shares \in Table
    BY DEF PoolInv, LpTypeOK, EpochTypeOK, TypeOK, Table
  <1>1. CASE RewardTx
    <2>1. LpTypeOK' /\ Transacts
      BY <1>1, <1>t, TxEffect
    <2>2. CASE BondMoves
      BY <1>t, <2>1, <2>2, StillBasket DEF BondMoves, Positions, SameTerms
    <2>3. CASE Moves
      BY <1>t, <2>1, <2>3, MovesBasket
    <2>4. ASSUME NEW a \in Accounts, NEW k \in Keys, NEW pay \in Nat, KeyPaid(a, k, pay)
          PROVE  BasketShape'
      <3>1. Pays(a, pay) /\ UNCHANGED <<shares, lastClaim, lpPaid, moved>>
        BY <2>4 DEF KeyPaid, Rewards, Positions
      <3>2. SameTerms
        BY <1>t, <3>1, PaidEpoch DEF SameTerms
      <3> QED
        BY <1>t, <2>1, <3>1, <3>2, StillBasket
    <2>5. ASSUME NEW a \in Accounts, NEW v \in Vaults, NEW pay \in Nat, VaultPaid(a, v, pay)
          PROVE  BasketShape'
      BY <1>t, <2>1, <2>5, VaultBasket
    <2>6. ASSUME NEW a \in Accounts, NEW m \in Amms, NEW pay \in Nat, AmmPaid(a, m, pay)
          PROVE  BasketShape'
      BY <1>t, <2>1, <2>6, AmmBasket
    <2> QED
      BY <2>1, <2>2, <2>3, <2>4, <2>5, <2>6 DEF Transacts
  <1>2. CASE BuildLedger
    BY <1>2, <1>t, BuildEffect, CloseBasket
  <1>3. CASE UNCHANGED lpVars
    BY <1>3 DEF lpVars, epochVars, bondVars, ledgerVars, BasketShape, LpBasket, Unserved
  <1> QED
    BY <1>1, <1>2, <1>3 DEF LPNext

\* A number that fits a multiple fits.
LEMMA CancelFactor ==
    ASSUME NEW p \in Nat, NEW b \in Nat, NEW s \in Nat \ {0}, p * s <= b * s
    PROVE  p <= b
  <1> SUFFICES ASSUME p > b PROVE FALSE
    OBVIOUS
  <1>1. s * (b + 1) <= s * p
    BY TimesMonotone
  <1>2. s * (b + 1) = b * s + s /\ s * p = p * s /\ b * s \in Nat /\ p * s \in Nat
    OBVIOUS
  <1> QED
    BY <1>1, <1>2

\* No epoch, no score, no payment and no basket at first.
LEMMA InitShapes == LPInit => ScoreInv /\ PaidKeysMarked /\ BasketShape
  BY DEF LPInit, EpochInit, Init, LedgerInit, ScoreInv, Unscored, AggregateCoversBonded,
         HasStatus, Registered, PaidKeysMarked, PaidOnce, BasketShape

\* The shape of the basket bounds what was paid out of it.
LEMMA BasketBounds == PoolInv /\ BasketShape => LpBasketKept
  <1> SUFFICES ASSUME PoolInv, BasketShape, epoch # NoEpoch, moved \subseteq {"burn"}
               PROVE  lpPaid <= LpBasket
    BY DEF LpBasketKept, LpBasket
  <1>1. LedgerTypeOK /\ lpPaid \in Nat /\ shares \in Table
    BY DEF PoolInv, LpTypeOK, EpochTypeOK, TypeOK, Table
  <1>2. LpBasket \in Nat /\ epoch.lpShares \in Nat /\ Unserved \in Nat
    BY <1>1, BasketTyped, OpenTyped DEF Unserved
  <1>3. CASE epoch.lpShares = 0
    BY <1>2, <1>3 DEF BasketShape
  <1>4. CASE epoch.lpShares # 0
    <2>1. lpPaid * epoch.lpShares + LpBasket * Unserved <= LpBasket * epoch.lpShares
      BY DEF BasketShape
    <2>2. /\ LpBasket * Unserved \in Nat /\ lpPaid * epoch.lpShares \in Nat
          /\ LpBasket * epoch.lpShares \in Nat
      BY <1>1, <1>2
    <2>3. lpPaid * epoch.lpShares <= LpBasket * epoch.lpShares
      BY <2>1, <2>2
    <2> QED
      BY <1>1, <1>2, <1>4, <2>3, CancelFactor
  <1> QED
    BY <1>3, <1>4

\* As long as shares are only burned after the snapshot, the vault providers of
\* an epoch get no more than their basket, however many there are and in
\* whatever order they claim and withdraw (ClaimLPReward::doApply).
THEOREM BasketAlwaysKept == LPSpec => []LpBasketKept
  BY InitShapes, BasketBounds, PoolAlways, NextBasket, PTL DEF LPSpec

=============================================================================
