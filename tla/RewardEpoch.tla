---------------------------- MODULE RewardEpoch ----------------------------
(***************************************************************************)
(* Reward epochs: the close of a ledger opens an epoch at every epoch      *)
(* boundary and scores the bonded validators at every flag ledger, and     *)
(* ClaimReward pays a validator its share of the epoch's pool out of the   *)
(* treasury. LPRewards completes the specification with the vault and AMM  *)
(* liquidity providers, who are paid out of the same pool.                 *)
(*                                                                         *)
(* The raw score of a validator comes from the validations the building    *)
(* node has seen and is an input here; ValidatorScoring models it.         *)
(***************************************************************************)
EXTENDS ValidatorBonds

CONSTANTS
    EpochLedgers,        \* kQXRP_LEDGERS_PER_EPOCH
    FlagInterval,        \* kFLAG_LEDGER_INTERVAL
    FirstEmissionEpoch,  \* kQXRP_FIRST_EMISSION_EPOCH
    EmissionBps(_),      \* cidEmissionBps
    TreasuryPerBps,      \* kQXRP_TREASURY_ALLOCATION / kBPS_DENOM
    TreasurySensitivity, \* kFEE_TREASURY_SENSITIVITY_BPS
    BpsPerProvider,      \* kQXRP_POPL_LP_BPS_PER_PROVIDER
    MaxProviders,        \* kQXRP_POPL_LP_MAX_PROVIDERS
    MaxLpBps,            \* kQXRP_POPL_LP_MAX_BPS
    MinComposite,        \* kMIN_COMPOSITE_SCORE_BPS
    EmaNewBps,           \* kSCORE_EMA_NEW_BPS
    RawScores            \* raw scores a window can give

ASSUME EpochAssumption ==
    /\ EpochLedgers \in Nat \ {0} /\ FlagInterval \in Nat \ {0}
    /\ FirstEmissionEpoch \in Nat
    /\ \A n \in 0..MaxSeq : EmissionBps(n) \in 0..BpsDenom
    /\ TreasuryPerBps \in Nat \ {0} /\ TreasurySensitivity \in Nat
    /\ BpsPerProvider \in Nat /\ MaxProviders \in Nat /\ MaxLpBps \in Nat
    /\ MinComposite \in Nat /\ EmaNewBps \in 0..BpsDenom
    /\ RawScores \subseteq 0..BpsDenom

\* 172 800 and 262 800 ledgers; a build that overrides the length of an epoch
\* (QXRP_EPOCH_LEDGERS) has to keep it so.
ASSUME LockAssumption == EpochLedgers <= LockLedgers

VARIABLES
    claims,      \* history: paying claims of each key in the current epoch
    paid         \* history: drops paid out of the current epoch's pool

epochVars == <<bondVars, claims, paid>>

-----------------------------------------------------------------------------
(* applyRewardEpoch                                                        *)

poplLpParticipationBps(providers) ==
    Lesser(Lesser(providers, MaxProviders) * BpsPerProvider, MaxLpBps)

\* Burn fraction from how full the treasury still is.
PressureBurnBps(t) ==
    Clamp(BurnDefaultBps
            + ((t \div TreasuryPerBps) * TreasurySensitivity) \div BpsDenom,
          BurnMinBps, BurnMaxBps)

\* Mutant: the pool is opened without the LP part, the emission with it.
NewEpochNetPool(t, s, lp, amm) ==
    LET n    == s \div EpochLedgers
        pool == muldiv64(t, EmissionBps(n), BpsDenom)
        lpb  == poplLpParticipationBps(lp.providers)
    IN  [number |-> n, start |-> s,
         pool |-> muldiv64(pool, BpsDenom - lpb, BpsDenom), emission |-> pool,
         lpBps |-> lpb, lpShares |-> lp.total,
         ammBps |-> poplLpParticipationBps(amm.providers), ammTvl |-> amm.total,
         aggregate |-> 0, burnBps |-> PressureBurnBps(t), proposals |-> <<>>]

\* lp and amm: number of providers and total weight of the vault shares and of
\* the AMM positions found in the ledger.
NewEpoch(t, s, lp, amm) ==
    LET n    == s \div EpochLedgers
        bps  == IF n < FirstEmissionEpoch THEN 0 ELSE EmissionBps(n)
        pool == muldiv64(t, bps, BpsDenom)
    IN  [number |-> n, start |-> s, pool |-> pool, emission |-> pool,
         lpBps |-> poplLpParticipationBps(lp.providers), lpShares |-> lp.total,
         ammBps |-> poplLpParticipationBps(amm.providers), ammTvl |-> amm.total,
         aggregate |-> 0, burnBps |-> PressureBurnBps(t), proposals |-> <<>>]

applyRewardEpoch(e, t, s, lp, amm) ==
    IF s % EpochLedgers = 0 /\ t > 0 THEN NewEpoch(t, s, lp, amm) ELSE e

-----------------------------------------------------------------------------
(* applyValidatorScoring                                                   *)

emaComposite(raw, previous) ==
    IF previous = 0
    THEN raw
    ELSE (raw * EmaNewBps + previous * (BpsDenom - EmaNewBps)) \div BpsDenom

ScoreBond(b, raw) ==
    [b EXCEPT !.composite = emaComposite((raw * b.mult) \div BpsDenom, @)]

\* A flag ledger whose parent has a full window of ancestors in its skip list.
ScoringLedger(s) == s % FlagInterval = 0 /\ s - 2 >= FlagInterval

BondedIn(bs) == {k \in Keys : bs[k] # NoBond /\ bs[k].status = "BONDED"}

scoredBonds(bs, s, raw) ==
    IF ScoringLedger(s)
    THEN [k \in Keys |->
            IF k \in BondedIn(bs) THEN ScoreBond(bs[k], raw[k]) ELSE bs[k]]
    ELSE bs

\* Mutant: only the best score is counted, as with an active set of one.
sumActiveSet(bs) ==
    LET scores == {bs[k].composite : k \in BondedIn(bs)} \cup {0}
    IN  CHOOSE c \in scores : \A d \in scores : d <= c

sumAggregateComposites(bs) ==
    SumFunction([k \in BondedIn(bs) |-> bs[k].composite])

scoredEpoch(e, bs, s) ==
    IF ScoringLedger(s) /\ e # NoEpoch
    THEN [e EXCEPT !.aggregate = sumAggregateComposites(bs)]
    ELSE e

-----------------------------------------------------------------------------
(* ClaimReward                                                             *)

ValidatorBps(e) == BpsDenom - Lesser(BpsDenom, e.lpBps + e.ammBps)

RewardShare(e, b) ==
    muldiv64(muldiv64(e.emission, ValidatorBps(e), BpsDenom), b.composite, e.aggregate)

RewardPay(e, b) == Lesser(RewardShare(e, b), e.pool)

Claimable(k) ==
    /\ HasStatus(k, "BONDED")
    /\ bonds[k].composite >= MinComposite
    /\ epoch # NoEpoch
    /\ bonds[k].claimed < epoch.number
    /\ epoch.aggregate # 0

canClaim(a, k) ==
    /\ OwnedBy(k, a)
    /\ Claimable(k)
    /\ RewardShare(epoch, bonds[k]) > 0 =>
         epoch.pool > 0 /\ treasury >= RewardPay(epoch, bonds[k])

\* Mutant: the pool is not debited.
claimApplyKeepsPool(v, a, k) ==
    LET pay == RewardPay(v.epoch, v.bonds[k])
    IN  [v EXCEPT !.treasury = @ - pay, !.balance[a] = @ + pay,
                  !.bonds[k].claimed = v.epoch.number]

\* Mutant: the bond is not marked as having claimed.
claimApplyUnmarked(v, a, k) ==
    LET pay == RewardPay(v.epoch, v.bonds[k])
    IN  [v EXCEPT !.treasury = @ - pay, !.balance[a] = @ + pay,
                  !.epoch.pool = @ - pay]

\* A share that rounds to zero succeeds without marking the epoch as claimed.
claimApply(v, a, k) ==
    LET pay == RewardPay(v.epoch, v.bonds[k])
    IN  IF pay = 0 THEN v
        ELSE [v EXCEPT !.treasury = @ - pay,
                       !.balance[a] = @ + pay,
                       !.epoch.pool = @ - pay,
                       !.bonds[k].claimed = v.epoch.number]

\* What a transaction of account a in this step earned it, its fee aside.
Received(a) == balance'[a] - balance[a] + Lesser(Fee, balance[a])

ClaimReward(a, k) ==
    /\ Transact(a, canClaim(a, k), claimApply(PayFee(a), a, k), FALSE)
    /\ UNCHANGED signed
    /\ paid' = paid + Received(a)
    /\ claims' = IF Received(a) > 0 THEN [claims EXCEPT ![k] = @ + 1] ELSE claims

-----------------------------------------------------------------------------

\* buildLedgerImpl after the transactions: the epoch phase, then the scoring
\* phase, which sees the new epoch.
closedEpoch(lp, amm, raw) ==
    scoredEpoch(applyRewardEpoch(epoch, treasury, seq, lp, amm),
                scoredBonds(bonds, seq, raw), seq)

CloseWith(e, raw) ==
    /\ NextLedger
    /\ bonds' = scoredBonds(bonds, seq, raw)
    /\ epoch' = e
    /\ IF e # NoEpoch /\ e.start = seq
       THEN claims' = [k \in Keys |-> 0] /\ paid' = 0
       ELSE UNCHANGED <<claims, paid>>
    /\ UNCHANGED <<balance, ownerCount, treasury, drops, names, nameOf, signed>>

BondStep ==
    /\ \/ \E a \in Accounts, k \in Keys : BondTx(a, k)
       \/ \E v \in Validation : Sign(v)
    /\ UNCHANGED <<claims, paid>>

EpochInit ==
    /\ Init
    /\ claims = [k \in Keys |-> 0]
    /\ paid = 0

ValidatorStep ==
    BondStep \/ \E a \in Accounts, k \in Keys : ClaimReward(a, k)

-----------------------------------------------------------------------------
(* Properties                                                              *)

EpochTypeOK == TypeOK /\ claims \in [Keys -> Nat] /\ paid \in Nat

\* The pool is only a commitment, yet the treasury can always honour what is
\* left of it: the treasury check of ClaimReward::doApply never refuses a claim
\* that the pool admits, in whatever order epochs open and claims arrive.
PoolFunded == epoch # NoEpoch => epoch.pool <= treasury

\* What an epoch paid to its claimants and what it can still pay make up its
\* emission: every claim lowers sfEpochPoolBalance by exactly what it pays.
PoolAccounting == epoch # NoEpoch => epoch.pool + paid = epoch.emission

\* Once the aggregate is known no bonded score is missing from it, although
\* bonds come and go between two scorings, so that muldiv64's precondition
\* b <= d holds in every ClaimReward.
AggregateCoversBonded ==
    epoch # NoEpoch /\ epoch.aggregate # 0
        => SumFunction([k \in BondedIn(bonds) |-> bonds[k].composite])
             <= epoch.aggregate

\* A consensus key is paid at most once in an epoch, even when its bond is
\* released and the key registered again, which forgets sfLastClaimedEpoch.
OneRewardPerEpoch == \A k \in Keys : claims[k] <= 1

=============================================================================
