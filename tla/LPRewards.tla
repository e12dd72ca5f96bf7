----------------------------- MODULE LPRewards -----------------------------
(***************************************************************************)
(* Rewards for liquidity providers: ClaimLPReward pays holders of vault    *)
(* shares and ClaimAmmLpReward holders of AMM tokens, out of the pool that *)
(* ClaimReward pays validators from. The weights are read when an epoch    *)
(* opens and again when a claim is applied; shares are minted, burned and  *)
(* sent in between. With this module the reward system is complete:        *)
(* BuildLedger reads the providers from the ledger.                        *)
(*                                                                         *)
(* Of deposits, withdrawals and payments only the share balances are kept; *)
(* the assets behind them are not drops. The native reserve of an AMM is   *)
(* fixed: liquidity is provided in the other asset.                        *)
(***************************************************************************)
EXTENDS RewardEpoch

CONSTANTS
    Vaults, Amms,    \* ltVAULT objects, ltAMM objects with a native asset
    AmmReserve,      \* native drops of the account of every AMM
    MinMantissa,     \* smallest mantissa of a normalised STAmount
    MaxShares,       \* bound: shares of one vault
    MaxTokens        \* bound: tokens of one AMM

ASSUME LPAssumption ==
    /\ IsFiniteSet(Vaults) /\ IsFiniteSet(Amms)
    /\ AmmReserve \in Nat \ {0}
    /\ MinMantissa \in Nat \ {0}
    /\ MaxTokens \in Nat /\ MaxTokens < 10 * MinMantissa

VARIABLES
    shares,          \* sfMPTAmount of every account in the shares of every vault
    tokens,          \* AMM tokens of every account, the balance of a trust line
    lastClaim,       \* sfLastClaimedEpoch of ltPOP_LP_STATE, 0 without one
    lpPaid,          \* history: drops paid to vault providers in this epoch
    moved            \* history: how shares moved since the epoch opened

lpVars == <<epochVars, shares, tokens, lastClaim, lpPaid, moved>>

Pools == Vaults \cup Amms
Supply(held) == SumFunction(held)

-----------------------------------------------------------------------------
(* What applyRewardEpoch reads of the providers.                           *)

aggregateVaultShareSupply == SumFunction([v \in Vaults |-> Supply(shares[v])])

countActiveLpProviders ==
    Cardinality({a \in Accounts : \E v \in Vaults : shares[v][a] > 0})

\* The issuer of the sfBalance of a trust line is noAccount(), whoever issued
\* the tokens; only the limits name the two accounts.
LineIssuer(m) == NoAccount

countAmmLpProviders ==
    Cardinality({a \in Accounts :
                    \E m \in Amms : tokens[m][a] > 0 /\ LineIssuer(m) = m})

liveAggregateNativeAmmTvl == AmmReserve * Cardinality(Amms)

VaultSnapshot ==
    [providers |-> countActiveLpProviders, total |-> aggregateVaultShareSupply]
AmmSnapshot ==
    [providers |-> countAmmLpProviders, total |-> liveAggregateNativeAmmTvl]

-----------------------------------------------------------------------------
(* The two claims.                                                         *)

Basket(e, bps) == muldiv64(e.emission, bps, BpsDenom)

Greater(x, y) == IF x >= y THEN x ELSE y

\* Mutant: the snapshot is not a floor of the denominator.
vaultLiveShare(e, a, v) ==
    muldiv64(Basket(e, e.lpBps), shares[v][a], aggregateVaultShareSupply)

vaultShare(e, a, v) ==
    muldiv64(Basket(e, e.lpBps), shares[v][a],
             Greater(e.lpShares, aggregateVaultShareSupply))

\* The mantissa an amount is stored with: at least MinMantissa.
normalize[x \in 1..(10 * MinMantissa - 1)] ==
    IF x < MinMantissa THEN normalize[10 * x] ELSE x

positiveMantissa(n) == IF n = 0 THEN 0 ELSE normalize[n]

ammShare(e, a, m) ==
    LET poolBasket == muldiv64(Basket(e, e.ammBps), AmmReserve,
                               Greater(e.ammTvl, liveAggregateNativeAmmTvl))
    IN  muldiv64(poolBasket, positiveMantissa(tokens[m][a]),
                 positiveMantissa(Supply(tokens[m])))

Unclaimed(a, p) == lastClaim[p][a] < epoch.number

canClaimVault(a, v) ==
    /\ epoch # NoEpoch
    /\ epoch.lpBps # 0 /\ epoch.lpShares # 0
    /\ shares[v][a] # 0
    /\ Unclaimed(a, v)

canClaimAmm(a, m) ==
    /\ epoch # NoEpoch
    /\ epoch.ammBps # 0 /\ epoch.ammTvl # 0
    /\ tokens[m][a] > 0
    /\ Unclaimed(a, m)

\* Both doApply end alike. A share of zero succeeds and leaves no mark.
lpClaimFunded(share) ==
    share > 0 => epoch.pool > 0 /\ treasury >= Lesser(share, epoch.pool)

\* Mutant: the pool is not debited.
lpClaimKeepsPool(v, a, share) ==
    LET pay == Lesser(share, v.epoch.pool)
    IN  [v EXCEPT !.treasury = @ - pay, !.balance[a] = @ + pay]

\* Mutant: the hard cap at the remaining pool is gone.
lpClaimUncapped(v, a, share) ==
    [v EXCEPT !.treasury = @ - share, !.balance[a] = @ + share,
              !.epoch.pool = @ - share]

lpClaimApply(v, a, share) ==
    LET pay == Lesser(share, v.epoch.pool)
    IN  [v EXCEPT !.treasury = @ - pay, !.balance[a] = @ + pay,
                  !.epoch.pool = @ - pay]

\* Claim of account a on pool p with guard ok and share of the basket.
LpClaim(a, p, ok, share) ==
    LET can == ok /\ lpClaimFunded(share)
        v   == lpClaimApply(PayFee(a), a, share)
    IN  /\ Transact(a, can, v, FALSE)
        /\ lastClaim' = IF Succeeds(a, can, v, FALSE) /\ share > 0
                        THEN [lastClaim EXCEPT ![p][a] = epoch.number]
                        ELSE lastClaim
        /\ paid' = paid + Received(a)
        /\ UNCHANGED <<signed, claims, shares, tokens, moved>>

ClaimLPReward(a, v) ==
    LET ok == canClaimVault(a, v)
    IN  /\ LpClaim(a, v, ok, IF ok THEN vaultShare(epoch, a, v) ELSE 0)
        /\ lpPaid' = lpPaid + (paid' - paid)

ClaimAmmLpReward(a, m) ==
    LET ok == canClaimAmm(a, m)
    IN  /\ LpClaim(a, m, ok, IF ok THEN ammShare(epoch, a, m) ELSE 0)
        /\ UNCHANGED lpPaid

-----------------------------------------------------------------------------
(* How positions change: VaultDeposit, VaultWithdraw, a payment of shares, *)
(* AMMDeposit, reduced to the balances the claims read. They are allowed   *)
(* more than the code allows: what the assets are worth, and whether the   *)
(* sender has them, is left open.                                          *)

MoveTx(a, ok, how, held) ==
    /\ ok
    /\ Transact(a, TRUE, PayFee(a), FALSE)
    /\ IF Succeeds(a, TRUE, PayFee(a), FALSE)
       THEN shares' = held /\ moved' = moved \cup {how}
       ELSE UNCHANGED <<shares, moved>>
    /\ UNCHANGED <<signed, claims, paid, tokens, lastClaim, lpPaid>>

MintShares(a, v) ==
    MoveTx(a, Supply(shares[v]) < MaxShares, "mint",
           [shares EXCEPT ![v][a] = @ + 1])

BurnShares(a, v) ==
    MoveTx(a, shares[v][a] > 0, "burn", [shares EXCEPT ![v][a] = @ - 1])

SendShares(a, b, v) ==
    MoveTx(a, a # b /\ shares[v][a] > 0, "send",
           [shares EXCEPT ![v][a] = @ - 1, ![v][b] = @ + 1])

ProvideLiquidity(a, m) ==
    /\ Supply(tokens[m]) < MaxTokens
    /\ Transact(a, TRUE, PayFee(a), FALSE)
    /\ tokens' = IF Succeeds(a, TRUE, PayFee(a), FALSE)
                 THEN [tokens EXCEPT ![m][a] = @ + 1] ELSE tokens
    /\ UNCHANGED <<signed, claims, paid, shares, lastClaim, lpPaid, moved>>

-----------------------------------------------------------------------------

CloseRewards(e, raw) ==
    /\ CloseWith(e, raw)
    /\ IF e # NoEpoch /\ e.start = seq
       THEN lpPaid' = 0 /\ moved' = {}
       ELSE UNCHANGED <<lpPaid, moved>>
    /\ UNCHANGED <<shares, tokens, lastClaim>>

\* buildLedgerImpl with the epoch and scoring phases.
BuildLedger ==
    \E raw \in [Keys -> RawScores] :
        CloseRewards(closedEpoch(VaultSnapshot, AmmSnapshot, raw), raw)

ProviderStep ==
    \E a \in Accounts :
        \/ \E v \in Vaults : \/ ClaimLPReward(a, v)
                             \/ MintShares(a, v)
                             \/ BurnShares(a, v)
                             \/ \E b \in Accounts : SendShares(a, b, v)
        \/ \E m \in Amms : ClaimAmmLpReward(a, m) \/ ProvideLiquidity(a, m)

LPInit ==
    /\ EpochInit
    /\ shares = [v \in Vaults |-> [a \in Accounts |-> 0]]
    /\ tokens = [m \in Amms |-> [a \in Accounts |-> 0]]
    /\ lastClaim = [p \in Pools |-> [a \in Accounts |-> 0]]
    /\ lpPaid = 0
    /\ moved = {}

RewardTx ==
    \/ ValidatorStep /\ UNCHANGED <<shares, tokens, lastClaim, lpPaid, moved>>
    \/ ProviderStep

LPNext == RewardTx \/ BuildLedger

LPSpec == LPInit /\ [][LPNext]_lpVars

-----------------------------------------------------------------------------
(* Properties                                                              *)

\* No claim of the three kinds overdraws the treasury or the pool, which the
\* code keeps as unsigned numbers.
LpTypeOK ==
    /\ EpochTypeOK
    /\ shares \in [Vaults -> [Accounts -> Nat]]
    /\ tokens \in [Amms -> [Accounts -> Nat]]
    /\ lastClaim \in [Pools -> [Accounts -> Nat]]
    /\ lpPaid \in Nat

\* While no share is minted or sent, the vault providers of an epoch get no
\* more than their basket, although each withdrawal shrinks the supply that a
\* later claim of ClaimLPReward is measured against.
LpBasketKept ==
    epoch # NoEpoch /\ moved \subseteq {"burn"}
        => lpPaid <= Basket(epoch, epoch.lpBps)

=============================================================================
