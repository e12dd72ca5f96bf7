# FalconLedger: a verification project for the qXRP ledger logic

FalconLedger is a fork of `rippled`. Its own core logic is the *Proof of
Participation* economy that the ledger runs on top of the upstream engine:
validators lock a bond, are scored at flag ledgers, claim a share of an epoch's
emission from the treasury, can be slashed for signing two ledgers, and vote on
the burn fraction of fees; accounts bond names; liquidity providers share the
emission; borrowers pledge native collateral to vaults. Every node executes this
code on every ledger and must reach the same, correct state. This directory
holds TLA+ modules for it and for the container of validations that scoring and
slashing depend on, TLC configurations, and theorems that TLAPS checks. Paths
below are relative to the repository.

## 1. Inventory

| Component | Source | State | Operations | Interacts through |
|---|---|---|---|---|
| Transaction engine | `src/libxrpl/tx/Transactor.cpp`, `ApplyContext.cpp`, `invariants/` | account balances, supply in the header, treasury balance | `payFee`, `doApply` on a view, `reset`, invariant checks, `destroyXRP` (fee split), `burnXRP` | runs every transactor |
| Validator bonds | `transactors/qxrp/Validator{Register,Bond,Unbond,Slash}.cpp`, `ReleaseBond.cpp` | `ltVALIDATOR_BOND` (by consensus key) | register, bond, unbond, release, slash | balances, owner count; read by scoring, claims and governance |
| Reward epochs | `tx/RewardEpoch.cpp`, `ClaimReward.cpp` | `ltREWARD_EPOCH` singleton | open an epoch, claim | treasury, bonds; holds the aggregate score, the burn fraction and the list of proposals for others |
| Emission curve | `include/xrpl/tx/PoPLEmission.h` | none | `cidEmissionBps`, `poplLpParticipationBps` | called by `applyRewardEpoch` |
| Validator scoring | `xrpld/app/ledger/detail/ValidatorScoring.cpp` | score fields of bonds, aggregate score | score a window at a flag ledger | validations seen by the building node |
| Governance | `GovernanceProposal.cpp`, `GovernanceVote.cpp`, `GovernanceTally.cpp` | `ltGOVERNANCE_PROPOSAL`, `ltGOVERNANCE_PARAMS` | propose, vote, tally, prune | list in `ltREWARD_EPOCH`, weights in bonds |
| Ledger building | `BuildLedger.cpp` | the ledger being built | transactions, then epoch, scoring, tally, pruning | orders all of the above |
| Account names | `NameSet.cpp`, `NameUnbond.cpp`, `NameRelease.cpp` | `ltACCOUNT_NAME`, reverse pointer | set, unbond, release | balances, owner count |
| LP rewards | `ClaimLPReward.cpp`, `ClaimAmmLpReward.cpp` | claim marks | claim | epoch pool, treasury, vault and AMM shares |
| Lending and vaults | `transactors/lending/`, `transactors/vault/`, `ledger/helpers/LendingHelpers.cpp` | `ltVAULT`, `ltLOAN_BROKER`, `ltLOAN`, debt of share holders | deposit, withdraw, send shares, lend, pay, impair, default, liquidate, claim | AMM price, brokers' accounts |
| Validations and signing | `xrpld/consensus/Validations.h`, `RCLValidations.cpp`, `RCLConsensus.cpp` | current and stored validations, enforcers, ledger trie, last own signature | receive, acquire, trust change, expire, sign, restart | scoring reads it; signatures are the evidence for slashes |
| Rest of consensus, overlay, bridge, crypto, storage, RPC | upstream or separate programs | | | see "Not modelled" |

A ledger is built sequentially. What is hard is the order in which independent
accounts' transactions and the close phases meet, over many ledgers, on shared
objects, and, outside the ledger, the order in which messages reach a server:

* a singleton (`ltREWARD_EPOCH`) that one phase replaces whole while three
  other components keep state in it;
* values cached in one object and used later in another (aggregate score, vote
  weights, provider totals, liquidation index, the claim mark in a bond that can
  be deleted);
* a pool that is only a promise on the treasury, and three kinds of claims that
  race for it; a broker's account that holds collateral and forfeited collateral
  in one balance;
* a transaction that fails half way and must leave nothing but its fee;
* anyone may submit releases, slashes and liquidations of somebody else's object;
* objects that are written in one ledger and cannot be read in the next, because
  a field was stored with its default value;
* locks and voting windows that end exactly at a ledger;
* 32-bit arithmetic whose edge is years away;
* validations that arrive late, repeatedly, in conflict and out of order, while
  trust changes, ledgers are still being fetched and servers restart;
* a decision taken at the start of a round and used at its end, after the round
  has moved to another ledger (not modelled, see section 5).

`PROJECT.json` lists each of these under `hazards`, at its line, with the
properties aimed at it.

## 2. Modules

| Module | Models | Extends |
|---|---|---|
| `QXRPLedger` | the shared ledger state and the engine every transactor runs through | |
| `ValidatorBonds` | the five bond transactions and the validations that can be evidence | `QXRPLedger` |
| `AccountNames` | the three name transactions, beside the bond transactions | `ValidatorBonds` |
| `TimedEscrow` | abstract specification: what a locked object promises | |
| `RewardEpoch` | epochs, the effect of scoring, `ClaimReward` | `ValidatorBonds` |
| `LPRewards` | `ClaimLPReward`, `ClaimAmmLpReward`, movements of shares; closes the reward system | `RewardEpoch` |
| `Governance` | proposals, votes, tally; composed with everything above | `LPRewards` |
| `PoPLEmission` | the emission curve with its real constants and 32-bit wrap | |
| `Lending` | one vault, its lenders, brokers and loans, and forfeited collateral | |
| `ValidationTables` | the container of validations as operators on a record | |
| `Validations` | one server: its container, trusted list, signatures, restarts | `ValidationTables` |
| `ValidatorScoring` | two servers that score one window from their own containers | `ValidationTables` |
| `Sums_proofs` | lemmas on sums and other recursions over finite sets | |
| `ValidatorBonds_proofs`, `AccountNames_proofs`, `LPRewards_proofs`, `Governance_proofs`, `Lending_proofs`, `PoPLEmission_proofs`, `Validations_proofs` | theorems on the module of the name; the first also has the lemmas on `QXRPLedger` | that module |
| `MC*` | instances for TLC | |

**State.** Each ledger object is a function from its key to a record of the
fields that some handler reads, or to an absent value: `bonds` is
`ltVALIDATOR_BOND`, `epoch` the `ltREWARD_EPOCH` singleton, `proposals`
`ltGOVERNANCE_PROPOSAL`, `params` the `sfCurrentBurnBps` of
`ltGOVERNANCE_PARAMS`. `balance`, `ownerCount`, `treasury` and `drops` are the
account roots and the header; `names` is `ltACCOUNT_NAME` and `nameOf` the
reverse pointer `sfAccountName`. `shares`, `tokens` and `lastClaim` are the
positions of liquidity providers and `ltPOP_LP_STATE`. `claims`, `paid`,
`lpPaid`, `moved` (rewards), `earned` (lending) and `changed` (in
`Validations`) are history variables for properties; `signed` in
`ValidatorBonds` is the set of validations that exist.

**Unreadable objects.** `STObject::applyTemplate` throws when an object is read
back from a closed ledger with a `SoeDefault` field that holds its default value.
Two places of the governance code store such fields. `Readable` says which
proposals a later ledger can read, `unreadable` that the epoch object cannot be
read. A vote that reads such a proposal is dropped without a fee
(`tefEXCEPTION`) and is not a step; a close that reads one throws out of
`buildLedgerImpl`, so `CloseGoverned` is disabled; with the epoch unreadable every
transaction, which reads it to split the fee, is dropped.

**Transactions.** A transactor is three definitions: a condition (`canBond`:
`preclaim` and the early returns of `doApply`), a function on a view
(`bondApply`: what `doApply` writes) and the action (`ValidatorBond`). The
action goes through `Transact`, the engine: the fee is taken first; if the
conditions and the drop invariants hold, the view is committed and the fee split
into a burned and a treasury part; otherwise the view is dropped and the fee, or
what the account still has, is claimed. Results outside `tesSUCCESS` and `tec`
change nothing and are not steps. So every action includes its failing case, and
failing transactions of any account are part of every run.

**Closing a ledger** is one action per level of composition: `CloseLedger`
(bonds and names), `BuildLedger` (epoch phase, then scoring), `CloseGoverned`
(then tally and pruning), in the order of `buildLedgerImpl`.

**Lending.** A transaction of `Lending` is one action with the guards of
`preclaim` and `doApply`; a failing one changes none of the objects and is not a
step, but for the claim on forfeited collateral, whose failure is the question
(`claimSucceeds`). `vault` is `ltVAULT` with its liquidation pool and index;
`debt` is `sfLiquidationDebt`, absent when it is zero, as a default-valued field
is stored. Index and debt are kept in units of `1/IndexScale` drop, chosen so
that every division is exact: `Number` has 16 digits, and rounding of the index
is not the question. An early payment in full drops `Penalty` of the interest
that is still owed, or all that is owed if that is less. Shares are paid from
lender to lender (`SendShares`) unless the vault was created with
`tfVaultShareNonTransferable`, which `transferable` keeps from the start on; a
payment leaves both debts as they are, and a holder of no shares may delete its
`MPToken` with the debt in it (`MPTokenUnauthorize`).

**Validations.** Every method of the container runs under its mutex and is one
step. What is not under it is interleaved: the trusted list changes before the
container is told, the trust of a signer is read before the lock, a ledger is
fetched by another job. Where the code walks a hash map, the operator returns
the set of outcomes of every order (`checkAcquired`, `trustChanged`). A restart
empties the container. `Validate` leaves open which rounds may sign: the check of
`preStartRound` is made at the start of a round, which may then move to another
ledger, so a round signs any ledger that the enforcer lets it.
The sets by sequence, which only scoring reads, are in
`ValidatorScoring`, where each of two servers has a container of its own.

**Abstractions.** A signature is membership in `signed`: any key may sign any
validation at any time, a blob that does not verify does not exist. Amounts and
basis points are small numbers on a scale of `BpsDenom` (`ValidatorScoring` and
`Lending` use the real 10 000). In `RewardEpoch` the raw score of a window is an
input. Within a ledger, transactions interleave freely, which covers every
canonical order and every retry of `applyTransactions`. The features are
enabled. Reserves other than the owner count are left out:
`ValidatorBond::doApply` compares the balance with the bond alone. `drops`
starts as what genesis hands out. Deposits and withdrawals in `LPRewards` move
shares only; the assets behind them are in `Lending`. They are allowed more than
the code allows: any account may mint, whatever it owns. In the same way
`AMMTrade` sets the price to any value of the instance, where a swap moves it by
the size of the trade.

## 3. Runs

| Run | Result | States | What it shows |
|---|---|---|---|
| `bonds` | pass | 14 394 | `TypeOK` nothing is overdrawn; `SupplyIsHeld` the header's supply is what accounts, treasury and bonds hold, through fee splits, failed transactions and slashes; `BondsWellFormed`; `OnlyEquivocatorsSlashed`; `OwnerCountExact`; `BondsAreEscrowed`: the bond transactions implement `TimedEscrow` |
| `names` | pass | 27 923 | `NamesMatchOwners` names and reverse pointers stay inverse when names change hands; `OwnerCountCoversNames`; `BondsAndNamesAreEscrowed` names and bonds side by side implement `TimedEscrow` |
| `rewards` | pass | 122 475 | `PoolFunded` the treasury can always honour the pool; `PoolAccounting` the pool falls by what is paid; `AggregateCoversBonded` the precondition of `muldiv64` in `ClaimReward`; `OneRewardPerEpoch` although the claim mark is deleted with the bond |
| `lp` | pass | 188 264 | the same pool with all three kinds of claims (`LpTypeOK`, `PoolFunded`, `PoolAccounting`); `LpBasketKept` withdrawals between claims do not inflate the later ones |
| `governance` | pass | 256 179 | `GovTypeOK`, `ListIsPending`, `RatificationHasVotes`, `OutcomeIsFinal` |
| `listed_proposal` | violation | | under fairness of ledger closing, `ListDrains`: a listed proposal without votes of both kinds stops the next ledger |
| `emission` | pass | 24 855 | `RateBounded`, of the curve, and `YearlyBudgetKept`, of what is emitted, over all epochs a 32-bit ledger sequence allows |
| `emission_decline` | violation | | at epoch 367 the numerator wraps and the rate jumps from 3 to 7 636 basis points |
| `lending` | pass | 656 414 | with and without payments of shares: `VaultBalanced` assets are cash and what loans owe; `LossMatchesImpaired`; `DebtMatchesLoans`; `CustodyCovers` brokers' accounts hold all collateral and the pool; `PromisesWithinPool` where shares cannot be sent, index and debts never promise more than was forfeited. Deadlock is checked |
| `liquidation_claim` | violation | | a lender whose shares earned forfeited collateral cannot claim it |
| `validations` | pass | 749 454 | `TypeOK`, `TrieMatchesLast` support in the trie is who supports it; `VoteTracked` no vote of a steadily trusted node is lost; `CountedOnce` no node counts for two ledgers of a sequence within the expiry time; `TrustIsApplied` once told of a changed list, the container counts the newest validation of a node if and only if the list names it |
| `score_divergence` | violation | | two servers that received the same validations in another order write different scores |

Every property of a passing run has a mutant in `PROJECT.json`: a plausible bug
in the mapped definition (a dropped check, an early unlock, an uncapped
payment) under which TLC finds the property violated.

### Bounds

* `bonds`: two accounts, two keys, a fee of 2 out of 10 drops (so that fees run
  out and partial fees are claimed), a lock of 2 ledgers and 4 ledgers (so that
  a lock ends within the run), two rounds and two hashes for at most two
  validations (the least that gives evidence, and enough for pairs that are not
  evidence). Bond amounts lie on both sides of the minimum. Accounts, keys and
  hashes are symmetric: nothing in the module orders them.
* `names`: two accounts and two names, a bond of 3 and a fee of 1 out of 9
  drops, a name lock of 1 and a bond lock of 2 in 4 ledgers: a name is set,
  released and taken by the other account within the run, beside a bond.
* `rewards`: two keys, epochs of 2 ledgers, scoring at each, a lock of 3: as in
  the code, an epoch is a multiple of the flag interval and shorter than the
  lock (172 800, 256 and 262 800). `OneRewardPerEpoch` needs that last relation.
  Several epochs fit into 9 ledgers; the first emits half of the treasury, later
  ones all of it, the worst case for `PoolFunded`. Fees are zero: the fee split
  is the business of `bonds`.
* `lp`: two accounts, one key, one vault and one AMM, at most two shares, so that
  both accounts hold one or either holds all; two epochs, the second of which
  emits everything, and a ledger of claims after each.
* `governance`: one proposal and two keys with a vote each, which is what a
  proposal needs to be readable in later ledgers; a voting window as long as an
  epoch (as in the code), and an epoch that can emit the whole treasury, since
  only a boundary with an empty treasury keeps the list. One of the two proposed
  values is out of bounds. Keys are symmetric.
* `listed_proposal`: one key and one proposal, epochs of four
  ledgers, long enough for a window to end within the run.
* `emission`: no bound; the constants are those of `QXRPConstants.h`.
* `lending`: two lenders, two loans of one broker, two payments each, prices that
  make a loan healthy, just short and liquidatable; cover of at most one unit,
  so that a default is covered in part. Shares and assets are bounded by 3 and 6;
  payments of shares let debts grow without end, so a lender sends no shares once
  its debt is above `MaxDebt`. `liquidation_claim` has up to 4 shares. No action reads `earned`, and `VIEW` leaves it out where the properties
  do not read it either.
* `validations`: the server and one other validator, two ledgers that compete for
  sequence 1 and one for sequence 2, validations that arrive at once or late,
  three units of time, so that validations turn stale, enforcers and sets
  expire, and one restart, which takes a unit of time. The two competing ledgers are symmetric.
* `score_divergence`: two servers, two validators, a window of two ledgers.

Deadlock is not checked where runs end at a bound on ledgers or time (all but
`lending`): there the system may rightly do nothing.

### Fairness

`GovSpec` assumes weak fairness of `CloseGoverned` only. Ledger closes are
driven by the consensus heartbeat timer, whatever transactions arrive; no
fairness is assumed of any transaction. `ListDrains` is stated for windows that
end before `MaxSeq`, so the end of the run refutes nothing; what refutes it is a
close that stays disabled.

## 4. Proofs

| Theorem | Statement |
|---|---|
| `TypeCorrect` | `Spec => []TypeOK` |
| `BondsAlwaysWellFormed` | `Spec => []BondsWellFormed` |
| `HonestNeverSlashed` | `Spec => []OnlyEquivocatorsSlashed` |
| `OwnerCountAlwaysExact` | `Spec => []OwnerCountExact` |
| `SupplyAlwaysHeld` | `Spec => []SupplyIsHeld` |
| `BondsImplementEscrow` | `Spec => BondsAreEscrowed` |
| `NameTypeCorrect` | `NameSpec => []TypeOK` |
| `NamesAlwaysMatch` | `NameSpec => []NamesMatchOwners` |
| `OwnerCountAlwaysCovers` | `NameSpec => []OwnerCountCoversNames` |
| `SupplyHeldWithNames` | `NameSpec => []SupplyIsHeld` |
| `BondsAndNamesImplementEscrow` | `NameSpec => BondsAndNamesAreEscrowed` |
| `RewardsTypeCorrect` | `LPSpec => []LpTypeOK` |
| `PoolAlwaysFunded` | `LPSpec => []PoolFunded` |
| `PoolAlwaysAccounted` | `LPSpec => []PoolAccounting` |
| `AggregateAlwaysCovers` | `LPSpec => []AggregateCoversBonded` |
| `RewardedOncePerEpoch` | `LPSpec => []OneRewardPerEpoch` |
| `SupplyHeldWithRewards` | `LPSpec => []SupplyIsHeld` |
| `BasketAlwaysKept` | `LPSpec => []LpBasketKept` |
| `GovernanceTypeCorrect` | `GovSpec => []GovTypeOK` |
| `ListAlwaysPending` | `GovSpec => []ListIsPending` |
| `RatifiedWithVotes` | `GovSpec => []RatificationHasVotes` |
| `OutcomeAlwaysFinal` | `GovSpec => OutcomeIsFinal` |
| `SupplyHeldWithGovernance` | `GovSpec => []SupplyIsHeld` |
| `RewardsKeptWithGovernance` | `GovSpec => [](PoolFunded /\ PoolAccounting /\ AggregateCoversBonded /\ OneRewardPerEpoch /\ LpBasketKept)` |
| `BondsKeptWithGovernance` | `GovSpec => [](BondsWellFormed /\ OnlyEquivocatorsSlashed)` |
| `VaultAlwaysBalanced` | `LendingSpec => []VaultBalanced` |
| `LossAlwaysMatches` | `LendingSpec => []LossMatchesImpaired` |
| `DebtAlwaysMatches` | `LendingSpec => []DebtMatchesLoans` |
| `CustodyAlwaysCovers` | `LendingSpec => []CustodyCovers` |
| `PromisesAlwaysWithinPool` | `LendingSpec => []PromisesWithinPool` |
| `RateAlwaysBounded` | `EmissionSpec => []RateBounded` |
| `BudgetAlwaysKept` | `EmissionSpec => []YearlyBudgetKept` |
| `ValidationsTypeCorrect` | `Spec => []TypeOK` (of `Validations`, as are the next four) |
| `SupportAlwaysCounted` | `Spec => []TrieMatchesLast` |
| `VotesAlwaysTracked` | `Spec => []VoteTracked` |
| `AlwaysCountedOnce` | `Spec => []CountedOnce` |
| `TrustAlwaysApplied` | `Spec => TrustIsApplied` |

### Assumptions

The theorems hold for all values of the constants that satisfy the named
assumptions of the modules: finitely many accounts, keys, names, vaults, AMMs,
lenders, brokers, loans and validators; absent values that are no records, and a
`NoLedger` that is no ledger; naturals for amounts, fees, delays and lengths,
and positive sequences. Those that say more:

* `BpsAssumption`: `BurnMinBps <= BurnDefaultBps <= BurnMaxBps <= BpsDenom`.
* `LockAssumption`: an epoch is no longer than the lock of a bond (172 800 and
  262 800 ledgers). Only `RewardedOncePerEpoch` uses it, and needs it.
* `GovernanceAssumption`: `SupermajorityBps` (6 700) is in `1..BpsDenom`. With a
  quota of zero a proposal nobody voted for would pass.
* `LPAssumption`: `MaxTokens < 10 * MinMantissa`, so that normalising a balance
  of AMM tokens only ever shifts it up.
* `LendingAssumption`: `Penalty <= Interest`, and `IndexScale` is a multiple of
  every possible number of shares, which is what makes the index exact. The
  rounding of `Number` is therefore not covered by `PromisesAlwaysWithinPool`,
  which is about vaults whose shares are not transferable; the other theorems on
  lending hold for both kinds.
* `LastEpochAssumption`: at most 24 855 epochs, what 32-bit sequences allow.

### The argument

**Sums.** The supply, the collateral and the scores are sums over sets of any
size. `Sums_proofs` proves what a sum does when one argument is changed, added
or removed, that sums are monotone and linear, and that a part is at most the
whole, by induction over finite sets. The induction is stated for a property
given as a set of sets, so that no operator has to be instantiated. In the same
way, with the step of a recursion given as a function, its last section proves
that a recursion over the subsets of a finite set has exactly one solution
(`RecursionUnique`, `RecursionExists`) of the type its step keeps
(`RecursionTyped`), and that a fold over a set is such a recursion
(`FoldExists`). The walks of the container of validations are instances.

**Engine and bonds.** `ValidatorBonds_proofs` first shows, for all transactors, that
the burned part of a fee is a part of it (`MuldivIsPart`, `BurnIsPart`), that
committing a well-typed view is safe (`CommitTyped`) and that a fee claim
touches no object (`ClaimFeeEffect`). It then computes each
transactor's view and condenses a transaction to one of six effects
(`BondTxEffect`). Each invariant is inductive relative to `TypeOK`, one case per
effect: `TypeOK` supplies that a registered key's entry is a bond record, which
the field updates need. `BondsWellFormed` carries more than the claim about
slashes: that an unbonding bond has been slashed at most once follows only
because bonds in the other states have never been slashed, and those are the
only ones `canSlash` admits. The owner counts rest on the cardinality theorems
for adding and removing an element, the supply on the lemmas on sums.

**Escrow.** `BondsImplementEscrow` reuses the six effects: with a bond that holds
no drops mapped to an empty slot, a registration and the slash or release of an
empty bond are a `Charge` of the escrow, and every other effect is one of its
actions. `BondsWellFormed` is what makes the mapping work: it says that a
registered bond is empty and a bonded one is not, so bonding fills an empty slot
and an exit begins from a full one. `AccountNames_proofs` does the same for the
three name transactions, and shows that each kind of transaction leaves the
objects of the other kind alone, so that one escrow with a lock per slot is
implemented by both.

**Rewards.** The inductive invariant is `PoolInv`: `LpTypeOK`, `PoolFunded`,
`PoolAccounting`, `TokensBounded` (no AMM has issued more than `MaxTokens`) and
`EpochShape` (the epoch's start and number fit its length, and once a boundary
was passed without a new epoch, which takes an empty treasury, the pool is
empty). The parts need each other: that a claim does not overdraw the treasury,
which is part of `LpTypeOK`, is `PoolFunded`. Three further invariants are
inductive relative to it:

* `ScoreInv` for `AggregateAlwaysCovers`: bonded scores fit into the aggregate,
  and a bond that was only registered has no score, so bonding adds none.
* `PaidKeysMarked` for `RewardedOncePerEpoch`: a key paid in this epoch has a
  bond with the mark, whose exit, if it has one, began in this epoch, or nothing
  is left in the pool. A release deletes the mark, but the lock puts it after
  the end of the epoch, and then either there is a new epoch or the pool is
  empty, which is why `EpochShape` has to say so.
* `BasketShape` for `BasketAlwaysKept`: while shares are only burned, what was
  paid and what the shares that have not claimed can still get fit the basket,
  each weighted with the shares of the snapshot.

**Governance.** A close that cannot be completed is no step, so the safety theorems
hold of the ledgers that are built. `GovInv` is `LpTypeOK`, `TokensBounded`, `ProposalsTyped`,
`ListPending`, `VotersOnce` and `RatificationHasVotes`. Every transaction of the
lower layers leaves proposals and the list alone; a close opens an epoch with an
empty list or keeps the old one, and the tally decides the listed proposals whose
window is over before the pruning. `OutcomeAlwaysFinal` follows from `GovInv`
step by step: a vote needs an open proposal, the tally a listed one, and
`ListPending` says that a listed proposal is open.

The rewards are proved again in the composition, since governance writes to the
epoch object they live in. A proposal or vote changes no field of the epoch but
its list, and `CloseGoverned` is the close of the rewards with another list
(`Relisted`, `Built`), so `RewardsInv`, the conjunction of `PoolInv`, `ScoreInv`,
`PaidKeysMarked`, `SupplyIsHeld` and `BasketShape`, stays inductive relative to
`GovInv`. The bonds follow: scoring and claims change the score and the mark of a
bond, and neither its shape nor the evidence against its key depends on those
(`StandingKept`). `OwnerCountExact` is not claimed there, since a proposal counts
as an object of its owner too. The escrow is not either: a claim pays into a
wallet what nobody had locked.

**Lending.** `LendingInv` is `LendingTypeOK` and `Books`: the four equations on
vault, brokers and loans, and `LoansShaped` (every loan's broker exists, and a
loan with no payments remaining owes nothing, without which the last payment
could leave a remainder behind). One lemma, `BooksKept`, says which changes of
one loan, its broker and the vault keep all four; each of the actions is an
instance. `PromisesKept` is inductive relative to it: a deposit or withdrawal
changes no pending amount upwards (`DeltaPromisesNoMore`), a claim takes from
pool and debt alike (`ClaimKeepsPromises`, which holds for every claim, also for
those that `ValidVault` undoes), and a forfeiture raises the promise by the index
step times the shares, which is what enters the pool (`ForfeitKeepsPromises`).
A payment of shares keeps the books (`SendKeepsBooks`) and breaks the promises,
which is why `PromisesWithinPool` is stated of vaults without such payments;
no step changes which kind a vault is.

**Emission.** `RateAlwaysBounded` splits the 32-bit quotient at the wrap and
bounds both sides. `BudgetAlwaysKept` counts the curve by rates: up to epoch 312
no numerator wraps (`CurveRate`), and epoch `e` adds to `Spent`, a closed form
with the last epoch of each of the 22 rates above the floor, exactly its rate
(`RateSpent`). `Emitted` leaves the seven quiet epochs out, and `YearInv` says that
what the year has emitted is what `Emitted` grew by since the year began.

**Validations.** `ServerInv` has four parts. `ServerTyped` types the state.
`TrieExact` says for each ledger that its support is the cardinality of the set
of nodes whose last ledger it is; the bounds of `TypeOK`, that no support goes
below zero or above the number of validators, follow from it. `VotesInv` adds to `VoteTracked`
that the current validation under a node's name is the node's own and, where
trust has not changed, has the flag the list gives it: only with that does a
changed list, which the container hears of later, leave the other nodes'
votes alone. `CountsOnce` adds to `CountedOnce` what the sequence enforcer of a
node knows: it has reached the sequence of every validation in the sets, or was
reset more than the expiry time after that validation was seen (`Enforced`).
Without this, nothing would relate a new validation to the older ones of its
node.

What a method of the container leaves is stated once for all parts. For the
methods that walk a hash map (`checkAcquired`, `trustChanged`) the invariant is
shown of every outcome of every order, by induction over the part of the set
that has been walked. `TrustAlwaysApplied` rests on the same induction: a report
about one node keeps `Applied` of the nodes walked before, because a node that
joined waits for no ledger that is already there, and one that left waits, if at
all, for other ledgers than that of its newest validation. The instance of the
run changes one node at a time; the theorem covers a list that changes several.

### Only model-checked

The runs that end in a violation, and with them `ValidatorScoring`: a
counterexample needs no proof. `ListDrains` is the only liveness property, and
false.

`normalize` and `remaining` are recursive functions. That they are defined, and
what the invariants need of their values (`NormalizeDefined`, `NormalizeRange`,
`RemainingOnce`), is proved by the same kind of induction, over a set of numbers.

## 5. Findings

Four runs end in a violation; `findings` in `PROJECT.json` quotes the line each
one contradicts.

* `listed_proposal`. `GovernanceProposal.cpp:74-76` stores zeros and an empty voter
  list in `SoeDefault` fields, and `applyTemplate` throws when the next ledger
  reads the proposal back: in the tally of every close, for every listed proposal.
  No later ledger is built unless votes of both kinds are counted in the
  proposal's own ledger. If the proposal survives and is the last to be pruned,
  `BuildLedger.cpp:90` stores an empty list in the epoch object, which then cannot
  be read. `docs/qxrp/build-and-test-report.md:82-92` records the same failure for
  another field.
* `emission_decline`. `cidEpochBpsNumerator` is unsigned: from epoch 367 on the
  rate is about 76 % of the treasury per epoch instead of the documented floor
  of 3 basis points.
* `liquidation_claim`. A lender from before the first liquidation has a debt of
  zero, which is not stored, and a missing debt is read as fully paid
  (`LendingHelpers.cpp:213-220`). And a claim that has something pending is
  undone: `ttVAULT_CLAIM_COLLATERAL` has no privilege to modify a vault, and
  `ValidVault::finalize` fails it. Forfeited collateral stays with the broker.
* `score_divergence`. Scores go into the flag ledger but are computed from each
  server's own validations. In the counterexample both servers received all of
  them; one got a validator's second validation first, so its enforcer refused
  the first one, and the composites differ (9 500 and 8 975). Lost validations
  and restarts have the same effect.

Disagreements between code and documentation seen while modelling, which no run
shows. The properties are stated so that they do not deny them:

* `applyRewardEpoch` builds the new epoch object without `sfProposals`
  (`RewardEpoch.cpp:257`) before the tally runs: a proposal made in the ledger
  before a boundary is dropped, unread and undecided, as long as the treasury is
  not empty; `docs/qxrp/governance.md:28-32` says it is marked PASSED or EXPIRED
  when its window closes.
* `ValidatorSlash.cpp:138` refuses evidence whenever the bond is unbonding;
  `docs/qxrp/validator-lifecycle.md:36` says that "past offenses may still be
  proven". `TimedEscrow` lets a leaving slot be forfeited, so the refinement says
  nothing against that line; the code never uses the permission.
* Scores and aggregate are rewritten at flag ledgers between claims
  (`ClaimReward.cpp:113`), so the shares of one epoch can add up to more than the
  pool and later claimants get less; `docs/qxrp/epoch-emission.md:136-138` says
  claim order "does not affect payout size".
* `ClaimLPReward.cpp:123-124` takes the live supply as denominator "so post-epoch
  minting cannot inflate claims above the basket", but claims made before the
  minting were measured by the smaller supply, and shares that were sent can be
  claimed on again. `LpBasketKept` is about withdrawals for that reason.
* A payment of vault shares does not move `sfLiquidationDebt`: only
  `VaultDeposit.cpp:282` and `VaultWithdraw.cpp:265` call
  `adjustLiquidationDebtForShareDelta`, which `LendingHelpers.h:77-79` says is for
  "when vault share balance changes". A receiver with a stored debt gets a claim
  from index 0 on what it received. Without the condition `~ transferable`, TLC
  finds `PromisesWithinPool` violated by such a payment.
* `Validations.h:350` removes the support of a distrusted node only if its last
  ledger is that of its current validation; with the newer ledger unacquired the
  older support stays, although trustChanged "updates the trie to ensure only
  currently trusted nodes' validations are used" (`Validations.h:747-749`).
  `TrustIsApplied` is about the newest validation for that reason.
* `preStartRound` (`RCLConsensus.cpp:997`) compares the ledger a round starts from
  with the newest ledger the database held at the start of the server;
  `Consensus.h:1070` moves the round without comparing again, and `doAccept` signs
  what was built, as a partial validation, although its sequence may be below that
  ledger's. `Application.h:153-154`: "Ensure that a newly-started validator does
  not sign proposals older than the last ledger it persisted". A sequence signed
  before a crash can be signed again in this way, and two signatures for a
  sequence are evidence for a slash of the whole bond.

* `ApplyContext.cpp:188` reads `sfCurrentBurnBps` of `ltREWARD_EPOCH`, the tally
  writes that of `ltGOVERNANCE_PARAMS` and nothing copies it;
  `docs/qxrp/fee-split.md:49-52` says a vote "overrides the formula result".
* `GovernanceVote.cpp:106` lists voters by consensus key, so an account with two
  bonds votes twice; `GovernanceVote.h`: "Each account may only vote once per
  proposal".
* `GovernanceProposal.cpp:50` checks that the key named is bonded, not that the
  sender owns it; its comment: "Only bonded validators may propose."
* `RewardEpoch.cpp:150` compares the issuer of a trust line's `sfBalance`, which
  is never the AMM, so no AMM provider is counted and `ClaimAmmLpReward` always
  fails; `PoPLEmission.h:85-86` promises a percent per provider. `ammShare`
  compares mantissas and ignores exponents.
* Lending: the default of a loan with the broker's signature leaves its
  collateral on the broker's account, where `LoanDelete` strands it; a
  withdrawal clamps the debt at zero and forgets what was pending; `VaultDelete` ignores the liquidation pool;
  health is measured on the principal when a loan is made and on its total value
  when it is liquidated.
* `BondsWellFormed` shows that `sfSlashMultiplier` is at its maximum wherever
  scoring reads it, so a slash never lowers a score. The unbonding lock, 262 800
  ledgers of 3.5 s, is about 10.6 days where `QXRPConstants.h` says 30.
* `RCLValidations.cpp:162` reads the trust of a signer before the container is
  locked: a validation marked trusted before the list changed and added after the
  container was told supports its ledger until it is replaced or stale.

## 6. Not modelled

The repository has some 283 000 lines, almost all of them the upstream server.
The modules cover the code that is the fork's own and the part of consensus it
leans on; a model of most of the lines would be a model of `rippled`.

* Lending: overpayments, management and origination fees, amortisation, assets
  with fractions, `VaultCreate` (but for its choice of shares), `VaultSet`, `VaultDelete`, `VaultClawback`,
  `LoanBrokerCoverClawback`, changes of a broker, freezes and authorisation. A
  clawback burns shares without moving the debt, which can only lower what is
  promised.
* Consensus proper: proposals, disputes, the phases of a round and whether it may
  sign, the choice of the
  preferred ledger among the supported ones, the check for a quorum
  (`LedgerMaster::checkAccept`) and negative UNL, amendments, fee voting and the
  transaction queue. They decide which transactions enter a ledger, which is
  left free here.
* Payment channels, escrows, offers, AMM trading, XChain bridge: upstream
  transactors that share only the engine with the components above.
* Falcon keys, manifests, validator lists: cryptography and parsing.
* Overlay, node store, RPC, portal, faucet: input, output and storage.
* Bridge contracts: separate programs in other languages.

## 7. Plan

1. Done: engine, bonds, names, escrow refinements, epochs, all claims,
   governance, emission, lending, validations, signing, scoring; theorems for every
   invariant and action property of the passing runs, and for bonds and rewards both
   alone and composed with governance.
2. Next: the choice of the preferred ledger and the check for a quorum on top of
   `Validations`, whose theorems are what both rely on; an escrow that also pays
   out, which rewards and bonds together implement (`TimedEscrow` lets no wallet
   grow but by what was locked).
