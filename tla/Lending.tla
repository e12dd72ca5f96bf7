------------------------------ MODULE Lending ------------------------------
(***************************************************************************)
(* Loans out of a vault, against native collateral. Lenders deposit the    *)
(* asset of one vault and hold its shares; loan brokers lend the assets;   *)
(* the collateral of a loan is held by the account of its broker. A        *)
(* permissionless loan has no broker's signature: its collateral stands    *)
(* in for the broker's cover, and anyone may liquidate it when the price   *)
(* of the AMM falls. Forfeited collateral is credited to the lenders by an *)
(* index per share and a debt per holder.                                  *)
(*                                                                         *)
(* The asset is an integral token, not the native one; the balances of     *)
(* lenders and borrowers outside the system are not kept. Management and   *)
(* origination fees are zero. A transaction that fails leaves these        *)
(* objects alone and is not a step, but for a claim that is refused.       *)
(***************************************************************************)
EXTENDS Integers, FiniteSets, Functions

CONSTANTS
    Lenders,         \* holders of shares, none of them the owner of the vault
    Brokers,         \* ltLOAN_BROKER objects of the vault
    Loans,           \* identities of loans
    NoBroker, NoLoan, Absent,  \* an object or field that is not in the ledger
    Principal,       \* sfPrincipalRequested of every loan
    Interest,        \* interest due over its life
    Payments,        \* sfPaymentTotal
    Penalty,         \* interest added by a late payment, or dropped by an early one
    ServiceFee,      \* sfLoanServiceFee
    Collaterals,     \* amounts of collateral, in drops
    Prices,          \* asset units per drop in the AMM, 0 without an AMM
    Amounts,         \* amounts deposited
    CoverRateMin, CoverRateLiq,  \* sfCoverRateMinimum, sfCoverRateLiquidation
    BpsDenom,        \* 10000
    MinCollateralBps,      \* kPermissionlessMinCollateralBps
    LiquidationBps,  \* kPermissionlessLiquidationHfBps
    IndexScale,      \* units of sfLiquidationIndex per drop
    MaxShares,       \* bound: shares outstanding
    MaxAssets,       \* bound: assets of the vault
    MaxCover,        \* bound: cover of a broker
    MaxDrops,        \* bound: drops of a broker's account
    MaxDebt          \* bound: debt of a sender of shares

ASSUME LendingAssumption ==
    /\ {Principal, Payments, BpsDenom, IndexScale, MaxShares} \subseteq Nat \ {0}
    /\ {Interest, Penalty, ServiceFee, CoverRateMin, CoverRateLiq} \subseteq Nat
    /\ Penalty <= Interest
    /\ Collaterals \cup Amounts \subseteq Nat \ {0} /\ Prices \subseteq Nat
    /\ \A n \in 1..MaxShares : IndexScale % n = 0

\* Fields of ltLOAN_BROKER with its account, and of ltLOAN.
LoanBroker == [debt : Int, cover : Nat, drops : Nat, loans : Int]
Loan ==
    [broker : Brokers, owed : Nat, remaining : Nat, collateral : Nat,
     permissionless : BOOLEAN, impaired : BOOLEAN, overdue : 0..2]

ASSUME ObjectsAssumption ==
    /\ IsFiniteSet(Lenders) /\ IsFiniteSet(Brokers) /\ IsFiniteSet(Loans)
    /\ NoBroker \notin LoanBroker /\ NoLoan \notin Loan /\ Absent \notin Int

VARIABLES
    vault,           \* ltVAULT: assets, unrealised loss, liquidation pool, index
    transferable,    \* lsfMPTCanTransfer of its shares: no tfVaultShareNonTransferable
    shares,          \* sfMPTAmount of every lender
    debt,            \* sfLiquidationDebt of every lender
    brokers,         \* ltLOAN_BROKER objects with their pseudo-accounts
    loans,           \* ltLOAN objects; overdue: 1 past due, 2 past the grace period
    price,           \* price of the collateral in the AMM
    earned           \* history: part of the pool that fell to a lender's shares

lendingVars ==
    <<vault, transferable, shares, debt, brokers, loans, price, earned>>

-----------------------------------------------------------------------------
(* Arithmetic. Number rounds to nearest, half to even.                     *)

Least(a, b) == IF a < b THEN a ELSE b
Ceiling(n, d) == (n + d - 1) \div d
Round(n, d) ==
    LET q == n \div d  r == 2 * (n % d)
    IN  IF r > d \/ (r = d /\ q % 2 = 1) THEN q + 1 ELSE q

sharesTotal == SumFunction(shares)

assetsToSharesDeposit(amount) ==
    IF vault.total = 0 THEN amount ELSE (sharesTotal * amount) \div vault.total

sharesToAssetsDeposit(n) ==
    IF vault.total = 0 THEN n ELSE Round(vault.total * n, sharesTotal)

sharesToAssetsWithdraw(n) ==
    Round((vault.total - vault.loss) * n, sharesTotal)

minimumCover(owed) == Ceiling(owed * CoverRateMin, BpsDenom)

\* A health factor exists while there are collateral, debt and a price.
HealthBelow(collateral, owed, bps) ==
    /\ price > 0 /\ collateral > 0 /\ owed > 0
    /\ collateral * price * BpsDenom < bps * owed

checkPermissionlessCollateral(collateral) ==
    price > 0 /\ ~ HealthBelow(collateral, Principal, MinCollateralBps)

Exists(i) == loans[i] # NoLoan
Active(i) == Exists(i) /\ loans[i].remaining > 0
Owed(i) == IF Exists(i) THEN loans[i].owed ELSE 0

loanPermissionlessLiquidatable(i) ==
    HealthBelow(loans[i].collateral, loans[i].owed, LiquidationBps)

-----------------------------------------------------------------------------
(* What a lender may claim of the pool. Amounts are in units of the index. *)

\* A field of default value is not stored; a debt that is not stored counts
\* as paid up to the current index.
StoredDebt(d) == IF d = 0 THEN Absent ELSE d

mptLiquidationDebt(l, held) ==
    IF debt[l] = Absent THEN held * vault.index ELSE debt[l]

Unpaid(l) == shares[l] * vault.index - mptLiquidationDebt(l, shares[l])

liquidationPendingFalcon(l) ==
    IF Unpaid(l) < 0 THEN 0 ELSE Least(Unpaid(l), vault.pool * IndexScale)

\* The debt of l after its shares changed by delta; with the last share the
\* MPToken goes, and the debt with it.
adjustLiquidationDebtForShareDelta(l, delta) ==
    LET moved == mptLiquidationDebt(l, shares[l]) + delta * vault.index
    IN  IF shares[l] + delta = 0 THEN Absent
        ELSE StoredDebt(IF moved < 0 THEN 0 ELSE moved)

\* Mutant: the index grows by all that was forfeited for every share.
creditUndivided(v, forfeited) ==
    [v EXCEPT !.pool = @ + forfeited, !.index = @ + forfeited * IndexScale]

creditLiquidationToLPs(v, forfeited) ==
    [v EXCEPT !.pool = @ + forfeited,
              !.index = @ + IF sharesTotal = 0 THEN 0
                            ELSE (forfeited * IndexScale) \div sharesTotal]

\* ValidVault::finalize refuses a change of a vault by a transaction type
\* without the privilege to modify one.
MayModifyVault == {"VaultDeposit", "VaultWithdraw", "LoanSet", "LoanManage", "LoanPay"}
validVault(type) == type \in MayModifyVault

-----------------------------------------------------------------------------
(* Lenders.                                                                *)

VaultDeposit(l, amount) ==
    LET created == assetsToSharesDeposit(amount)
        assets == sharesToAssetsDeposit(created)
    IN  /\ created > 0 /\ assets > 0
        /\ sharesTotal + created <= MaxShares /\ vault.total + assets <= MaxAssets
        /\ vault' = [vault EXCEPT !.total = @ + assets, !.available = @ + assets]
        /\ shares' = [shares EXCEPT ![l] = @ + created]
        /\ debt' = [debt EXCEPT ![l] = adjustLiquidationDebtForShareDelta(l, created)]
        /\ UNCHANGED <<brokers, loans, price, earned>>

\* The checker refuses a withdrawal of nothing, and one of the last share that
\* leaves assets behind.
VaultWithdraw(l, redeemed) ==
    LET assets == sharesToAssetsWithdraw(redeemed)
    IN  /\ redeemed \in 1..shares[l]
        /\ assets \in 1..vault.available
        /\ redeemed = sharesTotal => assets = vault.total
        /\ vault' = [vault EXCEPT !.total = @ - assets, !.available = @ - assets]
        /\ shares' = [shares EXCEPT ![l] = @ - redeemed]
        /\ debt' = [debt EXCEPT ![l] = adjustLiquidationDebtForShareDelta(l, -redeemed)]
        /\ earned' = [earned EXCEPT ![l] = IF redeemed = shares[l] THEN 0 ELSE @]
        /\ UNCHANGED <<brokers, loans, price>>

\* A payment of shares: the debts stay with the holders, that of a sender of
\* its last share too. The receiver has authorised the shares before.
SendShares(l, m, n) ==
    /\ transferable /\ l # m /\ n \in 1..shares[l]
    /\ debt[l] # Absent => debt[l] <= MaxDebt
    /\ shares' = [shares EXCEPT ![l] = @ - n, ![m] = @ + n]
    /\ UNCHANGED <<vault, debt, brokers, loans, price, earned>>

\* A holder of no shares deletes its MPToken, and its debt with it.
MPTokenUnauthorize(l) ==
    /\ shares[l] = 0 /\ debt[l] # Absent
    /\ debt' = [debt EXCEPT ![l] = Absent]
    /\ UNCHANGED <<vault, shares, brokers, loans, price, earned>>

claimable(l) == liquidationPendingFalcon(l) \div IndexScale

\* A claim fails without a whole drop to pay or the drops to pay it from, and
\* when the invariant checker undoes it.
claimSucceeds(l, b) ==
    /\ brokers[b] # NoBroker /\ shares[l] > 0
    /\ claimable(l) > 0 /\ brokers[b].drops >= claimable(l)
    /\ validVault("VaultClaimCollateral")

claimLiquidationFalcon(l, b, paid) ==
    /\ vault' = [vault EXCEPT !.pool = @ - paid]
    /\ brokers' = [brokers EXCEPT ![b].drops = @ - paid]
    /\ debt' = [debt EXCEPT
                  ![l] = StoredDebt(mptLiquidationDebt(l, shares[l]) + paid * IndexScale)]
    /\ earned' = [earned EXCEPT ![l] = @ - paid * IndexScale]

VaultClaimCollateral(l, b) ==
    /\ IF claimSucceeds(l, b) THEN claimLiquidationFalcon(l, b, claimable(l))
       ELSE UNCHANGED <<vault, brokers, debt, earned>>
    /\ UNCHANGED <<shares, loans, price>>

-----------------------------------------------------------------------------
(* Brokers.                                                                *)

LoanBrokerSet(b) ==
    /\ brokers[b] = NoBroker
    /\ brokers' = [brokers EXCEPT ![b] = [debt |-> 0, cover |-> 0, drops |-> 0, loans |-> 0]]
    /\ UNCHANGED <<vault, shares, debt, loans, price, earned>>

\* The account of the broker must be empty once the cover has been paid out.
LoanBrokerDelete(b) ==
    /\ brokers[b] # NoBroker
    /\ brokers[b].loans = 0 /\ brokers[b].debt = 0 /\ brokers[b].drops = 0
    /\ brokers' = [brokers EXCEPT ![b] = NoBroker]
    /\ UNCHANGED <<vault, shares, debt, loans, price, earned>>

LoanBrokerCoverDeposit(b) ==
    /\ brokers[b] # NoBroker /\ brokers[b].cover < MaxCover
    /\ brokers' = [brokers EXCEPT ![b].cover = @ + 1]
    /\ UNCHANGED <<vault, shares, debt, loans, price, earned>>

LoanBrokerCoverWithdraw(b) ==
    /\ brokers[b] # NoBroker /\ brokers[b].cover > 0
    /\ brokers[b].cover - 1 >= minimumCover(brokers[b].debt)
    /\ brokers' = [brokers EXCEPT ![b].cover = @ - 1]
    /\ UNCHANGED <<vault, shares, debt, loans, price, earned>>

-----------------------------------------------------------------------------
(* Loans.                                                                  *)

LoanSet(i, b, collateral, permissionless) ==
    LET owed == Principal + Interest
    IN  /\ ~ Exists(i) /\ brokers[b] # NoBroker
        /\ vault.available >= Principal /\ vault.total + Interest <= MaxAssets
        /\ brokers[b].drops + collateral <= MaxDrops
        /\ IF permissionless THEN checkPermissionlessCollateral(collateral)
           ELSE brokers[b].cover >= minimumCover(brokers[b].debt + owed)
        /\ loans' = [loans EXCEPT
             ![i] = [broker |-> b, owed |-> owed, remaining |-> Payments,
                     collateral |-> collateral, permissionless |-> permissionless,
                     impaired |-> FALSE, overdue |-> 0]]
        /\ vault' = [vault EXCEPT !.available = @ - Principal, !.total = @ + Interest]
        /\ brokers' = [brokers EXCEPT ![b].debt = @ + owed,
                                      ![b].drops = @ + collateral,
                                      ![b].loans = @ + 1]
        /\ UNCHANGED <<shares, debt, price, earned>>

LoanCollateralDeposit(i, collateral) ==
    /\ Active(i) /\ brokers[loans[i].broker].drops + collateral <= MaxDrops
    /\ loans' = [loans EXCEPT ![i].collateral = @ + collateral]
    /\ brokers' = [brokers EXCEPT ![loans[i].broker].drops = @ + collateral]
    /\ UNCHANGED <<vault, shares, debt, price, earned>>

unimpairLoan(v, loan) ==
    IF loan.impaired THEN [v EXCEPT !.loss = @ - loan.owed] ELSE v

\* A payment of due, of which change was not scheduled: the loan is taken out
\* of impairment first, the service fee tops up a cover that is short, and the
\* last payment returns the collateral. v is the vault
\* without the impairment, credited what the debt of the broker goes down by.
settleLoan(i, due, change, remaining, credited, v) ==
    LET loan == loans[i]  b == loan.broker
        returned == IF remaining = 0 THEN loan.collateral ELSE 0
        toCover == IF brokers[b].cover >= minimumCover(brokers[b].debt)
                   THEN 0 ELSE ServiceFee
    IN  /\ brokers[b].drops >= returned
        /\ loans' = [loans EXCEPT
             ![i] = [loan EXCEPT !.owed = @ - (due - change), !.remaining = remaining,
                                 !.collateral = @ - returned, !.impaired = FALSE,
                                 !.overdue = 0]]
        /\ vault' = [v EXCEPT !.available = @ + due, !.total = @ + change]
        /\ brokers' = [brokers EXCEPT ![b].debt = @ - credited,
                                      ![b].drops = @ - returned,
                                      ![b].cover = @ + toCover]
        /\ UNCHANGED <<shares, debt, price, earned>>

\* Mutant: the end of impairment reads what is owed after the payment.
payLoanUnimpairsLast(i, due, change, remaining) ==
    settleLoan(i, due, change, remaining, due - change,
               unimpairLoan(vault, [loans[i] EXCEPT !.owed = @ - (due - change)]))

\* Mutant: the debt of the broker goes down by all that was paid.
payLoanCreditsAll(i, due, change, remaining) ==
    settleLoan(i, due, change, remaining, due, unimpairLoan(vault, loans[i]))

payLoan(i, due, change, remaining) ==
    settleLoan(i, due, change, remaining, due - change, unimpairLoan(vault, loans[i]))

periodicPayment(loan) ==
    IF loan.remaining = 1 THEN loan.owed ELSE loan.owed \div loan.remaining

\* Taking a loan out of impairment moves its due date into the future, so that
\* an impaired loan is never paid late. A late payment moves the date by one
\* interval; if that is past too, PaymentOverdue follows. A payment in full drops
\* interest, of which there may be less than Penalty left.
LoanPay(i) ==
    /\ Active(i)
    /\ LET loan == loans[i]  due == periodicPayment(loan)
           late == loan.overdue > 0 /\ ~ loan.impaired
           dropped == Least(Penalty, loan.owed)
       IN  \/ ~ late /\ payLoan(i, due, 0, loan.remaining - 1)
           \/ /\ late /\ vault.total + Penalty <= MaxAssets
              /\ payLoan(i, due + Penalty, Penalty, loan.remaining - 1)
           \/ /\ ~ late /\ loan.remaining > 1
              /\ payLoan(i, loan.owed - dropped, -dropped, 0)

impairLoan(i) ==
    /\ vault.loss + loans[i].owed <= vault.total - vault.available
    /\ vault' = [vault EXCEPT !.loss = @ + loans[i].owed]
    /\ loans' = [loans EXCEPT ![i].impaired = TRUE,
                              ![i].overdue = IF @ = 0 THEN 1 ELSE @]
    /\ UNCHANGED <<brokers, earned>>

defaulted(loan) == [loan EXCEPT !.owed = 0, !.remaining = 0, !.overdue = 0]

forfeitLoan(i, kept) ==
    LET loan == loans[i]  written == unimpairLoan(vault, loan)
    IN  /\ vault' = creditLiquidationToLPs([written EXCEPT !.total = @ - loan.owed],
                                           loan.collateral)
        /\ loans' = [loans EXCEPT ![i] = [defaulted(loan) EXCEPT !.collateral = kept]]
        /\ brokers' = [brokers EXCEPT ![loan.broker].debt = @ - loan.owed]
        /\ earned' = [l \in Lenders |->
             earned[l] + shares[l] * (vault'.index - vault.index)]

\* Mutant: the loan keeps the collateral that the pool is credited with.
defaultKeepsCollateral(i) == forfeitLoan(i, loans[i].collateral)

\* The collateral of a permissionless loan is forfeited to the lenders.
defaultPermissionlessLoan(i) == forfeitLoan(i, 0)

\* Mutant: the vault writes off the whole debt, covered or not.
coverNotCredited(i, covered) == loans[i].owed
writtenOff(i, covered) == loans[i].owed - covered

\* The cover of the broker pays a part of any other loan; its collateral stays.
defaultLoan(i) ==
    LET loan == loans[i]  b == loan.broker  written == unimpairLoan(vault, loan)
        covered == Least(brokers[b].cover,
                         Least(loan.owed, Ceiling(minimumCover(brokers[b].debt) * CoverRateLiq,
                                                  BpsDenom)))
    IN  /\ vault' = [written EXCEPT !.total = @ - writtenOff(i, covered),
                                    !.available = @ + covered]
        /\ loans' = [loans EXCEPT ![i] = defaulted(loan)]
        /\ brokers' = [brokers EXCEPT ![b].debt = @ - loan.owed, ![b].cover = @ - covered]
        /\ UNCHANGED earned

\* Anyone manages a permissionless loan by its health, the broker any other.
LoanManage(i) ==
    /\ Active(i)
    /\ LET loan == loans[i]
           breach == loanPermissionlessLiquidatable(i)
       IN  \/ /\ ~ loan.impaired /\ (loan.permissionless => breach)
              /\ impairLoan(i)
           \/ /\ loan.impaired /\ ~ (loan.permissionless /\ breach)
              /\ vault' = unimpairLoan(vault, loan)
              /\ loans' = [loans EXCEPT ![i].impaired = FALSE, ![i].overdue = 0]
              /\ UNCHANGED <<brokers, earned>>
           \/ /\ loan.permissionless /\ (loan.overdue = 2 \/ breach)
              /\ defaultPermissionlessLoan(i)
           \/ ~ loan.permissionless /\ loan.overdue = 2 /\ defaultLoan(i)
    /\ UNCHANGED <<shares, debt, price>>

\* Nothing of a loan that is deleted is returned, collateral included.
LoanDelete(i) ==
    /\ Exists(i) /\ loans[i].remaining = 0
    /\ loans' = [loans EXCEPT ![i] = NoLoan]
    /\ brokers' = [brokers EXCEPT ![loans[i].broker].loans = @ - 1]
    /\ UNCHANGED <<vault, shares, debt, price, earned>>

\* The close time passes the due date of a payment, then its grace period.
PaymentOverdue(i) ==
    /\ Active(i) /\ loans[i].overdue < 2
    /\ loans' = [loans EXCEPT ![i].overdue = @ + 1]
    /\ UNCHANGED <<vault, shares, debt, brokers, price, earned>>

\* Swaps change the balances of the AMM, and so the price read from them, to any
\* of the prices: more than trades of a given size could do at once.
AMMTrade(p) ==
    /\ p # price /\ price' = p
    /\ UNCHANGED <<vault, shares, debt, brokers, loans, earned>>

-----------------------------------------------------------------------------
LendingInit ==
    /\ vault = [total |-> 0, available |-> 0, loss |-> 0, pool |-> 0, index |-> 0]
    /\ transferable \in BOOLEAN
    /\ shares = [l \in Lenders |-> 0]
    /\ debt = [l \in Lenders |-> Absent]
    /\ brokers = [b \in Brokers |-> NoBroker]
    /\ loans = [i \in Loans |-> NoLoan]
    /\ price \in Prices
    /\ earned = [l \in Lenders |-> 0]

LenderStep(l) ==
    \/ \E amount \in Amounts : VaultDeposit(l, amount)
    \/ \E n \in 1..MaxShares : VaultWithdraw(l, n)
    \/ \E m \in Lenders, n \in 1..MaxShares : SendShares(l, m, n)
    \/ MPTokenUnauthorize(l)
    \/ \E b \in Brokers : VaultClaimCollateral(l, b)

BrokerStep(b) ==
    \/ LoanBrokerSet(b) \/ LoanBrokerDelete(b)
    \/ LoanBrokerCoverDeposit(b) \/ LoanBrokerCoverWithdraw(b)

LoanStep(i) ==
    \/ \E b \in Brokers, c \in Collaterals, permissionless \in BOOLEAN :
           LoanSet(i, b, c, permissionless)
    \/ \E c \in Collaterals : LoanCollateralDeposit(i, c)
    \/ LoanPay(i) \/ LoanManage(i) \/ LoanDelete(i) \/ PaymentOverdue(i)

\* VaultCreate decides for good whether shares may be paid to others.
LendingNext ==
    /\ \/ \E l \in Lenders : LenderStep(l)
       \/ \E b \in Brokers : BrokerStep(b)
       \/ \E i \in Loans : LoanStep(i)
       \/ \E p \in Prices : AMMTrade(p)
    /\ UNCHANGED transferable

LendingSpec == LendingInit /\ [][LendingNext]_lendingVars

-----------------------------------------------------------------------------
(* Properties.                                                             *)

SumOver(set, value(_)) == SumFunction([x \in set |-> value(x)])

\* The assets of the vault are what it has and what its loans owe it, whatever
\* deposits, late, early and covered payments and defaults came between.
VaultBalanced ==
    /\ vault.total = vault.available + SumOver(Loans, Owed)
    /\ vault.available >= 0

\* The unrealised loss, which lowers what a share is worth on withdrawal, is
\* what the impaired loans owe: a payment, a default or an end of impairment
\* takes back exactly what the impairment added.
LossMatchesImpaired ==
    LET ImpairedValue(i) == IF Active(i) /\ loans[i].impaired THEN Owed(i) ELSE 0
    IN  vault.loss = SumOver(Loans, ImpairedValue)

\* sfDebtTotal of a broker, which its cover is measured by, is what its loans
\* owe, and its count of loans is the number of them.
DebtMatchesLoans ==
    \A b \in Brokers : brokers[b] # NoBroker =>
        LET Of(i) == Exists(i) /\ loans[i].broker = b
            OwedTo(i) == IF Of(i) THEN Owed(i) ELSE 0
        IN  /\ brokers[b].debt = SumOver(Loans, OwedTo)
            /\ brokers[b].loans = Cardinality({i \in Loans : Of(i)})

\* The accounts of the brokers hold the collateral of every loan and the whole
\* liquidation pool: the pool is never paid out of a borrower's collateral.
CustodyCovers ==
    LET Held(b) == IF brokers[b] = NoBroker THEN 0 ELSE brokers[b].drops
        Pledged(i) == IF Exists(i) THEN loans[i].collateral ELSE 0
    IN  SumOver(Brokers, Held) >= SumOver(Loans, Pledged) + vault.pool

\* What the index and the debts promise the lenders together is in the pool:
\* a deposit after a liquidation earns no part of it, and a withdrawal takes
\* no part of it away from the others. It is stated of vaults made with
\* tfVaultShareNonTransferable: a payment of shares moves no debt, unlike
\* VaultDeposit and VaultWithdraw, and breaks it.
PromisesWithinPool ==
    LET Promised(l) == IF Unpaid(l) < 0 THEN 0 ELSE Unpaid(l)
    IN  ~ transferable => SumOver(Lenders, Promised) <= vault.pool * IndexScale

\* "LPs hold FALCON via LiquidationCollateral/Index and claim later when they
\* want": a claim by a holder of shares that earned a drop of forfeited
\* collateral succeeds against the account of some broker.
ClaimsAreHonoured ==
    \A l \in Lenders : shares[l] > 0 /\ earned[l] >= IndexScale =>
        \E b \in Brokers : claimSucceeds(l, b)
=============================================================================
