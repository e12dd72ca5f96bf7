----------------------------- MODULE QXRPLedger -----------------------------
(***************************************************************************)
(* The ledger state that the qXRP transactors share, and the part of the   *)
(* transaction engine that every one of them runs through: the fee debit,  *)
(* the reset to a fee-only result on a tec code, the protocol invariant    *)
(* checks, and the split of the fee into a burned and a treasury part.     *)
(*                                                                         *)
(* A transactor works on a view, a record with one field per part of the   *)
(* ledger (ApplyContext::view_); Transact decides what becomes of it.      *)
(* Results outside tesSUCCESS and tec (tem, tef, ter, tel) leave the       *)
(* ledger alone and are not steps.                                         *)
(***************************************************************************)
EXTENDS Integers, Sequences, FiniteSets, Functions

CONSTANTS
    Accounts,        \* account roots other than the treasury
    Keys,            \* consensus keys; a bond is found by its key
    Names,           \* normalised account names
    Proposals,       \* identities of governance proposals
    NoBond, NoName, NoEpoch, NoAccount,  \* an object that is not in the ledger
    BpsDenom,        \* kBPS_DENOM
    Fee,             \* sfFee of every transaction, in drops
    BurnMinBps,      \* kFEE_BURN_MIN_BPS
    BurnMaxBps,      \* kFEE_BURN_MAX_BPS
    BurnDefaultBps   \* kFEE_BURN_DEFAULT_BPS

VARIABLES
    seq,             \* sequence of the ledger being built
    balance,         \* sfBalance of every account
    ownerCount,      \* sfOwnerCount of every account
    treasury,        \* sfBalance of the treasury account
    drops,           \* total supply in the ledger header
    bonds,           \* ltVALIDATOR_BOND objects
    names,           \* ltACCOUNT_NAME objects
    nameOf,          \* sfAccountName of every account (reverse pointer)
    epoch            \* the ltREWARD_EPOCH singleton

ledgerVars ==
    <<seq, balance, ownerCount, treasury, drops, bonds, names, nameOf, epoch>>

BondStatus == {"REGISTERED", "BONDED", "UNBONDING"}
NameStatus == {"ACTIVE", "RELEASING"}

\* Fields of ltVALIDATOR_BOND that some handler reads.
Bond ==
    [owner : Accounts, amount : Nat, status : BondStatus, start : Nat,
     mult : Nat, slashes : Nat, composite : Nat, claimed : Nat]

AccountName ==
    [owner : Accounts, amount : Nat, status : NameStatus, start : Nat]

\* Fields of ltREWARD_EPOCH that some handler reads (sfFeeVolumeEMA is never
\* written with a value other than the one it was carried over with, 0).
Epoch ==
    [number : Nat, start : Nat, pool : Nat, emission : Nat, lpBps : Nat,
     lpShares : Nat, ammBps : Nat, ammTvl : Nat, aggregate : Nat, burnBps : Nat,
     proposals : Seq(Proposals)]

ASSUME AbsentAssumption ==
    /\ NoBond \notin Bond
    /\ NoName \notin AccountName
    /\ NoEpoch \notin Epoch
    /\ NoAccount \notin Names

ASSUME BpsAssumption ==
    /\ BpsDenom \in Nat \ {0}
    /\ BurnMinBps \in Nat /\ BurnMaxBps \in Nat /\ BurnDefaultBps \in Nat
    /\ BurnMinBps <= BurnDefaultBps /\ BurnDefaultBps <= BurnMaxBps
    /\ BurnMaxBps <= BpsDenom

ASSUME FeeAssumption == Fee \in Nat

ASSUME FiniteAssumption ==
    IsFiniteSet(Accounts) /\ IsFiniteSet(Keys) /\ IsFiniteSet(Names)

-----------------------------------------------------------------------------
(* Arithmetic.                                                             *)

\* floor(a * b / d) by quotient and remainder, without the product a * b.
muldiv64(a, b, d) == (a \div d) * b + ((a % d) * b) \div d

Lesser(x, y) == IF x <= y THEN x ELSE y

Clamp(x, lo, hi) == IF x < lo THEN lo ELSE IF x > hi THEN hi ELSE x

-----------------------------------------------------------------------------
(* The engine.                                                             *)

\* The view a transaction starts from; burned is what burnXRP destroyed.
View ==
    [balance |-> balance, ownerCount |-> ownerCount, treasury |-> treasury,
     bonds |-> bonds, names |-> names, nameOf |-> nameOf, epoch |-> epoch,
     burned |-> 0]

\* Transactor::payFee: the fee leaves the payer before doApply runs.
PayFee(a) == [View EXCEPT !.balance[a] = @ - Fee]

\* Drops in all the objects that the invariant checks look at.
BondedDrops(bs) ==
    SumFunction([k \in Keys |-> IF bs[k] = NoBond THEN 0 ELSE bs[k].amount])
NameDrops(ns) ==
    SumFunction([n \in Names |-> IF ns[n] = NoName THEN 0 ELSE ns[n].amount])
HeldDrops(v) ==
    SumFunction(v.balance) + v.treasury + BondedDrops(v.bonds) + NameDrops(v.names)

\* XRPNotCreated and QXRPDropConservation on the view of a transaction. They
\* run before destroyXRP, so the fee has left the payer and reached nobody.
DropsConserved(v, fee, slash) ==
    LET net == HeldDrops(v) - HeldDrops(View)
    IN  /\ net <= 0
        /\ IF slash THEN -net >= fee ELSE -net = fee

\* The burn fraction in force: the epoch's when it is within the hard bounds.
BurnBps(e) ==
    IF e # NoEpoch /\ e.burnBps >= BurnMinBps /\ e.burnBps <= BurnMaxBps
    THEN e.burnBps
    ELSE BurnDefaultBps

\* ApplyContext::destroyXRP: one part of the fee leaves the supply, the other
\* is credited to the treasury.
BurnPart(e, fee) == muldiv64(fee, BurnBps(e), BpsDenom)

Commit(v, fee) ==
    /\ balance' = v.balance
    /\ ownerCount' = v.ownerCount
    /\ treasury' = v.treasury + (fee - BurnPart(v.epoch, fee))
    /\ drops' = drops - v.burned - BurnPart(v.epoch, fee)
    /\ bonds' = v.bonds
    /\ names' = v.names
    /\ nameOf' = v.nameOf
    /\ epoch' = v.epoch
    /\ UNCHANGED seq

\* Transactor::reset and the second invariant check: the view is discarded and
\* the fee, or what the account has of it, is claimed. An account without
\* drops gets terINSUF_FEE_B and the ledger stays as it is.
ClaimFee(a) ==
    LET fee == Lesser(Fee, balance[a])
        v   == [View EXCEPT !.balance[a] = @ - fee]
    IN  /\ balance[a] > 0
        /\ DropsConserved(v, fee, FALSE)
        /\ Commit(v, fee)

\* A transaction of account a whose checks yield ok and whose doApply turns
\* the view into v. slash exempts the burn of a bond from the equality check.
Succeeds(a, ok, v, slash) ==
    balance[a] >= Fee /\ ok /\ DropsConserved(v, Fee, slash)

Transact(a, ok, v, slash) ==
    IF Succeeds(a, ok, v, slash) THEN Commit(v, Fee) ELSE ClaimFee(a)

-----------------------------------------------------------------------------

LedgerTypeOK ==
    /\ seq \in Nat
    /\ balance \in [Accounts -> Nat]
    /\ ownerCount \in [Accounts -> Nat]
    /\ treasury \in Nat
    /\ drops \in Int
    /\ bonds \in [Keys -> Bond \cup {NoBond}]
    /\ names \in [Names -> AccountName \cup {NoName}]
    /\ nameOf \in [Accounts -> Names \cup {NoAccount}]
    /\ epoch \in Epoch \cup {NoEpoch}

\* The supply in the ledger header is what accounts, treasury, bonds and names
\* hold together: nothing is minted, lost or burned off the books by any
\* sequence of fee splits, bond moves, slashes and claims
\* (ApplyContext::destroyXRP, burnXRP, QXRPDropConservation).
SupplyIsHeld == drops = HeldDrops(View)

=============================================================================
