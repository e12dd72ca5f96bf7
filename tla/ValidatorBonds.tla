--------------------------- MODULE ValidatorBonds ---------------------------
(***************************************************************************)
(* The life of a validator bond: ValidatorRegister, ValidatorBond,         *)
(* ValidatorUnbond, ReleaseBond and ValidatorSlash, and the validations    *)
(* that consensus keys sign, two of which can be evidence of a double sign.*)
(***************************************************************************)
EXTENDS QXRPLedger

CONSTANTS
    MinBond,         \* kQXRP_MIN_BOND_DROPS
    LockLedgers,     \* kUNBONDING_LOCK_LEDGERS
    BondAmounts,     \* sfBondedAmount of the ValidatorBond transactions
    Rounds, Hashes,  \* ledger sequences and hashes that validations name
    InitialBalance,  \* drops of every account at genesis
    InitialTreasury, \* kQXRP_TREASURY_ALLOCATION
    MaxSeq,          \* bound: last ledger of the run
    MaxSigned        \* bound: validations signed in the run

ASSUME BondAssumption ==
    /\ MinBond \in Nat \ {0}
    /\ LockLedgers \in Nat
    /\ BondAmounts \subseteq Nat
    /\ InitialBalance \in Nat /\ InitialTreasury \in Nat
    /\ MaxSeq \in Nat \ {0}

VARIABLE signed      \* validations that exist, by whatever key signed them

Validation == [key : Keys, round : Rounds, hash : Hashes]

bondVars == <<ledgerVars, signed>>

Registered(k) == bonds[k] # NoBond
HasStatus(k, s) == Registered(k) /\ bonds[k].status = s
OwnedBy(k, a) == Registered(k) /\ bonds[k].owner = a

-----------------------------------------------------------------------------
(* ValidatorRegister                                                       *)

FreshBond(a) ==
    [owner |-> a, amount |-> 0, status |-> "REGISTERED", start |-> 0,
     mult |-> BpsDenom, slashes |-> 0, composite |-> 0, claimed |-> 0]

registerApply(v, a, k) ==
    [v EXCEPT !.bonds[k] = FreshBond(a), !.ownerCount[a] = @ + 1]

ValidatorRegister(a, k) ==
    /\ Transact(a, ~Registered(k), registerApply(PayFee(a), a, k), FALSE)
    /\ UNCHANGED signed

(* ValidatorBond. The balance is compared with the bond alone: no reserve  *)
(* is kept back.                                                           *)

bondPreflight(x) == x >= MinBond

\* Mutant: the funds check is gone.
canBondUnfunded(a, k, x) == OwnedBy(k, a) /\ HasStatus(k, "REGISTERED")

canBond(a, k, x) ==
    /\ OwnedBy(k, a)
    /\ HasStatus(k, "REGISTERED")
    /\ x <= balance[a] - Fee

Bonded(b, x) == [b EXCEPT !.amount = x, !.status = "BONDED"]

bondApply(v, a, k, x) ==
    [v EXCEPT !.balance[a] = @ - x, !.bonds[k] = Bonded(@, x)]

ValidatorBond(a, k, x) ==
    /\ bondPreflight(x)
    /\ Transact(a, canBond(a, k, x), bondApply(PayFee(a), a, k, x), FALSE)
    /\ UNCHANGED signed

(* ValidatorUnbond                                                         *)

canUnbond(a, k) == OwnedBy(k, a) /\ HasStatus(k, "BONDED")

Unbonding(b) == [b EXCEPT !.status = "UNBONDING", !.start = seq]

unbondApply(v, k) == [v EXCEPT !.bonds[k] = Unbonding(@)]

ValidatorUnbond(a, k) ==
    /\ Transact(a, canUnbond(a, k), unbondApply(PayFee(a), k), FALSE)
    /\ UNCHANGED signed

(* ReleaseBond: anyone may submit it, the registrant is paid.              *)

\* Mutant: the lock ends one ledger early.
canReleaseEarly(k) ==
    HasStatus(k, "UNBONDING") /\ seq + 1 >= bonds[k].start + LockLedgers

canRelease(k) ==
    /\ HasStatus(k, "UNBONDING")
    /\ seq >= bonds[k].start + LockLedgers

\* Mutant: the owner count is not given back.
releaseApplyKeepsCount(v, k) ==
    [v EXCEPT !.balance[v.bonds[k].owner] = @ + v.bonds[k].amount,
              !.bonds[k] = NoBond]

releaseApply(v, k) ==
    LET owner == v.bonds[k].owner
    IN  [v EXCEPT !.balance[owner] = @ + v.bonds[k].amount,
                  !.ownerCount[owner] = IF @ > 0 THEN @ - 1 ELSE 0,
                  !.bonds[k] = NoBond]

ReleaseBond(a, k) ==
    /\ Transact(a, canRelease(k), releaseApply(PayFee(a), k), FALSE)
    /\ UNCHANGED signed

(* ValidatorSlash                                                          *)

\* Mutant: half of the bond is slashed, as for kSLASH_INVALID_VOTE_BPS.
SlashBpsHalf == BpsDenom \div 2

SlashBps == BpsDenom   \* kSLASH_DOUBLE_SIGN_BPS

\* kSLASH_MULTIPLIER step of 1 000 bps, a tenth of kBPS_DENOM.
MultiplierStep == BpsDenom \div 10

slashPreflight(e1, e2) == e1 # e2

\* Mutant: validations of two different ledgers are evidence.
verifyAnyTwoValidations(e1, e2, k) ==
    /\ e1 \in signed /\ e2 \in signed
    /\ e1.key = e2.key /\ e1.key = k
    /\ e1.hash # e2.hash

\* A blob parses only when its key signed it, so evidence is taken from signed.
verifyDoubleSignEvidence(e1, e2, k) ==
    /\ e1 \in signed /\ e2 \in signed
    /\ e1.key = e2.key
    /\ e1.key = k
    /\ e1.round = e2.round
    /\ e1.hash # e2.hash

\* Mutant: a bond on its way out can be slashed again.
canSlashAnyStatus(k, e1, e2) ==
    Registered(k) /\ verifyDoubleSignEvidence(e1, e2, k)

canSlash(k, e1, e2) ==
    /\ HasStatus(k, "BONDED") \/ HasStatus(k, "REGISTERED")
    /\ verifyDoubleSignEvidence(e1, e2, k)

SlashedDrops(b) == (b.amount * SlashBps) \div BpsDenom

\* The bond keeps what the slash left of it, and the registrant is credited
\* with that too (with a full slash both are zero).
Slashed(b) ==
    [b EXCEPT !.amount  = @ - SlashedDrops(b),
              !.status  = "UNBONDING",
              !.start   = seq,
              !.mult    = IF @ >= MultiplierStep THEN @ - MultiplierStep ELSE 0,
              !.slashes = @ + 1]

slashApply(v, k) ==
    LET b == v.bonds[k]
    IN  [v EXCEPT !.bonds[k] = Slashed(b),
                  !.burned = @ + SlashedDrops(b),
                  !.balance[b.owner] = @ + Slashed(b).amount]

ValidatorSlash(a, k, e1, e2) ==
    /\ slashPreflight(e1, e2)
    /\ Transact(a, canSlash(k, e1, e2), slashApply(PayFee(a), k), TRUE)
    /\ UNCHANGED signed

-----------------------------------------------------------------------------
(* The environment: consensus keys sign validations, ledgers close.        *)

Sign(v) ==
    /\ v \notin signed
    /\ Cardinality(signed) < MaxSigned
    /\ signed' = signed \cup {v}
    /\ UNCHANGED ledgerVars

\* Between two ledgers nothing touches a bond but the epoch and scoring phases
\* of BuildLedger, which module RewardEpoch adds.
NextLedger ==
    /\ seq < MaxSeq
    /\ seq' = seq + 1

CloseLedger ==
    /\ NextLedger
    /\ UNCHANGED <<balance, ownerCount, treasury, drops, bonds, names, nameOf,
                   epoch, signed>>

BondTx(a, k) ==
    \/ ValidatorRegister(a, k)
    \/ \E x \in BondAmounts : ValidatorBond(a, k, x)
    \/ ValidatorUnbond(a, k)
    \/ ReleaseBond(a, k)
    \/ \E e1, e2 \in Validation : ValidatorSlash(a, k, e1, e2)

LedgerInit ==
    /\ seq = 1
    /\ balance = [a \in Accounts |-> InitialBalance]
    /\ ownerCount = [a \in Accounts |-> 0]
    /\ treasury = InitialTreasury
    /\ bonds = [k \in Keys |-> NoBond]
    /\ names = [n \in Names |-> NoName]
    /\ nameOf = [a \in Accounts |-> NoAccount]
    /\ epoch = NoEpoch
    /\ drops = Cardinality(Accounts) * InitialBalance + InitialTreasury

Init == LedgerInit /\ signed = {}

Next ==
    \/ \E a \in Accounts, k \in Keys : BondTx(a, k)
    \/ \E v \in Validation : Sign(v)
    \/ CloseLedger

Spec == Init /\ [][Next]_bondVars

-----------------------------------------------------------------------------
(* Properties                                                              *)

TypeOK == LedgerTypeOK /\ seq <= MaxSeq /\ signed \subseteq Validation

Equivocated(k) ==
    \E e1, e2 \in signed :
        e1.key = k /\ e2.key = k /\ e1.round = e2.round /\ e1.hash # e2.hash

\* Along every sequence of register, bond, unbond, slash and release a bond
\* that can earn is unslashed and at full strength, a slashed one holds nothing
\* and stays on its way out, and an exit never starts in the future. The score
\* factor sfSlashMultiplier is thus never below its maximum where
\* ValidatorScoring reads it.
BondShape(k) ==
    LET b == bonds[k]
    IN  /\ b.status = "REGISTERED" => b.amount = 0
        /\ b.status = "BONDED" => b.amount >= MinBond
        /\ b.status # "UNBONDING" => b.slashes = 0 /\ b.mult = BpsDenom
        /\ b.status = "UNBONDING" =>
             /\ b.start <= seq
             /\ \/ b.slashes = 0 /\ b.amount >= MinBond
                \/ b.slashes = 1 /\ b.amount = 0

BondsWellFormed == \A k \in Keys : Registered(k) => BondShape(k)

\* No sequence of transactions of other accounts slashes a validator whose key
\* never signed two hashes for one ledger (verifyDoubleSignEvidence).
OnlyEquivocatorsSlashed ==
    \A k \in Keys : Registered(k) /\ bonds[k].slashes > 0 => Equivocated(k)

\* sfOwnerCount, which the reserve is computed from, is the number of bonds the
\* account owns after any order of registrations and releases by anybody
\* (ValidatorRegister::doApply, ReleaseBond::doApply).
OwnerCountExact ==
    \A a \in Accounts :
        ownerCount[a] = Cardinality({k \in Keys : OwnedBy(k, a)})

\* What a bond without drops, and a bond with drops, is to the escrow.
EscrowSlot(b) ==
    IF b = NoBond THEN [phase |-> "empty"]
    ELSE IF b.amount = 0 THEN [phase |-> "empty"]
    ELSE IF b.status = "UNBONDING"
    THEN [owner |-> b.owner, amount |-> b.amount, phase |-> "leaving", since |-> b.start]
    ELSE [owner |-> b.owner, amount |-> b.amount, phase |-> "held", since |-> 0]

EscrowSlots == [k \in Keys |-> EscrowSlot(bonds[k])]

Equivocators == {k \in Keys : Equivocated(k)}

\* The drops in a bond are an escrow for its registrant: they come back to that
\* account only, in full, no sooner than the lock allows, whoever submits the
\* release, and are destroyed only on proof of a double signature.
Escrow == INSTANCE TimedEscrow WITH
    Slots   <- Keys,
    Owners  <- Accounts,
    Amounts <- BondAmounts,
    Lock    <- [k \in Keys |-> LockLedgers],
    MaxFee  <- Fee,
    slot    <- EscrowSlots,
    wallet  <- balance,
    guilty  <- Equivocators,
    now     <- seq

BondsAreEscrowed == Escrow!Spec

=============================================================================
