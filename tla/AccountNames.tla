---------------------------- MODULE AccountNames ----------------------------
(***************************************************************************)
(* The account name service: NameSet, NameUnbond and NameRelease, beside   *)
(* the bond transactions they share balances and owner counts with.        *)
(*                                                                         *)
(* A spelling that is not its own normal form is refused in preflight, so  *)
(* a transaction carries a member of Names or, where sfName is optional,   *)
(* NoAccount for its absence.                                              *)
(***************************************************************************)
EXTENDS ValidatorBonds

CONSTANTS
    NameBond,            \* kNAME_BOND_DROPS
    NameUnbondLedgers    \* kNAME_UNBOND_LEDGERS

ASSUME NameAssumption ==
    /\ NameBond \in Nat \ {0}
    /\ NameUnbondLedgers \in Nat
    /\ Keys \cap Names = {}

Taken(n) == names[n] # NoName
NameHasStatus(n, s) == Taken(n) /\ names[n].status = s
NamedBy(n, a) == Taken(n) /\ names[n].owner = a

-----------------------------------------------------------------------------
(* NameSet. preclaim compares the bond with the balance before the fee,    *)
(* doApply with the balance after it.                                      *)

\* Mutant: an account may hold several names.
canSetAnother(a, n) == ~Taken(n) /\ NameBond <= balance[a] - Fee

canSetName(a, n) ==
    /\ ~Taken(n)
    /\ nameOf[a] = NoAccount
    /\ NameBond <= balance[a] - Fee

ActiveName(a) ==
    [owner |-> a, amount |-> NameBond, status |-> "ACTIVE", start |-> 0]

nameSetApply(v, a, n) ==
    [v EXCEPT !.balance[a]    = @ - NameBond,
              !.names[n]      = ActiveName(a),
              !.nameOf[a]     = n,
              !.ownerCount[a] = @ + 1]

NameSet(a, n) ==
    /\ Transact(a, canSetName(a, n), nameSetApply(PayFee(a), a, n), FALSE)
    /\ UNCHANGED signed

(* NameUnbond. Without sfName it is about the name the sender points at.   *)

resolveName(a, n) == IF n = NoAccount THEN nameOf[a] ELSE n

canUnbondName(a, n) ==
    LET m == resolveName(a, n)
    IN  /\ m # NoAccount
        /\ NamedBy(m, a)
        /\ NameHasStatus(m, "ACTIVE")

Releasing(r) == [r EXCEPT !.status = "RELEASING", !.start = seq]

nameUnbondApply(v, a, n) ==
    LET m == resolveName(a, n)
    IN  IF m = NoAccount THEN v ELSE [v EXCEPT !.names[m] = Releasing(@)]

NameUnbond(a, n) ==
    /\ Transact(a, canUnbondName(a, n), nameUnbondApply(PayFee(a), a, n), FALSE)
    /\ UNCHANGED signed

(* NameRelease: anyone may submit it, the owner is paid.                   *)

\* Mutant: the cooldown ends one ledger early.
canReleaseNameEarly(n) ==
    NameHasStatus(n, "RELEASING") /\ seq + 1 >= names[n].start + NameUnbondLedgers

canReleaseName(n) ==
    /\ NameHasStatus(n, "RELEASING")
    /\ seq >= names[n].start + NameUnbondLedgers

\* Mutant: the count of the sender is given back, not that of the owner.
nameReleaseCountsSender(v, a, n) ==
    LET owner == v.names[n].owner
    IN  [v EXCEPT !.balance[owner] = @ + v.names[n].amount,
                  !.nameOf[owner] = IF @ = n THEN NoAccount ELSE @,
                  !.ownerCount[a] = IF @ > 0 THEN @ - 1 ELSE 0,
                  !.names[n] = NoName]

nameReleaseApply(v, a, n) ==
    LET owner == v.names[n].owner
    IN  [v EXCEPT !.balance[owner]    = @ + v.names[n].amount,
                  !.nameOf[owner]     = IF @ = n THEN NoAccount ELSE @,
                  !.ownerCount[owner] = IF @ > 0 THEN @ - 1 ELSE 0,
                  !.names[n]          = NoName]

NameRelease(a, n) ==
    /\ Transact(a, canReleaseName(n), nameReleaseApply(PayFee(a), a, n), FALSE)
    /\ UNCHANGED signed

-----------------------------------------------------------------------------

NameTx(a) ==
    \/ \E n \in Names : NameSet(a, n) \/ NameRelease(a, n)
    \/ \E n \in Names \cup {NoAccount} : NameUnbond(a, n)

NameNext == Next \/ \E a \in Accounts : NameTx(a)

NameSpec == Init /\ [][NameNext]_bondVars

-----------------------------------------------------------------------------
(* Properties                                                              *)

\* A name and the reverse pointer of its owner are inverse to each other at all
\* times, through any order of set, unbond and release by anybody and through a
\* change of hands: an account never points at a name it lost or that somebody
\* else took since, which NameUnbond without sfName would then act on. A name
\* holds its full bond until it is gone.
NamesMatchOwners ==
    /\ \A n \in Names : Taken(n) =>
         /\ nameOf[names[n].owner] = n
         /\ names[n].amount = NameBond
         /\ names[n].start <= seq
    /\ \A a \in Accounts : nameOf[a] # NoAccount => NamedBy(nameOf[a], a)

OwnedKeys(a) == {k \in Keys : OwnedBy(k, a)}
OwnedNames(a) == {n \in Names : NamedBy(n, a)}

\* sfOwnerCount, which the reserve is computed from, counts the bonds and the
\* names of an account, whoever submits the releases
\* (NameSet::doApply, NameRelease::doApply, ReleaseBond::doApply).
OwnerCountCoversNames ==
    \A a \in Accounts :
        ownerCount[a] = Cardinality(OwnedKeys(a)) + Cardinality(OwnedNames(a))

NameSlot(r) ==
    IF r = NoName THEN [phase |-> "empty"]
    ELSE IF r.status = "RELEASING"
    THEN [owner |-> r.owner, amount |-> r.amount, phase |-> "leaving", since |-> r.start]
    ELSE [owner |-> r.owner, amount |-> r.amount, phase |-> "held", since |-> 0]

AllSlots ==
    [s \in Keys \cup Names |-> IF s \in Keys THEN EscrowSlot(bonds[s])
                              ELSE NameSlot(names[s])]

AllLocks ==
    [s \in Keys \cup Names |-> IF s \in Keys THEN LockLedgers ELSE NameUnbondLedgers]

\* Names and validator bonds side by side are one escrow: each comes back in
\* full to the account that put it in, after its own lock, and only the bond of
\* a double signer is ever destroyed. No transaction of one kind moves the drops
\* of the other.
AllEscrow == INSTANCE TimedEscrow WITH
    Slots   <- Keys \cup Names,
    Owners  <- Accounts,
    Amounts <- BondAmounts \cup {NameBond},
    Lock    <- AllLocks,
    MaxFee  <- Fee,
    slot    <- AllSlots,
    wallet  <- balance,
    guilty  <- Equivocators,
    now     <- seq

BondsAndNamesAreEscrowed == AllEscrow!Spec

=============================================================================
