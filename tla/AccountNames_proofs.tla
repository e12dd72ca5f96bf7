------------------------- MODULE AccountNames_proofs -------------------------
(***************************************************************************)
(* Theorems about account names and the bonds beside them, for every       *)
(* number of accounts, keys and names.                                     *)
(*                                                                         *)
(* NameTxEffect says what a name transaction does to the ledger, as        *)
(* BondTxEffect does for bonds; the transactions of one kind leave the     *)
(* objects of the other alone. NamesMatchOwners is inductive on well-typed *)
(* ledgers. The refinement reuses the one of ValidatorBonds: a step of the *)
(* bond escrow is a step of the escrow of bonds and names.                 *)
(***************************************************************************)
EXTENDS AccountNames, ValidatorBonds_proofs

-----------------------------------------------------------------------------
(* The views that the name transactors commit.                             *)

\* A name that was set.
LEMMA ActiveNameTyped ==
    ASSUME NEW a \in Accounts
    PROVE  /\ ActiveName(a) \in AccountName /\ ActiveName(a) # NoName
           /\ ActiveName(a).owner = a /\ ActiveName(a).amount = NameBond
           /\ ActiveName(a).status = "ACTIVE" /\ ActiveName(a).start = 0
  <1>1. ActiveName(a) \in AccountName
    BY NameAssumption DEF ActiveName, AccountName, NameStatus
  <1> QED
    BY <1>1, AbsentAssumption DEF ActiveName

\* Beginning the cooldown changes the status and the start only.
LEMMA ReleasingTyped ==
    ASSUME NEW r \in AccountName, seq \in Nat
    PROVE  /\ Releasing(r) \in AccountName /\ Releasing(r) # NoName
           /\ Releasing(r).owner = r.owner /\ Releasing(r).amount = r.amount
           /\ Releasing(r).status = "RELEASING" /\ Releasing(r).start = seq
  <1>1. /\ Releasing(r) \in AccountName
        /\ Releasing(r).owner = r.owner /\ Releasing(r).amount = r.amount
        /\ Releasing(r).status = "RELEASING" /\ Releasing(r).start = seq
    BY DEF Releasing, AccountName, NameStatus
  <1> QED
    BY <1>1, AbsentAssumption

\* A name that is taken is a name of the ledger's type.
LEMMA TakenTyped ==
    ASSUME LedgerTypeOK, NEW n \in Names, Taken(n)
    PROVE  /\ names[n] \in AccountName /\ names[n].owner \in Accounts
           /\ names[n].amount \in Nat /\ names[n].start \in Nat
           /\ names[n].status \in NameStatus
  <1>1. names[n] \in AccountName
    BY DEF LedgerTypeOK, Taken
  <1> QED
    BY <1>1 DEF AccountName

\* What NameUnbond is about is a name of the ledger.
LEMMA ResolvedTyped ==
    ASSUME LedgerTypeOK, NEW a \in Accounts, NEW n \in Names \cup {NoAccount},
           canUnbondName(a, n)
    PROVE  /\ resolveName(a, n) \in Names /\ resolveName(a, n) # NoAccount
           /\ NamedBy(resolveName(a, n), a)
           /\ NameHasStatus(resolveName(a, n), "ACTIVE")
  BY DEF canUnbondName, resolveName, LedgerTypeOK

\* The view of a NameSet is well typed: the funds check leaves no debt.
LEMMA NameSetView ==
    ASSUME LedgerTypeOK, NEW a \in Accounts, NEW n \in Names,
           balance[a] >= Fee, canSetName(a, n),
           NEW v, v = nameSetApply(PayFee(a), a, n)
    PROVE  ViewOK(v) /\ v.burned = 0
  <1>1. /\ v.balance = [[balance EXCEPT ![a] = @ - Fee] EXCEPT ![a] = @ - NameBond]
        /\ v.names = [names EXCEPT ![n] = ActiveName(a)]
        /\ v.nameOf = [nameOf EXCEPT ![a] = n]
        /\ v.ownerCount = [ownerCount EXCEPT ![a] = @ + 1]
        /\ v.treasury = treasury /\ v.bonds = bonds
        /\ v.epoch = epoch /\ v.burned = 0
    BY PayFeeFields DEF nameSetApply
  <1>2. v.balance \in [Accounts -> Nat]
    BY <1>1, FeeAssumption, NameAssumption DEF LedgerTypeOK, canSetName
  <1>3. v.names \in [Names -> AccountName \cup {NoName}]
    BY <1>1, ActiveNameTyped DEF LedgerTypeOK
  <1>4. v.nameOf \in [Accounts -> Names \cup {NoAccount}]
    BY <1>1 DEF LedgerTypeOK
  <1>5. v.ownerCount \in [Accounts -> Nat]
    BY <1>1 DEF LedgerTypeOK
  <1> QED
    BY <1>1, <1>2, <1>3, <1>4, <1>5 DEF ViewOK, LedgerTypeOK

\* The view of a NameUnbond is well typed.
LEMMA NameUnbondView ==
    ASSUME LedgerTypeOK, NEW a \in Accounts, NEW n \in Names \cup {NoAccount},
           balance[a] >= Fee, canUnbondName(a, n),
           NEW v, v = nameUnbondApply(PayFee(a), a, n)
    PROVE  ViewOK(v) /\ v.burned = 0
  <1> DEFINE m == resolveName(a, n)
  <1>1. m \in Names /\ m # NoAccount /\ Taken(m)
    BY ResolvedTyped DEF NamedBy
  <1>2. /\ v.balance = [balance EXCEPT ![a] = @ - Fee]
        /\ v.names = [names EXCEPT ![m] = Releasing(names[m])]
        /\ v.nameOf = nameOf /\ v.ownerCount = ownerCount
        /\ v.treasury = treasury /\ v.bonds = bonds
        /\ v.epoch = epoch /\ v.burned = 0
    BY <1>1, PayFeeFields DEF nameUnbondApply
  <1> HIDE DEF m
  <1>3. v.names \in [Names -> AccountName \cup {NoName}]
    BY <1>1, <1>2, TakenTyped, ReleasingTyped DEF LedgerTypeOK
  <1> QED
    BY <1>2, <1>3, FeePaid DEF ViewOK, LedgerTypeOK

\* The view of a NameRelease is well typed.
LEMMA NameReleaseView ==
    ASSUME LedgerTypeOK, NEW a \in Accounts, NEW n \in Names,
           balance[a] >= Fee, canReleaseName(n),
           NEW v, v = nameReleaseApply(PayFee(a), a, n)
    PROVE  ViewOK(v) /\ v.burned = 0
  <1> DEFINE o == names[n].owner
             x == names[n].amount
             w == [balance EXCEPT ![a] = @ - Fee]
  <1>1. /\ v.balance = [w EXCEPT ![o] = @ + x]
        /\ v.names = [names EXCEPT ![n] = NoName]
        /\ v.nameOf = [nameOf EXCEPT ![o] = IF @ = n THEN NoAccount ELSE @]
        /\ v.ownerCount = [ownerCount EXCEPT ![o] = IF @ > 0 THEN @ - 1 ELSE 0]
        /\ v.treasury = treasury /\ v.bonds = bonds
        /\ v.epoch = epoch /\ v.burned = 0
    BY PayFeeFields DEF nameReleaseApply
  <1>2. o \in Accounts /\ x \in Nat
    BY TakenTyped DEF canReleaseName, NameHasStatus
  <1>3. w \in [Accounts -> Nat]
    BY FeePaid
  <1> HIDE DEF o, x, w
  <1>4. v.balance \in [Accounts -> Nat]
    BY <1>1, <1>2, <1>3
  <1>5. v.ownerCount \in [Accounts -> Nat]
    BY <1>1, <1>2 DEF LedgerTypeOK
  <1>6. v.nameOf \in [Accounts -> Names \cup {NoAccount}]
    BY <1>1, <1>2 DEF LedgerTypeOK
  <1>7. v.names \in [Names -> AccountName \cup {NoName}]
    BY <1>1 DEF LedgerTypeOK
  <1> QED
    BY <1>1, <1>4, <1>5, <1>6, <1>7 DEF ViewOK, LedgerTypeOK

-----------------------------------------------------------------------------
(* What a name transaction does to the ledger.                             *)

\* Only the fee is claimed.
NameCharged(a) ==
    /\ UNCHANGED <<ownerCount, names, nameOf>>
    /\ \E fee \in 0..Fee : balance' = [balance EXCEPT ![a] = @ - fee]

Claims(a, n) ==
    /\ canSetName(a, n)
    /\ names' = [names EXCEPT ![n] = ActiveName(a)]
    /\ nameOf' = [nameOf EXCEPT ![a] = n]
    /\ ownerCount' = [ownerCount EXCEPT ![a] = @ + 1]
    /\ balance' = [[balance EXCEPT ![a] = @ - Fee] EXCEPT ![a] = @ - NameBond]

Renounces(a, m) ==
    /\ NamedBy(m, a) /\ NameHasStatus(m, "ACTIVE")
    /\ names' = [names EXCEPT ![m] = Releasing(names[m])]
    /\ balance' = [balance EXCEPT ![a] = @ - Fee]
    /\ UNCHANGED <<ownerCount, nameOf>>

Frees(a, n) ==
    /\ canReleaseName(n)
    /\ names' = [names EXCEPT ![n] = NoName]
    /\ nameOf' = [nameOf EXCEPT ![names[n].owner] = IF @ = n THEN NoAccount ELSE @]
    /\ balance' = [[balance EXCEPT ![a] = @ - Fee]
                     EXCEPT ![names[n].owner] = @ + names[n].amount]
    /\ ownerCount' = [ownerCount EXCEPT ![names[n].owner] =
                        IF @ > 0 THEN @ - 1 ELSE 0]

\* The parts of the ledger that no name transaction writes.
NameUntouched == UNCHANGED <<seq, bonds, epoch>>

\* A fee claim leaves names alone.
LEMMA NameChargedEffect ==
    ASSUME LedgerTypeOK, NEW a \in Accounts, ClaimFee(a)
    PROVE  LedgerTypeOK' /\ NameUntouched /\ NameCharged(a)
  BY ClaimFeeEffect DEF NameUntouched, NameCharged

\* NameSet takes the name and its bond or only claims its fee.
LEMMA NameSetEffect ==
    ASSUME LedgerTypeOK, NEW a \in Accounts, NEW n \in Names, NameSet(a, n)
    PROVE  LedgerTypeOK' /\ NameUntouched /\ (Claims(a, n) \/ NameCharged(a))
  <1> DEFINE v == nameSetApply(PayFee(a), a, n)
  <1>1. CASE ClaimFee(a)
    BY <1>1, NameChargedEffect
  <1>2. CASE balance[a] >= Fee /\ canSetName(a, n) /\ Commit(v, Fee)
    <2>1. /\ v.balance = [[balance EXCEPT ![a] = @ - Fee] EXCEPT ![a] = @ - NameBond]
          /\ v.names = [names EXCEPT ![n] = ActiveName(a)]
          /\ v.nameOf = [nameOf EXCEPT ![a] = n]
          /\ v.ownerCount = [ownerCount EXCEPT ![a] = @ + 1]
          /\ v.treasury = treasury /\ v.bonds = bonds
          /\ v.epoch = epoch /\ v.burned = 0
      BY PayFeeFields DEF nameSetApply
    <2>2. ViewOK(v)
      BY <1>2, NameSetView
    <2> HIDE DEF v
    <2>3. LedgerTypeOK'
      BY <1>2, <2>2, FeeAssumption, CommitTyped
    <2> QED
      BY <1>2, <2>1, <2>3 DEF Claims, NameUntouched, Commit
  <1> QED
    BY <1>1, <1>2 DEF NameSet, Transact, Succeeds

\* NameUnbond begins the cooldown of the sender's name or only claims its fee.
LEMMA NameUnbondEffect ==
    ASSUME LedgerTypeOK, NEW a \in Accounts, NEW n \in Names \cup {NoAccount},
           NameUnbond(a, n)
    PROVE  /\ LedgerTypeOK' /\ NameUntouched
           /\ (\E m \in Names : Renounces(a, m)) \/ NameCharged(a)
  <1> DEFINE v == nameUnbondApply(PayFee(a), a, n)
             m == resolveName(a, n)
  <1>1. CASE ClaimFee(a)
    BY <1>1, NameChargedEffect
  <1>2. CASE balance[a] >= Fee /\ canUnbondName(a, n) /\ Commit(v, Fee)
    <2>0. /\ m \in Names /\ m # NoAccount
          /\ NamedBy(m, a) /\ NameHasStatus(m, "ACTIVE")
      BY <1>2, ResolvedTyped
    <2>1. /\ v.balance = [balance EXCEPT ![a] = @ - Fee]
          /\ v.names = [names EXCEPT ![m] = Releasing(names[m])]
          /\ v.nameOf = nameOf /\ v.ownerCount = ownerCount
          /\ v.treasury = treasury /\ v.bonds = bonds
          /\ v.epoch = epoch /\ v.burned = 0
      BY <2>0, PayFeeFields DEF nameUnbondApply
    <2>2. ViewOK(v)
      BY <1>2, NameUnbondView
    <2> HIDE DEF v, m
    <2>3. LedgerTypeOK'
      BY <1>2, <2>2, FeeAssumption, CommitTyped
    <2>4. Renounces(a, m)
      BY <1>2, <2>0, <2>1 DEF Renounces, Commit
    <2> QED
      BY <1>2, <2>0, <2>1, <2>3, <2>4 DEF NameUntouched, Commit
  <1> QED
    BY <1>1, <1>2 DEF NameUnbond, Transact, Succeeds

\* NameRelease frees the name and pays its owner or only claims its fee.
LEMMA NameReleaseEffect ==
    ASSUME LedgerTypeOK, NEW a \in Accounts, NEW n \in Names, NameRelease(a, n)
    PROVE  LedgerTypeOK' /\ NameUntouched /\ (Frees(a, n) \/ NameCharged(a))
  <1> DEFINE v == nameReleaseApply(PayFee(a), a, n)
  <1>1. CASE ClaimFee(a)
    BY <1>1, NameChargedEffect
  <1>2. CASE balance[a] >= Fee /\ canReleaseName(n) /\ Commit(v, Fee)
    <2>1. /\ v.balance = [[balance EXCEPT ![a] = @ - Fee]
                             EXCEPT ![names[n].owner] = @ + names[n].amount]
          /\ v.names = [names EXCEPT ![n] = NoName]
          /\ v.nameOf = [nameOf EXCEPT ![names[n].owner] =
                           IF @ = n THEN NoAccount ELSE @]
          /\ v.ownerCount = [ownerCount EXCEPT ![names[n].owner] =
                               IF @ > 0 THEN @ - 1 ELSE 0]
          /\ v.treasury = treasury /\ v.bonds = bonds
          /\ v.epoch = epoch /\ v.burned = 0
      BY PayFeeFields DEF nameReleaseApply
    <2>2. ViewOK(v)
      BY <1>2, NameReleaseView
    <2> HIDE DEF v
    <2>3. LedgerTypeOK'
      BY <1>2, <2>2, FeeAssumption, CommitTyped
    <2> QED
      BY <1>2, <2>1, <2>3 DEF Frees, NameUntouched, Commit
  <1> QED
    BY <1>1, <1>2 DEF NameRelease, Transact, Succeeds

\* Every name transaction has one of four effects on names and balances.
LEMMA NameTxEffect ==
    ASSUME LedgerTypeOK, NEW a \in Accounts, NameTx(a)
    PROVE  /\ LedgerTypeOK' /\ NameUntouched /\ UNCHANGED signed
           /\ \/ NameCharged(a)
              \/ \E n \in Names : Claims(a, n) \/ Renounces(a, n) \/ Frees(a, n)
  <1>1. ASSUME NEW n \in Names, NameSet(a, n)
        PROVE  /\ LedgerTypeOK' /\ NameUntouched /\ UNCHANGED signed
               /\ Claims(a, n) \/ NameCharged(a)
    BY <1>1, NameSetEffect DEF NameSet
  <1>2. ASSUME NEW n \in Names, NameRelease(a, n)
        PROVE  /\ LedgerTypeOK' /\ NameUntouched /\ UNCHANGED signed
               /\ Frees(a, n) \/ NameCharged(a)
    BY <1>2, NameReleaseEffect DEF NameRelease
  <1>3. ASSUME NEW n \in Names \cup {NoAccount}, NameUnbond(a, n)
        PROVE  /\ LedgerTypeOK' /\ NameUntouched /\ UNCHANGED signed
               /\ (\E m \in Names : Renounces(a, m)) \/ NameCharged(a)
    BY <1>3, NameUnbondEffect DEF NameUnbond
  <1> QED
    BY <1>1, <1>2, <1>3 DEF NameTx

-----------------------------------------------------------------------------
(* Type correctness and the shape of bonds                                 *)

\* Every step of bonds and names keeps the ledger well typed.
LEMMA NameNextTyped == TypeOK /\ [NameNext]_bondVars => TypeOK'
  <1> SUFFICES ASSUME TypeOK, [NameNext]_bondVars PROVE TypeOK'
    OBVIOUS
  <1>1. CASE [Next]_bondVars
    BY <1>1, NextTyped
  <1>2. ASSUME NEW a \in Accounts, NameTx(a)
        PROVE  TypeOK'
    BY <1>2, NameTxEffect DEF TypeOK, NameUntouched
  <1> QED
    BY <1>1, <1>2 DEF NameNext

\* With names beside the bonds no order of transactions overdraws an account or
\* the treasury either: NameSet compares its bond with the balance after the
\* fee, so the preclaim that forgets the fee does no harm.
THEOREM NameTypeCorrect == NameSpec => []TypeOK
  BY InitTyped, NameNextTyped, PTL DEF NameSpec

\* A name transaction leaves every bond in shape.
LEMMA NameNextWellFormed ==
    TypeOK /\ BondsWellFormed /\ [NameNext]_bondVars => BondsWellFormed'
  <1> SUFFICES ASSUME TypeOK, BondsWellFormed, [NameNext]_bondVars
               PROVE  BondsWellFormed'
    OBVIOUS
  <1>1. CASE [Next]_bondVars
    BY <1>1, NextWellFormed
  <1>2. ASSUME NEW a \in Accounts, NameTx(a)
        PROVE  BondsWellFormed'
    <2>1. UNCHANGED <<seq, bonds>>
      BY <1>2, NameTxEffect DEF TypeOK, NameUntouched
    <2> QED
      BY <2>1 DEF BondsWellFormed, BondShape, Registered
  <1> QED
    BY <1>1, <1>2 DEF NameNext

\* Names do not disturb the bonds: the shape of a bond is kept.
LEMMA NamesKeepBonds == NameSpec => []BondsWellFormed
  <1>1. Init => BondsWellFormed
    BY DEF Init, LedgerInit, BondsWellFormed, Registered
  <1> QED
    BY <1>1, NameTypeCorrect, NameNextWellFormed, PTL DEF NameSpec

-----------------------------------------------------------------------------
(* Names and owners                                                        *)

\* Steps that write neither a name nor a pointer keep the two matched.
LEMMA MatchKept ==
    ASSUME TypeOK, NamesMatchOwners, UNCHANGED <<names, nameOf>>,
           seq' \in Nat, seq <= seq'
    PROVE  NamesMatchOwners'
  <1>1. ASSUME NEW n \in Names, Taken(n)'
        PROVE  /\ nameOf'[names'[n].owner] = n
               /\ names'[n].amount = NameBond
               /\ names'[n].start <= seq'
    <2>1. Taken(n) /\ LedgerTypeOK /\ seq \in Nat
      BY <1>1 DEF Taken, TypeOK, LedgerTypeOK
    <2>2. names[n].start \in Nat
      BY <2>1, TakenTyped
    <2> QED
      BY <2>1, <2>2 DEF NamesMatchOwners
  <1>2. ASSUME NEW a \in Accounts, nameOf'[a] # NoAccount
        PROVE  NamedBy(nameOf[a], a)'
    BY <1>2 DEF NamesMatchOwners, NamedBy, Taken
  <1> QED
    BY <1>1, <1>2 DEF NamesMatchOwners

\* Every name transaction keeps names and pointers matched.
LEMMA NameTxMatches ==
    ASSUME TypeOK, NamesMatchOwners, NEW a \in Accounts, NameTx(a)
    PROVE  NamesMatchOwners'
  <1>t. /\ LedgerTypeOK /\ names \in [Names -> AccountName \cup {NoName}]
        /\ nameOf \in [Accounts -> Names \cup {NoAccount}] /\ seq \in Nat
    BY DEF TypeOK, LedgerTypeOK
  <1>0. /\ NameUntouched
        /\ \/ NameCharged(a)
           \/ \E n \in Names : Claims(a, n) \/ Renounces(a, n) \/ Frees(a, n)
    BY <1>t, NameTxEffect
  <1>s. seq' = seq
    BY <1>0 DEF NameUntouched
  <1>m. /\ \A n \in Names : Taken(n) =>
              /\ nameOf[names[n].owner] = n
              /\ names[n].amount = NameBond
              /\ names[n].start <= seq
        /\ \A b \in Accounts : nameOf[b] # NoAccount => NamedBy(nameOf[b], b)
    BY DEF NamesMatchOwners
  <1>1. CASE NameCharged(a)
    BY <1>1, <1>t, <1>s, MatchKept DEF NameCharged
  <1>2. ASSUME NEW n \in Names, Claims(a, n)
        PROVE  NamesMatchOwners'
    <2>1. /\ ~Taken(n) /\ nameOf[a] = NoAccount
          /\ names' = [names EXCEPT ![n] = ActiveName(a)]
          /\ nameOf' = [nameOf EXCEPT ![a] = n]
      BY <1>2 DEF Claims, canSetName
    <2>2. ASSUME NEW m \in Names, Taken(m)'
          PROVE  /\ nameOf'[names'[m].owner] = m
                 /\ names'[m].amount = NameBond
                 /\ names'[m].start <= seq'
      <3>1. CASE m = n
        BY <1>t, <1>s, <2>1, <3>1, ActiveNameTyped
      <3>2. CASE m # n
        <4>1. names'[m] = names[m] /\ Taken(m)
          BY <1>t, <2>1, <2>2, <3>2 DEF Taken
        <4>2. names[m].owner \in Accounts /\ nameOf[names[m].owner] = m
          BY <1>t, <1>m, <4>1, TakenTyped
        <4>3. names[m].owner # a
          BY <2>1, <4>2, AbsentAssumption
        <4> QED
          BY <1>m, <1>s, <1>t, <2>1, <4>1, <4>2, <4>3
      <3> QED
        BY <3>1, <3>2
    <2>3. ASSUME NEW b \in Accounts, nameOf'[b] # NoAccount
          PROVE  NamedBy(nameOf[b], b)'
      <3>1. CASE b = a
        <4>1. nameOf'[b] = n /\ names'[n] = ActiveName(a)
          BY <1>t, <2>1, <3>1
        <4> QED
          BY <3>1, <4>1, ActiveNameTyped DEF NamedBy, Taken
      <3>2. CASE b # a
        <4>1. nameOf'[b] = nameOf[b] /\ nameOf[b] \in Names
          BY <1>t, <2>1, <2>3, <3>2
        <4>2. NamedBy(nameOf[b], b)
          BY <1>m, <2>3, <4>1
        <4>3. nameOf[b] # n
          BY <2>1, <4>2 DEF NamedBy
        <4> QED
          BY <1>t, <2>1, <4>1, <4>2, <4>3 DEF NamedBy, Taken
      <3> QED
        BY <3>1, <3>2
    <2> QED
      BY <2>2, <2>3 DEF NamesMatchOwners
  <1>3. ASSUME NEW n \in Names, Renounces(a, n)
        PROVE  NamesMatchOwners'
    <2>1. /\ NamedBy(n, a) /\ names' = [names EXCEPT ![n] = Releasing(names[n])]
          /\ nameOf' = nameOf
      BY <1>3 DEF Renounces
    <2>2. names[n] \in AccountName /\ Taken(n) /\ names[n].owner = a
      BY <1>t, <2>1, TakenTyped DEF NamedBy
    <2>3. /\ names'[n] = Releasing(names[n]) /\ names'[n] # NoName
          /\ names'[n].owner = a /\ names'[n].amount = names[n].amount
          /\ names'[n].start = seq
      BY <1>t, <2>1, <2>2, ReleasingTyped
    <2>4. ASSUME NEW m \in Names, Taken(m)'
          PROVE  /\ nameOf'[names'[m].owner] = m
                 /\ names'[m].amount = NameBond
                 /\ names'[m].start <= seq'
      <3>1. CASE m = n
        BY <1>m, <1>s, <1>t, <2>1, <2>2, <2>3, <3>1
      <3>2. CASE m # n
        <4>1. names'[m] = names[m] /\ Taken(m)
          BY <1>t, <2>1, <2>4, <3>2 DEF Taken
        <4> QED
          BY <1>m, <1>s, <2>1, <4>1
      <3> QED
        BY <3>1, <3>2
    <2>5. ASSUME NEW b \in Accounts, nameOf'[b] # NoAccount
          PROVE  NamedBy(nameOf[b], b)'
      <3>1. NamedBy(nameOf[b], b) /\ nameOf[b] \in Names
        BY <1>m, <1>t, <2>1, <2>5
      <3> QED
        BY <1>t, <2>1, <2>2, <2>3, <3>1 DEF NamedBy, Taken
    <2> QED
      BY <2>4, <2>5 DEF NamesMatchOwners
  <1>4. ASSUME NEW n \in Names, Frees(a, n)
        PROVE  NamesMatchOwners'
    <2> DEFINE o == names[n].owner
    <2>1. /\ Taken(n) /\ names' = [names EXCEPT ![n] = NoName]
          /\ nameOf' = [nameOf EXCEPT ![o] = IF @ = n THEN NoAccount ELSE @]
      BY <1>4 DEF Frees, canReleaseName, NameHasStatus
    <2>2. o \in Accounts /\ nameOf[o] = n
      BY <1>m, <1>t, <2>1, TakenTyped
    <2> HIDE DEF o
    <2>3. nameOf' = [nameOf EXCEPT ![o] = NoAccount]
      BY <1>t, <2>1, <2>2
    <2>4. ASSUME NEW m \in Names, Taken(m)'
          PROVE  /\ nameOf'[names'[m].owner] = m
                 /\ names'[m].amount = NameBond
                 /\ names'[m].start <= seq'
      <3>1. m # n /\ names'[m] = names[m] /\ Taken(m)
        BY <1>t, <2>1, <2>4 DEF Taken
      <3>2. names[m].owner \in Accounts /\ nameOf[names[m].owner] = m
        BY <1>t, <1>m, <3>1, TakenTyped
      <3>3. names[m].owner # o
        BY <2>2, <3>1, <3>2
      <3> QED
        BY <1>m, <1>s, <1>t, <2>3, <3>1, <3>2, <3>3
    <2>5. ASSUME NEW b \in Accounts, nameOf'[b] # NoAccount
          PROVE  NamedBy(nameOf[b], b)'
      <3>1. b # o /\ nameOf'[b] = nameOf[b] /\ nameOf[b] \in Names
        BY <1>t, <2>3, <2>5
      <3>2. NamedBy(nameOf[b], b)
        BY <1>m, <2>5, <3>1
      <3>3. nameOf[b] # n
        BY <3>1, <3>2 DEF NamedBy, o
      <3> QED
        BY <1>t, <2>1, <3>1, <3>2, <3>3 DEF NamedBy, Taken
    <2> QED
      BY <2>4, <2>5 DEF NamesMatchOwners
  <1> QED
    BY <1>0, <1>1, <1>2, <1>3, <1>4

\* Every step keeps names and pointers matched.
LEMMA NameNextMatches ==
    TypeOK /\ NamesMatchOwners /\ [NameNext]_bondVars => NamesMatchOwners'
  <1> SUFFICES ASSUME TypeOK, NamesMatchOwners, [NameNext]_bondVars
               PROVE  NamesMatchOwners'
    OBVIOUS
  <1>t. LedgerTypeOK /\ seq \in Nat
    BY DEF TypeOK, LedgerTypeOK
  <1>1. ASSUME NEW a \in Accounts, NEW k \in Keys, BondTx(a, k)
        PROVE  NamesMatchOwners'
    <2>1. UNCHANGED <<names, nameOf, seq>>
      BY <1>1, <1>t, BondTxEffect DEF Untouched
    <2> QED
      BY <1>t, <2>1, MatchKept
  <1>2. ASSUME NEW v \in Validation, Sign(v)
        PROVE  NamesMatchOwners'
    BY <1>2, <1>t, MatchKept DEF Sign, ledgerVars
  <1>3. CASE CloseLedger
    <2>1. UNCHANGED <<names, nameOf>> /\ seq' = seq + 1
      BY <1>3 DEF CloseLedger, NextLedger
    <2> QED
      BY <1>t, <2>1, MatchKept
  <1>4. ASSUME NEW a \in Accounts, NameTx(a)
        PROVE  NamesMatchOwners'
    BY <1>4, NameTxMatches
  <1>5. CASE UNCHANGED bondVars
    BY <1>5, <1>t, MatchKept DEF bondVars, ledgerVars
  <1> QED
    BY <1>1, <1>2, <1>3, <1>4, <1>5 DEF NameNext, Next

\* A name and the pointer of its owner are inverse to each other, whatever the
\* order of NameSet, NameUnbond and NameRelease and whoever submits them, for
\* any number of accounts and names; no account points at a name it lost.
THEOREM NamesAlwaysMatch == NameSpec => []NamesMatchOwners
  <1>1. Init => NamesMatchOwners
    BY DEF Init, LedgerInit, NamesMatchOwners, Taken
  <1> QED
    BY <1>1, NameTypeCorrect, NameNextMatches, PTL DEF NameSpec

-----------------------------------------------------------------------------
(* Owner counts of bonds and names                                         *)

\* An account owns finitely many names, and adding or removing one counts.
LEMMA NameCounts ==
    ASSUME NEW a, NEW n \in Names
    PROVE  /\ Cardinality(OwnedNames(a)) \in Nat
           /\ n \notin OwnedNames(a)
                => Cardinality(OwnedNames(a) \cup {n}) = Cardinality(OwnedNames(a)) + 1
           /\ n \in OwnedNames(a)
                => /\ Cardinality(OwnedNames(a)) > 0
                   /\ Cardinality(OwnedNames(a) \ {n}) = Cardinality(OwnedNames(a)) - 1
  <1>1. IsFiniteSet(OwnedNames(a))
    BY FiniteAssumption, FS_Subset DEF OwnedNames
  <1>2. Cardinality(OwnedNames(a)) \in Nat
    BY <1>1, FS_CardinalityType
  <1>3. n \in OwnedNames(a) => Cardinality(OwnedNames(a)) # 0
    BY <1>1, FS_EmptySet
  <1>4. n \notin OwnedNames(a)
          => Cardinality(OwnedNames(a) \cup {n}) = Cardinality(OwnedNames(a)) + 1
    BY <1>1, FS_AddElement
  <1>5. n \in OwnedNames(a)
          => Cardinality(OwnedNames(a) \ {n}) = Cardinality(OwnedNames(a)) - 1
    BY <1>1, FS_RemoveElement
  <1> QED
    BY <1>2, <1>3, <1>4, <1>5

\* The number of bonds and the number of names of an account are numbers.
LEMMA CountsTyped ==
    ASSUME NEW a
    PROVE  Cardinality(Owned(a)) \in Nat /\ Cardinality(OwnedNames(a)) \in Nat
  <1>1. IsFiniteSet(Owned(a)) /\ IsFiniteSet(OwnedNames(a))
    BY FiniteAssumption, FS_Subset DEF Owned, OwnedNames
  <1> QED
    BY <1>1, FS_CardinalityType

\* A name transaction moves an owner count by what it does to the number of
\* names of that account.
LEMMA NameTxOwnerCount ==
    ASSUME TypeOK, NEW a \in Accounts, NameTx(a),
           NEW o \in Accounts,
           ownerCount[o] = Cardinality(Owned(o)) + Cardinality(OwnedNames(o))
    PROVE  ownerCount'[o] = Cardinality(Owned(o)') + Cardinality(OwnedNames(o)')
  <1>t. /\ LedgerTypeOK /\ names \in [Names -> AccountName \cup {NoName}]
        /\ ownerCount \in [Accounts -> Nat] /\ seq \in Nat
    BY DEF TypeOK, LedgerTypeOK
  <1>n. Cardinality(Owned(o)) \in Nat /\ Cardinality(OwnedNames(o)) \in Nat
    BY CountsTyped
  <1>0. /\ NameUntouched
        /\ \/ NameCharged(a)
           \/ \E n \in Names : Claims(a, n) \/ Renounces(a, n) \/ Frees(a, n)
    BY <1>t, NameTxEffect
  <1>k. Owned(o)' = Owned(o)
    BY <1>0 DEF NameUntouched, Owned, OwnedBy, Registered
  <1>1. CASE NameCharged(a)
    <2>1. OwnedNames(o)' = OwnedNames(o) /\ ownerCount' = ownerCount
      BY <1>1 DEF NameCharged, OwnedNames, NamedBy, Taken
    <2> QED
      BY <1>k, <2>1
  <1>2. ASSUME NEW n \in Names, Claims(a, n)
        PROVE  ownerCount'[o] = Cardinality(Owned(o)') + Cardinality(OwnedNames(o)')
    <2>1. n \notin OwnedNames(o)
      BY <1>2 DEF Claims, canSetName, OwnedNames, NamedBy
    <2>2. OwnedNames(o)' = IF o = a THEN OwnedNames(o) \cup {n} ELSE OwnedNames(o)
      BY <1>t, <1>2, <2>1, ActiveNameTyped DEF Claims, OwnedNames, NamedBy, Taken
    <2>3. ownerCount'[o] = IF o = a THEN ownerCount[o] + 1 ELSE ownerCount[o]
      BY <1>t, <1>2 DEF Claims
    <2>4. Cardinality(OwnedNames(o) \cup {n}) = Cardinality(OwnedNames(o)) + 1
      BY <2>1, NameCounts
    <2> QED
      BY <1>k, <1>n, <2>2, <2>3, <2>4
  <1>3. ASSUME NEW n \in Names, Renounces(a, n)
        PROVE  ownerCount'[o] = Cardinality(Owned(o)') + Cardinality(OwnedNames(o)')
    <2>1. names[n] \in AccountName /\ Taken(n)
      BY <1>t, <1>3, TakenTyped DEF Renounces, NamedBy
    <2>2. OwnedNames(o)' = OwnedNames(o)
      BY <1>t, <1>3, <2>1, ReleasingTyped DEF Renounces, OwnedNames, NamedBy, Taken
    <2> QED
      BY <1>3, <1>k, <2>2 DEF Renounces
  <1>4. ASSUME NEW n \in Names, Frees(a, n)
        PROVE  ownerCount'[o] = Cardinality(Owned(o)') + Cardinality(OwnedNames(o)')
    <2> DEFINE r == names[n].owner
    <2>1. Taken(n) /\ r \in Accounts /\ (n \in OwnedNames(o) <=> o = r)
      BY <1>t, <1>4, TakenTyped DEF Frees, canReleaseName, NameHasStatus, OwnedNames, NamedBy
    <2>2. OwnedNames(o)' = OwnedNames(o) \ {n}
      BY <1>t, <1>4 DEF Frees, OwnedNames, NamedBy, Taken
    <2>3. ownerCount'[o] = IF o = r THEN (IF ownerCount[o] > 0 THEN ownerCount[o] - 1 ELSE 0)
                           ELSE ownerCount[o]
      BY <1>t, <1>4 DEF Frees
    <2>4. o # r => OwnedNames(o) \ {n} = OwnedNames(o)
      BY <2>1
    <2>5. o = r => /\ Cardinality(OwnedNames(o)) > 0
                   /\ Cardinality(OwnedNames(o) \ {n}) = Cardinality(OwnedNames(o)) - 1
      BY <2>1, NameCounts
    <2>6. CASE o = r
      BY <1>k, <1>n, <2>2, <2>3, <2>5, <2>6
    <2>7. CASE o # r
      BY <1>k, <2>2, <2>3, <2>4, <2>7
    <2> QED
      BY <2>6, <2>7
  <1> QED
    BY <1>0, <1>1, <1>2, <1>3, <1>4

\* Every step keeps the owner counts exact.
LEMMA NameNextOwnerCount ==
    TypeOK /\ OwnerCountCoversNames /\ [NameNext]_bondVars => OwnerCountCoversNames'
  <1> SUFFICES ASSUME TypeOK, OwnerCountCoversNames, [NameNext]_bondVars,
                      NEW o \in Accounts
               PROVE  ownerCount'[o] = Cardinality(Owned(o)') + Cardinality(OwnedNames(o)')
    BY DEF OwnerCountCoversNames, Owned, OwnedKeys
  <1>i. /\ LedgerTypeOK
        /\ ownerCount[o] = Cardinality(Owned(o)) + Cardinality(OwnedNames(o))
        /\ Cardinality(Owned(o)) \in Nat /\ Cardinality(OwnedNames(o)) \in Nat
    BY CountsTyped DEF TypeOK, OwnerCountCoversNames, Owned, OwnedKeys
  <1>0. ASSUME ownerCount' = ownerCount, bonds' = bonds, names' = names
        PROVE  ownerCount'[o] = Cardinality(Owned(o)') + Cardinality(OwnedNames(o)')
    <2>1. Owned(o)' = Owned(o) /\ OwnedNames(o)' = OwnedNames(o)
      BY <1>0 DEF Owned, OwnedBy, Registered, OwnedNames, NamedBy, Taken
    <2> QED
      BY <1>0, <1>i, <2>1
  <1>1. ASSUME NEW a \in Accounts, NEW k \in Keys, BondTx(a, k)
        PROVE  ownerCount'[o] = Cardinality(Owned(o)') + Cardinality(OwnedNames(o)')
    <2>1. ownerCount[o] >= Cardinality(Owned(o))
      BY <1>i
    <2>2. /\ ownerCount'[o] = ownerCount[o] + Cardinality(Owned(o)') - Cardinality(Owned(o))
          /\ Cardinality(Owned(o)') \in Nat
      BY <1>1, <1>i, <2>1, BondTxOwnerCount
    <2>3. names' = names
      BY <1>1, <1>i, BondTxEffect DEF Untouched
    <2>4. OwnedNames(o)' = OwnedNames(o)
      BY <2>3 DEF OwnedNames, NamedBy, Taken
    <2> QED
      BY <1>i, <2>2, <2>4
  <1>2. ASSUME NEW v \in Validation, Sign(v)
        PROVE  ownerCount'[o] = Cardinality(Owned(o)') + Cardinality(OwnedNames(o)')
    BY <1>0, <1>2 DEF Sign, ledgerVars
  <1>3. CASE CloseLedger
    BY <1>0, <1>3 DEF CloseLedger
  <1>4. ASSUME NEW a \in Accounts, NameTx(a)
        PROVE  ownerCount'[o] = Cardinality(Owned(o)') + Cardinality(OwnedNames(o)')
    BY <1>4, <1>i, NameTxOwnerCount
  <1>5. CASE UNCHANGED bondVars
    BY <1>0, <1>5 DEF bondVars, ledgerVars
  <1> QED
    BY <1>1, <1>2, <1>3, <1>4, <1>5 DEF NameNext, Next

\* sfOwnerCount is the number of bonds and names of an account, for any number
\* of either and whoever submits the releases; the guards against a count below
\* zero in ReleaseBond and NameRelease are never needed.
THEOREM OwnerCountAlwaysCovers == NameSpec => []OwnerCountCoversNames
  <1>1. Init => OwnerCountCoversNames
    <2> SUFFICES ASSUME Init, NEW a \in Accounts
                 PROVE  ownerCount[a] = Cardinality(OwnedKeys(a)) + Cardinality(OwnedNames(a))
      BY DEF OwnerCountCoversNames
    <2>1. OwnedKeys(a) = {} /\ OwnedNames(a) = {}
      BY DEF Init, LedgerInit, OwnedKeys, OwnedBy, Registered, OwnedNames, NamedBy, Taken
    <2>2. Cardinality({}) = 0
      BY FS_EmptySet
    <2> QED
      BY <2>1, <2>2 DEF Init, LedgerInit
  <1> QED
    BY <1>1, NameTypeCorrect, NameNextOwnerCount, PTL DEF NameSpec

-----------------------------------------------------------------------------
(* The supply                                                              *)

\* Every step keeps the header's supply true.
LEMMA NameNextSupply ==
    TypeOK /\ SupplyIsHeld /\ [NameNext]_bondVars => SupplyIsHeld'
  <1> SUFFICES ASSUME TypeOK, SupplyIsHeld, [NameNext]_bondVars PROVE SupplyIsHeld'
    OBVIOUS
  <1>t. LedgerTypeOK
    BY DEF TypeOK
  <1>1. CASE [Next]_bondVars
    BY <1>1, NextSupply
  <1>2. ASSUME NEW a \in Accounts, NEW n \in Names, NameSet(a, n)
        PROVE  SupplyIsHeld'
    <2>1. \A v : v = nameSetApply(PayFee(a), a, n) /\ balance[a] >= Fee /\ canSetName(a, n)
                   => ViewOK(v) /\ v.burned = 0
      BY <1>t, NameSetView
    <2> QED
      BY <1>t, <1>2, <2>1, TransactSupply DEF NameSet, Succeeds
  <1>3. ASSUME NEW a \in Accounts, NEW n \in Names \cup {NoAccount}, NameUnbond(a, n)
        PROVE  SupplyIsHeld'
    <2>1. \A v : v = nameUnbondApply(PayFee(a), a, n) /\ balance[a] >= Fee
                   /\ canUnbondName(a, n) => ViewOK(v) /\ v.burned = 0
      BY <1>t, NameUnbondView
    <2> QED
      BY <1>t, <1>3, <2>1, TransactSupply DEF NameUnbond, Succeeds
  <1>4. ASSUME NEW a \in Accounts, NEW n \in Names, NameRelease(a, n)
        PROVE  SupplyIsHeld'
    <2>1. \A v : v = nameReleaseApply(PayFee(a), a, n) /\ balance[a] >= Fee
                   /\ canReleaseName(n) => ViewOK(v) /\ v.burned = 0
      BY <1>t, NameReleaseView
    <2> QED
      BY <1>t, <1>4, <2>1, TransactSupply DEF NameRelease, Succeeds
  <1> QED
    BY <1>1, <1>2, <1>3, <1>4 DEF NameNext, NameTx

\* The drops that names hold stay on the books too: the supply in the header is
\* what accounts, treasury, bonds and names hold together.
THEOREM SupplyHeldWithNames == NameSpec => []SupplyIsHeld
  BY InitSupply, NameTypeCorrect, NameNextSupply, PTL DEF Spec, NameSpec

-----------------------------------------------------------------------------
(* Bonds and names are one escrow                                          *)

\* A transaction that writes the slot of one bond writes one slot.
LEMMA LiftSlot ==
    ASSUME names' = names, NEW k \in Keys, NEW z,
           EscrowSlots' = [EscrowSlots EXCEPT ![k] = z]
    PROVE  AllSlots' = [AllSlots EXCEPT ![k] = z]
  <1>1. \A j \in Keys : AllSlots[j] = EscrowSlots[j] /\ AllSlots'[j] = EscrowSlots'[j]
    BY DEF AllSlots, EscrowSlots
  <1>2. \A s \in Keys \cup Names : s \notin Keys => AllSlots'[s] = AllSlots[s]
    BY DEF AllSlots
  <1>3. \A j \in Keys : EscrowSlots'[j] = IF j = k THEN z ELSE EscrowSlots[j]
    BY DEF EscrowSlots
  <1>4. /\ AllSlots = [s \in Keys \cup Names |-> AllSlots[s]]
        /\ AllSlots' = [s \in Keys \cup Names |-> AllSlots'[s]]
    BY DEF AllSlots
  <1> HIDE DEF AllSlots, EscrowSlots
  <1>5. \A s \in Keys \cup Names : AllSlots'[s] = IF s = k THEN z ELSE AllSlots[s]
    BY <1>1, <1>2, <1>3
  <1> QED
    BY <1>4, <1>5

\* What leaves the slots of the bonds and the names alone leaves all slots alone.
LEMMA SameSlots ==
    ASSUME names' = names, EscrowSlots' = EscrowSlots
    PROVE  AllSlots' = AllSlots
  <1>1. \A j \in Keys : EscrowSlot(bonds'[j]) = EscrowSlot(bonds[j])
    <2> TAKE j \in Keys
    <2>1. EscrowSlots[j] = EscrowSlot(bonds[j]) /\ EscrowSlots'[j] = EscrowSlot(bonds'[j])
      BY DEF EscrowSlots
    <2> QED
      BY <2>1
  <1>2. AllSlots' = [s \in Keys \cup Names |-> IF s \in Keys THEN EscrowSlot(bonds'[s])
                                               ELSE NameSlot(names'[s])]
    BY DEF AllSlots
  <1> QED
    BY <1>1, <1>2 DEF AllSlots

\* A step of the bond escrow that leaves the names alone is a step of the escrow
\* of bonds and names.
LEMMA LiftEscrow ==
    ASSUME names' = names, Escrow!Next
    PROVE  AllEscrow!Next
  <1>k. \A k \in Keys : AllSlots[k] = EscrowSlots[k] /\ AllLocks[k] = LockLedgers
    BY DEF AllSlots, EscrowSlots, AllLocks
  <1>g. /\ Escrow!NobodyGains => AllEscrow!NobodyGains
        /\ \A o, x : Escrow!OnlyGains(o, x) => AllEscrow!OnlyGains(o, x)
    BY DEF Escrow!NobodyGains, AllEscrow!NobodyGains, Escrow!OnlyGains,
           AllEscrow!OnlyGains, Escrow!LessFee, AllEscrow!LessFee
  <1>1. ASSUME NEW k \in Keys, NEW o \in Accounts, NEW x \in BondAmounts,
               Escrow!Put(k, o, x)
        PROVE  AllEscrow!Next
    <2>1. EscrowSlots' = [EscrowSlots EXCEPT ![k] = AllEscrow!Held(o, x)]
      BY <1>1 DEF Escrow!Put, Escrow!Held, AllEscrow!Held
    <2>2. AllSlots' = [AllSlots EXCEPT ![k] = AllEscrow!Held(o, x)]
      BY <2>1, LiftSlot
    <2>3. AllEscrow!Put(k, o, x)
      BY <1>1, <1>g, <1>k, <2>2 DEF Escrow!Put, AllEscrow!Put, Escrow!Empty, AllEscrow!Empty
    <2> QED
      BY <2>3 DEF AllEscrow!Next
  <1>2. ASSUME NEW k \in Keys, Escrow!BeginExit(k)
        PROVE  AllEscrow!Next
    <2> DEFINE z == AllEscrow!Leaving(EscrowSlots[k].owner, EscrowSlots[k].amount, seq)
    <2>1. EscrowSlots' = [EscrowSlots EXCEPT ![k] = z]
      BY <1>2 DEF Escrow!BeginExit, Escrow!Leaving, AllEscrow!Leaving
    <2>2. AllSlots' = [AllSlots EXCEPT ![k] = z]
      BY <2>1, LiftSlot
    <2>3. AllSlots' = [AllSlots EXCEPT ![k] = AllEscrow!Leaving(@.owner, @.amount, seq)]
      BY <1>k, <2>2
    <2>4. AllEscrow!BeginExit(k)
      BY <1>2, <1>g, <1>k, <2>3 DEF Escrow!BeginExit, AllEscrow!BeginExit
    <2> QED
      BY <2>4 DEF AllEscrow!Next
  <1>3. ASSUME NEW k \in Keys, Escrow!Withdraw(k)
        PROVE  AllEscrow!Next
    <2>1. EscrowSlots' = [EscrowSlots EXCEPT ![k] = AllEscrow!Empty]
      BY <1>3 DEF Escrow!Withdraw, Escrow!Empty, AllEscrow!Empty
    <2>2. AllSlots' = [AllSlots EXCEPT ![k] = AllEscrow!Empty]
      BY <2>1, LiftSlot
    <2>3. AllEscrow!Withdraw(k)
      BY <1>3, <1>g, <1>k, <2>2 DEF Escrow!Withdraw, AllEscrow!Withdraw
    <2> QED
      BY <2>3 DEF AllEscrow!Next
  <1>4. ASSUME NEW k \in Keys, Escrow!Forfeit(k)
        PROVE  AllEscrow!Next
    <2>1. EscrowSlots' = [EscrowSlots EXCEPT ![k] = AllEscrow!Empty]
      BY <1>4 DEF Escrow!Forfeit, Escrow!Empty, AllEscrow!Empty
    <2>2. AllSlots' = [AllSlots EXCEPT ![k] = AllEscrow!Empty]
      BY <2>1, LiftSlot
    <2>3. AllEscrow!Forfeit(k)
      BY <1>4, <1>g, <1>k, <2>2
         DEF Escrow!Forfeit, AllEscrow!Forfeit, Escrow!Empty, AllEscrow!Empty
    <2> QED
      BY <2>3 DEF AllEscrow!Next
  <1>5. CASE Escrow!Charge \/ Escrow!Convict \/ Escrow!Tick
    <2>1. AllSlots' = AllSlots
      BY <1>5, SameSlots DEF Escrow!Charge, Escrow!Convict, Escrow!Tick
    <2>2. AllEscrow!Charge \/ AllEscrow!Convict \/ AllEscrow!Tick
      BY <1>5, <1>g, <2>1
         DEF Escrow!Charge, Escrow!Convict, Escrow!Tick,
             AllEscrow!Charge, AllEscrow!Convict, AllEscrow!Tick
    <2> QED
      BY <2>2 DEF AllEscrow!Next
  <1> QED
    BY <1>1, <1>2, <1>3, <1>4, <1>5 DEF Escrow!Next

\* A transaction that writes one name writes one slot.
LEMMA OneNameSlot ==
    ASSUME names \in [Names -> AccountName \cup {NoName}], bonds' = bonds,
           NEW n \in Names, NEW r, names' = [names EXCEPT ![n] = r]
    PROVE  AllSlots' = [AllSlots EXCEPT ![n] = NameSlot(r)]
  BY NameAssumption DEF AllSlots

\* What the slot of a name looks like in each state of the name.
LEMMA NameSlotOf ==
    ASSUME NEW r \in AccountName
    PROVE  /\ NameSlot(NoName) = AllEscrow!Empty
           /\ r.status = "ACTIVE" => NameSlot(r) = AllEscrow!Held(r.owner, r.amount)
           /\ r.status = "RELEASING"
                => NameSlot(r) = AllEscrow!Leaving(r.owner, r.amount, r.start)
  BY AbsentAssumption DEF NameSlot, AllEscrow!Empty, AllEscrow!Held, AllEscrow!Leaving

\* Every name transaction is a step of the escrow.
LEMMA NameTxEscrow ==
    ASSUME TypeOK, NEW a \in Accounts, NameTx(a)
    PROVE  AllEscrow!Next
  <1>t. /\ LedgerTypeOK /\ names \in [Names -> AccountName \cup {NoName}]
        /\ balance \in [Accounts -> Nat] /\ seq \in Nat
    BY DEF TypeOK, LedgerTypeOK
  <1>0. /\ NameUntouched /\ UNCHANGED signed
        /\ \/ NameCharged(a)
           \/ \E n \in Names : Claims(a, n) \/ Renounces(a, n) \/ Frees(a, n)
    BY <1>t, NameTxEffect
  <1>u. UNCHANGED <<Equivocators, seq, bonds>>
    BY <1>0 DEF NameUntouched, Equivocators, Equivocated
  <1>n. \A n \in Names : AllSlots[n] = NameSlot(names[n]) /\ AllLocks[n] = NameUnbondLedgers
    BY NameAssumption DEF AllSlots, AllLocks
  <1>f. ASSUME NEW fee \in 0..Fee, balance' = [balance EXCEPT ![a] = @ - fee]
        PROVE  AllEscrow!NobodyGains
    BY <1>t, <1>f, FeeAssumption DEF AllEscrow!NobodyGains, AllEscrow!LessFee
  <1>e. Fee \in 0..Fee
    BY FeeAssumption
  <1>1. CASE NameCharged(a)
    <2>1. AllSlots' = AllSlots
      BY <1>1, <1>u DEF NameCharged, AllSlots
    <2>2. AllEscrow!NobodyGains
      BY <1>1, <1>f DEF NameCharged
    <2> QED
      BY <1>u, <2>1, <2>2 DEF AllEscrow!Next, AllEscrow!Charge
  <1>2. ASSUME NEW n \in Names, Claims(a, n)
        PROVE  AllEscrow!Next
    <2>1. AllSlots[n] = AllEscrow!Empty
      BY <1>2, <1>n, ActiveNameTyped, NameSlotOf DEF Claims, canSetName, Taken
    <2>2. NameSlot(ActiveName(a)) = AllEscrow!Held(a, NameBond)
      BY ActiveNameTyped, NameSlotOf
    <2>3. AllSlots' = [AllSlots EXCEPT ![n] = AllEscrow!Held(a, NameBond)]
      BY <1>2, <1>t, <1>u, <2>2, OneNameSlot DEF Claims
    <2>4. AllEscrow!OnlyGains(a, -NameBond)
      <3>1. balance' = [[balance EXCEPT ![a] = @ - Fee] EXCEPT ![a] = @ - NameBond]
        BY <1>2 DEF Claims
      <3> QED
        BY <1>t, <3>1, FeeAssumption, NameAssumption
           DEF AllEscrow!OnlyGains, AllEscrow!LessFee
    <2>5. AllEscrow!Put(n, a, NameBond)
      BY <1>u, <2>1, <2>3, <2>4 DEF AllEscrow!Put
    <2> QED
      BY <2>5 DEF AllEscrow!Next
  <1>3. ASSUME NEW n \in Names, Renounces(a, n)
        PROVE  AllEscrow!Next
    <2>1. names[n] \in AccountName /\ names[n].status = "ACTIVE"
      BY <1>3, <1>t, TakenTyped DEF Renounces, NamedBy, NameHasStatus
    <2>2. AllSlots[n] = AllEscrow!Held(names[n].owner, names[n].amount)
      BY <1>n, <2>1, NameSlotOf
    <2>3. /\ AllSlots[n].phase = "held" /\ AllSlots[n].owner = names[n].owner
          /\ AllSlots[n].amount = names[n].amount
      BY <2>2 DEF AllEscrow!Held
    <2>4. NameSlot(Releasing(names[n]))
            = AllEscrow!Leaving(names[n].owner, names[n].amount, seq)
      BY <1>t, <2>1, ReleasingTyped, NameSlotOf
    <2>5. AllSlots' = [AllSlots EXCEPT ![n] = AllEscrow!Leaving(@.owner, @.amount, seq)]
      <3>1. AllSlots' = [AllSlots EXCEPT ![n] =
              AllEscrow!Leaving(names[n].owner, names[n].amount, seq)]
        BY <1>3, <1>t, <1>u, <2>4, OneNameSlot DEF Renounces
      <3> QED
        BY <2>3, <3>1
    <2>6. AllEscrow!NobodyGains
      BY <1>3, <1>e, <1>f DEF Renounces
    <2>7. AllEscrow!BeginExit(n)
      BY <1>u, <2>3, <2>5, <2>6 DEF AllEscrow!BeginExit
    <2> QED
      BY <2>7 DEF AllEscrow!Next
  <1>4. ASSUME NEW n \in Names, Frees(a, n)
        PROVE  AllEscrow!Next
    <2> DEFINE o == names[n].owner
               x == names[n].amount
    <2>1. /\ names[n] \in AccountName /\ names[n].status = "RELEASING"
          /\ seq >= names[n].start + NameUnbondLedgers
          /\ o \in Accounts /\ x \in Nat
      BY <1>4, <1>t, TakenTyped DEF Frees, canReleaseName, NameHasStatus
    <2>2. AllSlots[n] = AllEscrow!Leaving(o, x, names[n].start)
      BY <1>n, <2>1, NameSlotOf
    <2>3. /\ AllSlots[n].phase = "leaving" /\ AllSlots[n].owner = o
          /\ AllSlots[n].amount = x /\ AllSlots[n].since = names[n].start
      BY <2>2 DEF AllEscrow!Leaving
    <2>4. AllSlots' = [AllSlots EXCEPT ![n] = AllEscrow!Empty]
      BY <1>4, <1>t, <1>u, <2>1, OneNameSlot, NameSlotOf DEF Frees
    <2>5. AllEscrow!OnlyGains(o, x)
      <3> HIDE DEF o, x
      <3> DEFINE w == [balance EXCEPT ![a] = @ - Fee]
      <3>1. balance' = [w EXCEPT ![o] = @ + x]
        BY <1>4 DEF Frees, o, x
      <3>2. /\ w \in [Accounts -> Int]
            /\ \A p \in Accounts : w[p] = balance[p] - (IF p = a THEN Fee ELSE 0)
        BY <1>t, FeeAssumption
      <3> HIDE DEF w
      <3>3. ASSUME NEW p \in Accounts
            PROVE  balance'[p] = balance[p] + (IF p = o THEN x ELSE 0)
                                   - (IF p = a THEN Fee ELSE 0)
        BY <1>t, <2>1, <3>1, <3>2, FeeAssumption
      <3>4. \A p \in Accounts : (IF p = a THEN Fee ELSE 0) \in 0..Fee
        BY FeeAssumption
      <3> QED
        BY <3>3, <3>4 DEF AllEscrow!OnlyGains, AllEscrow!LessFee
    <2>6. AllEscrow!Withdraw(n)
      BY <1>n, <1>u, <2>1, <2>3, <2>4, <2>5 DEF AllEscrow!Withdraw
    <2> QED
      BY <2>6 DEF AllEscrow!Next
  <1> QED
    BY <1>0, <1>1, <1>2, <1>3, <1>4

\* Every step of the ledger is a step of the escrow or leaves it alone.
LEMMA NameNextEscrow ==
    TypeOK /\ BondsWellFormed /\ [NameNext]_bondVars
      => [AllEscrow!Next]_(AllEscrow!vars)
  <1> SUFFICES ASSUME TypeOK, BondsWellFormed, [NameNext]_bondVars
               PROVE  AllEscrow!Next \/ UNCHANGED AllEscrow!vars
    OBVIOUS
  <1>1. CASE [Next]_bondVars
    <2>1. [Escrow!Next]_(Escrow!vars)
      BY <1>1, EscrowNext
    <2>2. names' = names
      <3>1. ASSUME NEW a \in Accounts, NEW k \in Keys, BondTx(a, k)
            PROVE  names' = names
        BY <3>1, BondTxEffect DEF TypeOK, Untouched
      <3> QED
        BY <1>1, <3>1 DEF Next, Sign, CloseLedger, bondVars, ledgerVars
    <2>3. CASE Escrow!Next
      BY <2>2, <2>3, LiftEscrow
    <2>4. CASE UNCHANGED Escrow!vars
      BY <2>2, <2>4, SameSlots DEF Escrow!vars, AllEscrow!vars
    <2> QED
      BY <2>1, <2>3, <2>4
  <1>2. ASSUME NEW a \in Accounts, NameTx(a)
        PROVE  AllEscrow!Next
    BY <1>2, NameTxEscrow
  <1> QED
    BY <1>1, <1>2 DEF NameNext

\* The genesis ledger is an escrow of empty slots.
LEMMA NameEscrowInit == Init => AllEscrow!Init
  <1> SUFFICES ASSUME Init PROVE AllEscrow!Init
    OBVIOUS
  <1>1. AllSlots = [s \in Keys \cup Names |-> AllEscrow!Empty]
    BY DEF Init, LedgerInit, AllSlots, EscrowSlot, NameSlot, AllEscrow!Empty
  <1>2. balance \in [Accounts -> Nat] /\ seq \in Nat
    BY BondAssumption DEF Init, LedgerInit
  <1>3. Equivocators = {}
    BY DEF Init, Equivocators, Equivocated
  <1> QED
    BY <1>1, <1>2, <1>3 DEF AllEscrow!Init

\* Bonds and names side by side implement one escrow, whatever their number and
\* locks: drops come back in full, to the account that put them in, after the
\* lock of their own kind, and only the bond of a double signer is destroyed.
THEOREM BondsAndNamesImplementEscrow == NameSpec => BondsAndNamesAreEscrowed
  BY NameEscrowInit, NameNextEscrow, NameTypeCorrect, NamesKeepBonds, PTL
     DEF NameSpec, BondsAndNamesAreEscrowed, AllEscrow!Spec

=============================================================================
