----------------------- MODULE ValidatorBonds_proofs -----------------------
(***************************************************************************)
(* Theorems about validator bonds, for every number of accounts and keys,  *)
(* every fee, lock and minimum bond.                                       *)
(*                                                                         *)
(* First what the transaction engine does to the shared ledger state, for  *)
(* every transactor: facts about the fee split, about a committed view and *)
(* about a transaction that only claims its fee.                           *)
(*                                                                         *)
(* The lemmas named ...Fields compute the view that a doApply leaves, one  *)
(* field at a time; the predicates that follow them say what each          *)
(* transaction does when it succeeds, and BondTxEffect that a transaction  *)
(* does that or only claims its fee. The invariants rest on that lemma.    *)
(***************************************************************************)
EXTENDS ValidatorBonds, Sums_proofs

-----------------------------------------------------------------------------
(* The engine                                                              *)

\* Products of naturals are monotone in a factor.
LEMMA TimesMonotone ==
    ASSUME NEW x \in Nat, NEW y \in Nat, NEW z \in Nat, y <= z
    PROVE  x * y \in Nat /\ x * y <= x * z
  OBVIOUS

\* A quotient is at most r when the dividend is at most r times the divisor.
LEMMA QuotientBound ==
    ASSUME NEW x \in Nat, NEW r \in Nat, NEW d \in Nat \ {0}, x <= r * d
    PROVE  x \div d \in Nat /\ x \div d <= r
  OBVIOUS

\* muldiv64 with a multiplier of at most the divisor yields a part of a.
LEMMA MuldivIsPart ==
    ASSUME NEW a \in Nat, NEW d \in Nat \ {0}, NEW b \in 0..d
    PROVE  muldiv64(a, b, d) \in Nat /\ muldiv64(a, b, d) <= a
  <1> DEFINE q == a \div d
             r == a % d
  <1>1. q \in Nat /\ r \in Nat /\ a = q * d + r
    OBVIOUS
  <1>2. q * b \in Nat /\ q * b <= q * d
    BY <1>1, TimesMonotone
  <1>3. r * b \in Nat /\ r * b <= r * d
    BY <1>1, TimesMonotone
  <1>4. (r * b) \div d \in Nat /\ (r * b) \div d <= r
    BY <1>1, <1>3, QuotientBound
  <1> QED
    BY <1>1, <1>2, <1>4 DEF muldiv64

\* destroyXRP burns a part of the fee, whatever burn fraction the epoch names.
LEMMA BurnIsPart ==
    ASSUME NEW e \in Epoch \cup {NoEpoch}, NEW fee \in Nat
    PROVE  BurnPart(e, fee) \in Nat /\ BurnPart(e, fee) <= fee
  <1>1. BurnBps(e) \in 0..BpsDenom
    <2>1. CASE e # NoEpoch
      <3>1. e.burnBps \in Nat
        BY <2>1 DEF Epoch
      <3> QED
        BY <3>1, BpsAssumption DEF BurnBps
    <2>2. CASE e = NoEpoch
      BY <2>2, BpsAssumption DEF BurnBps
    <2> QED
      BY <2>1, <2>2
  <1> QED
    BY <1>1, BpsAssumption, MuldivIsPart DEF BurnPart

-----------------------------------------------------------------------------

\* The fields of a view are well typed.
ViewOK(v) ==
    /\ v.balance \in [Accounts -> Nat]
    /\ v.ownerCount \in [Accounts -> Nat]
    /\ v.treasury \in Nat
    /\ v.bonds \in [Keys -> Bond \cup {NoBond}]
    /\ v.names \in [Names -> AccountName \cup {NoName}]
    /\ v.nameOf \in [Accounts -> Names \cup {NoAccount}]
    /\ v.epoch \in Epoch \cup {NoEpoch}
    /\ v.burned \in Nat

\* Committing a well-typed view yields a well-typed ledger, and the treasury
\* gets all that the fee split leaves of the fee.
LEMMA CommitTyped ==
    ASSUME LedgerTypeOK, NEW v, NEW fee \in Nat, ViewOK(v), Commit(v, fee)
    PROVE  LedgerTypeOK' /\ treasury' >= v.treasury
  <1>1. BurnPart(v.epoch, fee) \in Nat /\ BurnPart(v.epoch, fee) <= fee
    BY BurnIsPart DEF ViewOK
  <1>2. treasury' \in Nat /\ treasury' >= v.treasury
    BY <1>1 DEF ViewOK, Commit
  <1>3. drops' \in Int
    BY <1>1 DEF ViewOK, Commit, LedgerTypeOK
  <1> QED
    BY <1>2, <1>3 DEF ViewOK, Commit, LedgerTypeOK

\* The view after payFee, field by field.
LEMMA PayFeeFields ==
    ASSUME NEW a \in Accounts
    PROVE  PayFee(a) =
             [balance |-> [balance EXCEPT ![a] = @ - Fee],
              ownerCount |-> ownerCount, treasury |-> treasury,
              bonds |-> bonds, names |-> names, nameOf |-> nameOf,
              epoch |-> epoch, burned |-> 0]
  BY DEF PayFee, View

\* A transaction that only claims its fee takes at most Fee from its account
\* and leaves every object of the ledger as it is.
LEMMA ClaimFeeEffect ==
    ASSUME LedgerTypeOK, NEW a \in Accounts, ClaimFee(a)
    PROVE  /\ LedgerTypeOK'
           /\ UNCHANGED <<seq, ownerCount, bonds, names, nameOf, epoch>>
           /\ \E fee \in 0..Fee : balance' = [balance EXCEPT ![a] = @ - fee]
           /\ treasury' >= treasury
  <1> DEFINE fee == Lesser(Fee, balance[a])
             v == [View EXCEPT !.balance[a] = @ - fee]
  <1>1. fee \in 0..Fee /\ fee <= balance[a]
    BY FeeAssumption DEF Lesser, LedgerTypeOK
  <1>2. v = [balance |-> [balance EXCEPT ![a] = @ - fee],
             ownerCount |-> ownerCount, treasury |-> treasury,
             bonds |-> bonds, names |-> names, nameOf |-> nameOf,
             epoch |-> epoch, burned |-> 0]
    BY DEF View
  <1>3. Commit(v, fee)
    BY DEF ClaimFee
  <1> HIDE DEF fee, v
  <1>4. /\ v.balance = [balance EXCEPT ![a] = @ - fee]
        /\ v.ownerCount = ownerCount /\ v.treasury = treasury
        /\ v.bonds = bonds /\ v.names = names /\ v.nameOf = nameOf
        /\ v.epoch = epoch /\ v.burned = 0
    BY <1>2
  <1>5. [balance EXCEPT ![a] = @ - fee] \in [Accounts -> Nat]
    BY <1>1, FeeAssumption DEF LedgerTypeOK
  <1>6. ViewOK(v)
    BY <1>4, <1>5 DEF ViewOK, LedgerTypeOK
  <1>7. LedgerTypeOK' /\ treasury' >= v.treasury
    BY <1>1, <1>3, <1>6, FeeAssumption, CommitTyped
  <1> QED
    BY <1>1, <1>3, <1>4, <1>7 DEF Commit

-----------------------------------------------------------------------------
(* The supply                                                              *)

\* Drops in a bond and in a name, none when there is no such object.
BondDrops(b) == IF b = NoBond THEN 0 ELSE b.amount
NamedDrops(r) == IF r = NoName THEN 0 ELSE r.amount

\* The drops of a well-typed view are counted by sums of naturals.
LEMMA HeldTyped ==
    ASSUME NEW v, ViewOK(v)
    PROVE  /\ SumFunction(v.balance) \in Nat /\ BondedDrops(v.bonds) \in Nat
           /\ NameDrops(v.names) \in Nat /\ HeldDrops(v) \in Nat
  <1>1. SumFunction(v.balance) \in Nat
    <2>1. v.balance \in [Accounts -> Nat] /\ v.balance \in [Accounts -> Int]
      BY DEF ViewOK
    <2> QED
      BY <2>1, FiniteAssumption, SumTyped
  <1>2. BondedDrops(v.bonds) \in Nat
    <2> DEFINE f == [k \in Keys |-> IF v.bonds[k] = NoBond THEN 0 ELSE v.bonds[k].amount]
    <2>1. f \in [Keys -> Nat] /\ f \in [Keys -> Int]
      BY DEF ViewOK, Bond
    <2> HIDE DEF f
    <2>2. SumFunction(f) \in Nat
      BY <2>1, FiniteAssumption, SumTyped
    <2> QED
      BY <2>2 DEF BondedDrops, f
  <1>3. NameDrops(v.names) \in Nat
    <2> DEFINE f == [n \in Names |-> IF v.names[n] = NoName THEN 0 ELSE v.names[n].amount]
    <2>1. f \in [Names -> Nat] /\ f \in [Names -> Int]
      BY DEF ViewOK, AccountName
    <2> HIDE DEF f
    <2>2. SumFunction(f) \in Nat
      BY <2>1, FiniteAssumption, SumTyped
    <2> QED
      BY <2>2 DEF NameDrops, f
  <1>4. v.treasury \in Nat
    BY DEF ViewOK
  <1> QED
    BY <1>1, <1>2, <1>3, <1>4 DEF HeldDrops

\* Changing one bond changes the bonded drops by the difference.
LEMMA BondedUpdate ==
    ASSUME NEW bs \in [Keys -> Bond \cup {NoBond}], NEW k \in Keys,
           NEW b \in Bond \cup {NoBond}
    PROVE  BondedDrops([bs EXCEPT ![k] = b])
             = BondedDrops(bs) - BondDrops(bs[k]) + BondDrops(b)
  <1> DEFINE cs == [bs EXCEPT ![k] = b]
             f == [j \in Keys |-> IF bs[j] = NoBond THEN 0 ELSE bs[j].amount]
             g == [j \in Keys |-> IF cs[j] = NoBond THEN 0 ELSE cs[j].amount]
  <1>1. cs \in [Keys -> Bond \cup {NoBond}]
    OBVIOUS
  <1>2. f \in [Keys -> Int] /\ g \in [Keys -> Int]
    BY <1>1 DEF Bond
  <1>3. \A j \in Keys : j # k => f[j] = g[j]
    OBVIOUS
  <1>4. f[k] = BondDrops(bs[k]) /\ g[k] = BondDrops(b)
    BY DEF BondDrops
  <1> HIDE DEF f, g
  <1>5. SumFunction(g) = SumFunction(f) - f[k] + g[k]
    BY <1>2, <1>3, FiniteAssumption, SumUpdate
  <1> QED
    BY <1>4, <1>5 DEF BondedDrops, f, g

\* Changing one name changes the drops in names by the difference.
LEMMA NamedUpdate ==
    ASSUME NEW ns \in [Names -> AccountName \cup {NoName}], NEW n \in Names,
           NEW r \in AccountName \cup {NoName}
    PROVE  NameDrops([ns EXCEPT ![n] = r])
             = NameDrops(ns) - NamedDrops(ns[n]) + NamedDrops(r)
  <1> DEFINE cs == [ns EXCEPT ![n] = r]
             f == [m \in Names |-> IF ns[m] = NoName THEN 0 ELSE ns[m].amount]
             g == [m \in Names |-> IF cs[m] = NoName THEN 0 ELSE cs[m].amount]
  <1>1. cs \in [Names -> AccountName \cup {NoName}]
    OBVIOUS
  <1>2. f \in [Names -> Int] /\ g \in [Names -> Int]
    BY <1>1 DEF AccountName
  <1>3. \A m \in Names : m # n => f[m] = g[m]
    OBVIOUS
  <1>4. f[n] = NamedDrops(ns[n]) /\ g[n] = NamedDrops(r)
    BY DEF NamedDrops
  <1> HIDE DEF f, g
  <1>5. SumFunction(g) = SumFunction(f) - f[n] + g[n]
    BY <1>2, <1>3, FiniteAssumption, SumUpdate
  <1> QED
    BY <1>4, <1>5 DEF NameDrops, f, g

\* The view of a well-typed ledger is well typed.
LEMMA ViewTyped ==
    ASSUME LedgerTypeOK
    PROVE  /\ ViewOK(View)
           /\ HeldDrops(View) = SumFunction(balance) + treasury
                                  + BondedDrops(bonds) + NameDrops(names)
  BY DEF ViewOK, View, LedgerTypeOK, HeldDrops

\* After a commit the ledger holds what the view held and the part of the fee
\* that was not burned.
LEMMA HeldAfterCommit ==
    ASSUME LedgerTypeOK, NEW v, NEW fee \in Nat, ViewOK(v), Commit(v, fee)
    PROVE  HeldDrops(View)' = HeldDrops(v) + (fee - BurnPart(v.epoch, fee))
  <1>1. BurnPart(v.epoch, fee) \in Nat
    BY BurnIsPart DEF ViewOK
  <1>2. /\ SumFunction(v.balance) \in Nat /\ BondedDrops(v.bonds) \in Nat
        /\ NameDrops(v.names) \in Nat /\ v.treasury \in Nat
    BY HeldTyped DEF ViewOK
  <1>3. HeldDrops(View)' = SumFunction(balance') + treasury'
                             + BondedDrops(bonds') + NameDrops(names')
    BY DEF HeldDrops, View
  <1>4. HeldDrops(View)' = SumFunction(v.balance)
              + (v.treasury + (fee - BurnPart(v.epoch, fee)))
              + BondedDrops(v.bonds) + NameDrops(v.names)
    BY <1>3 DEF Commit
  <1> QED
    BY <1>1, <1>2, <1>4 DEF HeldDrops

\* A commit keeps the header's supply true when the view lost exactly the fee
\* and what it burned.
LEMMA CommitSupply ==
    ASSUME LedgerTypeOK, SupplyIsHeld, NEW v, NEW fee \in Nat, ViewOK(v),
           Commit(v, fee), HeldDrops(v) = HeldDrops(View) - fee - v.burned
    PROVE  SupplyIsHeld'
  <1>1. HeldDrops(View)' = HeldDrops(v) + (fee - BurnPart(v.epoch, fee))
    BY HeldAfterCommit
  <1>2. BurnPart(v.epoch, fee) \in Nat /\ v.burned \in Nat
    BY BurnIsPart DEF ViewOK
  <1>3. HeldDrops(v) \in Nat /\ HeldDrops(View) \in Nat
    BY HeldTyped, ViewTyped
  <1>4. drops' = drops - v.burned - BurnPart(v.epoch, fee) /\ drops = HeldDrops(View)
    BY DEF Commit, SupplyIsHeld
  <1>5. drops' = HeldDrops(View)'
    BY <1>1, <1>2, <1>3, <1>4
  <1> QED
    BY <1>5 DEF SupplyIsHeld

\* A fee claim keeps the header's supply true.
LEMMA ClaimFeeSupply ==
    ASSUME LedgerTypeOK, SupplyIsHeld, NEW a \in Accounts, ClaimFee(a)
    PROVE  SupplyIsHeld'
  <1> DEFINE fee == Lesser(Fee, balance[a])
             v == [View EXCEPT !.balance[a] = @ - fee]
  <1>1. fee \in Nat /\ fee <= balance[a]
    BY FeeAssumption DEF Lesser, LedgerTypeOK
  <1>2. Commit(v, fee) /\ DropsConserved(v, fee, FALSE)
    BY DEF ClaimFee
  <1>3. /\ v.balance = [balance EXCEPT ![a] = @ - fee]
        /\ v.ownerCount = ownerCount /\ v.treasury = treasury
        /\ v.bonds = bonds /\ v.names = names /\ v.nameOf = nameOf
        /\ v.epoch = epoch /\ v.burned = 0
    BY DEF View
  <1> HIDE DEF fee, v
  <1>4. [balance EXCEPT ![a] = @ - fee] \in [Accounts -> Nat]
    BY <1>1, FeeAssumption DEF LedgerTypeOK
  <1>5. ViewOK(v)
    BY <1>3, <1>4 DEF ViewOK, LedgerTypeOK
  <1>6. HeldDrops(v) \in Nat /\ HeldDrops(View) \in Nat
    BY <1>5, HeldTyped, ViewTyped
  <1>7. HeldDrops(v) = HeldDrops(View) - fee - v.burned
    BY <1>1, <1>2, <1>3, <1>6 DEF DropsConserved
  <1> QED
    BY <1>1, <1>2, <1>5, <1>7, CommitSupply

\* A transaction that burns nothing itself keeps the header's supply true: the
\* invariant check lets it pass only when it moved drops without losing any.
LEMMA TransactSupply ==
    ASSUME LedgerTypeOK, SupplyIsHeld, NEW a \in Accounts, NEW ok, NEW v,
           Succeeds(a, ok, v, FALSE) => ViewOK(v) /\ v.burned = 0,
           Transact(a, ok, v, FALSE)
    PROVE  SupplyIsHeld'
  <1>1. CASE ClaimFee(a)
    BY <1>1, ClaimFeeSupply
  <1>2. CASE Succeeds(a, ok, v, FALSE) /\ Commit(v, Fee)
    <2>1. ViewOK(v) /\ v.burned = 0 /\ DropsConserved(v, Fee, FALSE)
      BY <1>2 DEF Succeeds
    <2>2. HeldDrops(v) \in Nat /\ HeldDrops(View) \in Nat
      BY <2>1, HeldTyped, ViewTyped
    <2>3. HeldDrops(v) = HeldDrops(View) - Fee - v.burned
      BY <2>1, <2>2, FeeAssumption DEF DropsConserved
    <2> QED
      BY <1>2, <2>1, <2>3, FeeAssumption, CommitSupply
  <1> QED
    BY <1>1, <1>2 DEF Transact

-----------------------------------------------------------------------------
(* The views that the transactors commit.                                  *)

\* The view that ValidatorRegister::doApply commits.
LEMMA RegisterFields ==
    ASSUME NEW a \in Accounts, NEW k \in Keys,
           NEW v, v = registerApply(PayFee(a), a, k)
    PROVE  /\ v.balance = [balance EXCEPT ![a] = @ - Fee]
           /\ v.ownerCount = [ownerCount EXCEPT ![a] = @ + 1]
           /\ v.bonds = [bonds EXCEPT ![k] = FreshBond(a)]
           /\ v.treasury = treasury /\ v.names = names /\ v.nameOf = nameOf
           /\ v.epoch = epoch /\ v.burned = 0
  BY PayFeeFields DEF registerApply

\* The view that ValidatorBond::doApply commits.
LEMMA BondFields ==
    ASSUME NEW a \in Accounts, NEW k \in Keys, NEW x,
           NEW v, v = bondApply(PayFee(a), a, k, x)
    PROVE  /\ v.balance = [[balance EXCEPT ![a] = @ - Fee] EXCEPT ![a] = @ - x]
           /\ v.bonds = [bonds EXCEPT ![k] =
                Bonded(bonds[k], x)]
           /\ v.ownerCount = ownerCount
           /\ v.treasury = treasury /\ v.names = names /\ v.nameOf = nameOf
           /\ v.epoch = epoch /\ v.burned = 0
  BY PayFeeFields DEF bondApply

\* The view that ValidatorUnbond::doApply commits.
LEMMA UnbondFields ==
    ASSUME NEW a \in Accounts, NEW k \in Keys,
           NEW v, v = unbondApply(PayFee(a), k)
    PROVE  /\ v.balance = [balance EXCEPT ![a] = @ - Fee]
           /\ v.bonds = [bonds EXCEPT ![k] =
                Unbonding(bonds[k])]
           /\ v.ownerCount = ownerCount
           /\ v.treasury = treasury /\ v.names = names /\ v.nameOf = nameOf
           /\ v.epoch = epoch /\ v.burned = 0
  BY PayFeeFields DEF unbondApply

\* The view that ReleaseBond::doApply commits.
LEMMA ReleaseFields ==
    ASSUME NEW a \in Accounts, NEW k \in Keys,
           NEW v, v = releaseApply(PayFee(a), k)
    PROVE  /\ v.balance = [[balance EXCEPT ![a] = @ - Fee]
                             EXCEPT ![bonds[k].owner] = @ + bonds[k].amount]
           /\ v.bonds = [bonds EXCEPT ![k] = NoBond]
           /\ v.ownerCount = [ownerCount EXCEPT ![bonds[k].owner] =
                                IF @ > 0 THEN @ - 1 ELSE 0]
           /\ v.treasury = treasury /\ v.names = names /\ v.nameOf = nameOf
           /\ v.epoch = epoch /\ v.burned = 0
  BY PayFeeFields DEF releaseApply

\* The view that ValidatorSlash::doApply commits.
LEMMA SlashFields ==
    ASSUME NEW a \in Accounts, NEW k \in Keys,
           NEW v, v = slashApply(PayFee(a), k)
    PROVE  /\ v.balance = [[balance EXCEPT ![a] = @ - Fee]
                  EXCEPT ![bonds[k].owner] =
                    @ + Slashed(bonds[k]).amount]
           /\ v.bonds = [bonds EXCEPT ![k] = Slashed(bonds[k])]
           /\ v.burned = 0 + SlashedDrops(bonds[k])
           /\ v.ownerCount = ownerCount
           /\ v.treasury = treasury /\ v.names = names /\ v.nameOf = nameOf
           /\ v.epoch = epoch
  BY PayFeeFields DEF slashApply

-----------------------------------------------------------------------------
(* What becomes of the bond.                                               *)

\* A registration creates a bond.
LEMMA FreshBondTyped ==
    ASSUME NEW a \in Accounts
    PROVE  FreshBond(a) \in Bond
  BY BpsAssumption DEF FreshBond, Bond, BondStatus

\* Bonding changes the amount and the status of a bond only.
LEMMA BondedTyped ==
    ASSUME NEW b \in Bond, NEW x \in Nat
    PROVE  /\ Bonded(b, x) \in Bond
           /\ Bonded(b, x).owner = b.owner /\ Bonded(b, x).amount = x
           /\ Bonded(b, x).status = "BONDED"
           /\ Bonded(b, x).slashes = b.slashes /\ Bonded(b, x).mult = b.mult
  BY DEF Bonded, Bond, BondStatus

\* Unbonding changes the status and the start of the exit only.
LEMMA UnbondingTyped ==
    ASSUME NEW b \in Bond, seq \in Nat
    PROVE  /\ Unbonding(b) \in Bond
           /\ Unbonding(b).owner = b.owner /\ Unbonding(b).amount = b.amount
           /\ Unbonding(b).status = "UNBONDING" /\ Unbonding(b).start = seq
           /\ Unbonding(b).slashes = b.slashes /\ Unbonding(b).mult = b.mult
  BY DEF Unbonding, Bond, BondStatus

\* A double sign costs the whole bond.
LEMMA SlashIsFull ==
    ASSUME NEW b \in Bond
    PROVE  SlashedDrops(b) = b.amount
  <1>1. b.amount \in Nat
    BY DEF Bond
  <1>2. \A x \in Nat, d \in Nat \ {0} : (x * d) \div d = x
    OBVIOUS
  <1> QED
    BY <1>1, <1>2, BpsAssumption DEF SlashedDrops, SlashBps

\* A slash empties the bond and starts its exit.
LEMMA SlashedTyped ==
    ASSUME NEW b \in Bond, seq \in Nat
    PROVE  /\ Slashed(b) \in Bond
           /\ Slashed(b).owner = b.owner /\ Slashed(b).amount = 0
           /\ Slashed(b).status = "UNBONDING" /\ Slashed(b).start = seq
           /\ Slashed(b).slashes = b.slashes + 1
  <1>1. SlashedDrops(b) = b.amount
    BY SlashIsFull
  <1>2. MultiplierStep \in Nat
    BY BpsAssumption DEF MultiplierStep
  <1> DEFINE m == IF b.mult >= MultiplierStep THEN b.mult - MultiplierStep ELSE 0
             n == b.slashes + 1
  <1>3. m \in Nat /\ b.amount - b.amount = 0 /\ n \in Nat
    BY <1>2 DEF Bond
  <1>4. Slashed(b) = [b EXCEPT !.amount = 0, !.status = "UNBONDING", !.start = seq,
                               !.mult = m, !.slashes = n]
    BY <1>1, <1>3 DEF Slashed
  <1> HIDE DEF m, n
  <1>5. Slashed(b) \in Bond
    <2> DEFINE c == [b EXCEPT !.amount = 0, !.status = "UNBONDING", !.start = seq]
    <2>1. c \in Bond
      BY DEF Bond, BondStatus
    <2>2. Slashed(b) = [c EXCEPT !.mult = m, !.slashes = n]
      BY <1>4
    <2> HIDE DEF c
    <2> QED
      BY <1>3, <2>1, <2>2 DEF Bond
  <1>6. /\ Slashed(b).owner = b.owner /\ Slashed(b).amount = 0
        /\ Slashed(b).status = "UNBONDING" /\ Slashed(b).start = seq
        /\ Slashed(b).slashes = n
    BY <1>4 DEF Bond
  <1> QED
    BY <1>5, <1>6 DEF n

-----------------------------------------------------------------------------
(* What a transaction does to the ledger.                                  *)

\* Only the fee is claimed.
Charged(a) ==
    /\ UNCHANGED <<ownerCount, bonds>>
    /\ \E fee \in 0..Fee : balance' = [balance EXCEPT ![a] = @ - fee]

Registers(a, k) ==
    /\ ~Registered(k)
    /\ bonds' = [bonds EXCEPT ![k] = FreshBond(a)]
    /\ ownerCount' = [ownerCount EXCEPT ![a] = @ + 1]
    /\ balance' = [balance EXCEPT ![a] = @ - Fee]

Bonds(a, k, x) ==
    /\ bondPreflight(x) /\ canBond(a, k, x)
    /\ bonds' = [bonds EXCEPT ![k] = Bonded(bonds[k], x)]
    /\ balance' = [[balance EXCEPT ![a] = @ - Fee] EXCEPT ![a] = @ - x]
    /\ UNCHANGED ownerCount

Unbonds(a, k) ==
    /\ canUnbond(a, k)
    /\ bonds' = [bonds EXCEPT ![k] = Unbonding(bonds[k])]
    /\ balance' = [balance EXCEPT ![a] = @ - Fee]
    /\ UNCHANGED ownerCount

Releases(a, k) ==
    /\ canRelease(k)
    /\ bonds' = [bonds EXCEPT ![k] = NoBond]
    /\ balance' = [[balance EXCEPT ![a] = @ - Fee]
                     EXCEPT ![bonds[k].owner] = @ + bonds[k].amount]
    /\ ownerCount' = [ownerCount EXCEPT ![bonds[k].owner] =
                        IF @ > 0 THEN @ - 1 ELSE 0]

Slashes(a, k) ==
    /\ \E e1, e2 \in Validation : canSlash(k, e1, e2)
    /\ bonds' = [bonds EXCEPT ![k] = Slashed(bonds[k])]
    /\ balance' = [balance EXCEPT ![a] = @ - Fee]
    /\ UNCHANGED ownerCount

\* The parts of the ledger that no bond transaction writes.
Untouched == UNCHANGED <<seq, names, nameOf, epoch>>

\* The effects that all transactions have in common, and those of a fee claim.
LEMMA ChargedEffect ==
    ASSUME LedgerTypeOK, NEW a \in Accounts, ClaimFee(a)
    PROVE  LedgerTypeOK' /\ Untouched /\ Charged(a) /\ treasury' >= treasury
  BY ClaimFeeEffect DEF Untouched, Charged

\* A registered key has a bond of the ledger's type.
LEMMA RegisteredTyped ==
    ASSUME LedgerTypeOK, NEW k \in Keys, Registered(k)
    PROVE  bonds[k] \in Bond
  BY DEF LedgerTypeOK, Registered

\* The fee fits when the engine got past checkFee.
LEMMA FeePaid ==
    ASSUME LedgerTypeOK, NEW a \in Accounts, balance[a] >= Fee
    PROVE  [balance EXCEPT ![a] = @ - Fee] \in [Accounts -> Nat]
  BY FeeAssumption DEF LedgerTypeOK

\* The view of a registration is well typed.
LEMMA RegisterView ==
    ASSUME LedgerTypeOK, NEW a \in Accounts, NEW k \in Keys,
           balance[a] >= Fee, NEW v, v = registerApply(PayFee(a), a, k)
    PROVE  ViewOK(v) /\ v.burned = 0
  <1>1. /\ v.balance = [balance EXCEPT ![a] = @ - Fee]
        /\ v.ownerCount = [ownerCount EXCEPT ![a] = @ + 1]
        /\ v.bonds = [bonds EXCEPT ![k] = FreshBond(a)]
        /\ v.treasury = treasury /\ v.names = names /\ v.nameOf = nameOf
        /\ v.epoch = epoch /\ v.burned = 0
    BY RegisterFields
  <1> QED
    BY <1>1, FeePaid, FreshBondTyped DEF ViewOK, LedgerTypeOK

\* ValidatorRegister creates an empty bond or only claims its fee.
LEMMA RegisterEffect ==
    ASSUME LedgerTypeOK, NEW a \in Accounts, NEW k \in Keys, ValidatorRegister(a, k)
    PROVE  /\ LedgerTypeOK' /\ Untouched /\ treasury' >= treasury
           /\ Registers(a, k) \/ Charged(a)
  <1> DEFINE v == registerApply(PayFee(a), a, k)
  <1>1. CASE ClaimFee(a)
    BY <1>1, ChargedEffect
  <1>2. CASE balance[a] >= Fee /\ ~Registered(k) /\ Commit(v, Fee)
    <2>1. /\ v.balance = [balance EXCEPT ![a] = @ - Fee]
          /\ v.ownerCount = [ownerCount EXCEPT ![a] = @ + 1]
          /\ v.bonds = [bonds EXCEPT ![k] = FreshBond(a)]
          /\ v.treasury = treasury /\ v.names = names /\ v.nameOf = nameOf
          /\ v.epoch = epoch
      BY RegisterFields
    <2>2. ViewOK(v)
      BY <1>2, RegisterView
    <2> HIDE DEF v
    <2>3. LedgerTypeOK' /\ treasury' >= v.treasury
      BY <1>2, <2>2, FeeAssumption, CommitTyped
    <2> QED
      BY <1>2, <2>1, <2>3 DEF Registers, Untouched, Commit
  <1> QED
    BY <1>1, <1>2 DEF ValidatorRegister, Transact, Succeeds

\* The view of a bonding is well typed: the funds check leaves no debt.
LEMMA BondView ==
    ASSUME LedgerTypeOK, NEW a \in Accounts, NEW k \in Keys, NEW x \in Nat,
           balance[a] >= Fee, canBond(a, k, x),
           NEW v, v = bondApply(PayFee(a), a, k, x)
    PROVE  ViewOK(v) /\ v.burned = 0
  <1>1. /\ v.balance = [[balance EXCEPT ![a] = @ - Fee] EXCEPT ![a] = @ - x]
        /\ v.bonds = [bonds EXCEPT ![k] = Bonded(bonds[k], x)]
        /\ v.ownerCount = ownerCount
        /\ v.treasury = treasury /\ v.names = names /\ v.nameOf = nameOf
        /\ v.epoch = epoch /\ v.burned = 0
    BY BondFields
  <1>2. bonds[k] \in Bond
    BY RegisteredTyped DEF canBond, OwnedBy
  <1>3. v.bonds \in [Keys -> Bond \cup {NoBond}]
    BY <1>1, <1>2, BondedTyped DEF LedgerTypeOK
  <1>4. v.balance \in [Accounts -> Nat]
    BY <1>1, FeeAssumption DEF LedgerTypeOK, canBond
  <1> QED
    BY <1>1, <1>3, <1>4 DEF ViewOK, LedgerTypeOK

\* ValidatorBond moves the amount into the bond or only claims its fee.
LEMMA BondEffect ==
    ASSUME LedgerTypeOK, NEW a \in Accounts, NEW k \in Keys, NEW x \in BondAmounts,
           ValidatorBond(a, k, x)
    PROVE  /\ LedgerTypeOK' /\ Untouched /\ treasury' >= treasury
           /\ Bonds(a, k, x) \/ Charged(a)
  <1> DEFINE v == bondApply(PayFee(a), a, k, x)
  <1>0. x \in Nat /\ bondPreflight(x)
    BY BondAssumption DEF ValidatorBond
  <1>1. CASE ClaimFee(a)
    BY <1>1, ChargedEffect
  <1>2. CASE balance[a] >= Fee /\ canBond(a, k, x) /\ Commit(v, Fee)
    <2>1. /\ v.balance = [[balance EXCEPT ![a] = @ - Fee] EXCEPT ![a] = @ - x]
          /\ v.bonds = [bonds EXCEPT ![k] = Bonded(bonds[k], x)]
          /\ v.ownerCount = ownerCount
          /\ v.treasury = treasury /\ v.names = names /\ v.nameOf = nameOf
          /\ v.epoch = epoch
      BY BondFields
    <2>2. ViewOK(v)
      BY <1>0, <1>2, BondView
    <2> HIDE DEF v
    <2>3. LedgerTypeOK' /\ treasury' >= v.treasury
      BY <1>2, <2>2, FeeAssumption, CommitTyped
    <2> QED
      BY <1>0, <1>2, <2>1, <2>3 DEF Bonds, Untouched, Commit
  <1> QED
    BY <1>1, <1>2 DEF ValidatorBond, Transact, Succeeds

\* The view of an unbonding is well typed.
LEMMA UnbondView ==
    ASSUME LedgerTypeOK, NEW a \in Accounts, NEW k \in Keys,
           balance[a] >= Fee, canUnbond(a, k), NEW v, v = unbondApply(PayFee(a), k)
    PROVE  ViewOK(v) /\ v.burned = 0
  <1>1. /\ v.balance = [balance EXCEPT ![a] = @ - Fee]
        /\ v.bonds = [bonds EXCEPT ![k] = Unbonding(bonds[k])]
        /\ v.ownerCount = ownerCount
        /\ v.treasury = treasury /\ v.names = names /\ v.nameOf = nameOf
        /\ v.epoch = epoch /\ v.burned = 0
    BY UnbondFields
  <1>2. bonds[k] \in Bond
    BY RegisteredTyped DEF canUnbond, OwnedBy
  <1>3. v.bonds \in [Keys -> Bond \cup {NoBond}]
    BY <1>1, <1>2, UnbondingTyped DEF LedgerTypeOK
  <1> QED
    BY <1>1, <1>3, FeePaid DEF ViewOK, LedgerTypeOK

\* ValidatorUnbond starts the exit of a bond or only claims its fee.
LEMMA UnbondEffect ==
    ASSUME LedgerTypeOK, NEW a \in Accounts, NEW k \in Keys, ValidatorUnbond(a, k)
    PROVE  /\ LedgerTypeOK' /\ Untouched /\ treasury' >= treasury
           /\ Unbonds(a, k) \/ Charged(a)
  <1> DEFINE v == unbondApply(PayFee(a), k)
  <1>1. CASE ClaimFee(a)
    BY <1>1, ChargedEffect
  <1>2. CASE balance[a] >= Fee /\ canUnbond(a, k) /\ Commit(v, Fee)
    <2>1. /\ v.balance = [balance EXCEPT ![a] = @ - Fee]
          /\ v.bonds = [bonds EXCEPT ![k] = Unbonding(bonds[k])]
          /\ v.ownerCount = ownerCount
          /\ v.treasury = treasury /\ v.names = names /\ v.nameOf = nameOf
          /\ v.epoch = epoch
      BY UnbondFields
    <2>2. ViewOK(v)
      BY <1>2, UnbondView
    <2> HIDE DEF v
    <2>3. LedgerTypeOK' /\ treasury' >= v.treasury
      BY <1>2, <2>2, FeeAssumption, CommitTyped
    <2> QED
      BY <1>2, <2>1, <2>3 DEF Unbonds, Untouched, Commit
  <1> QED
    BY <1>1, <1>2 DEF ValidatorUnbond, Transact, Succeeds

\* The view of a release is well typed.
LEMMA ReleaseView ==
    ASSUME LedgerTypeOK, NEW a \in Accounts, NEW k \in Keys,
           balance[a] >= Fee, canRelease(k), NEW v, v = releaseApply(PayFee(a), k)
    PROVE  ViewOK(v) /\ v.burned = 0
  <1>1. /\ v.balance = [[balance EXCEPT ![a] = @ - Fee]
                          EXCEPT ![bonds[k].owner] = @ + bonds[k].amount]
        /\ v.bonds = [bonds EXCEPT ![k] = NoBond]
        /\ v.ownerCount = [ownerCount EXCEPT ![bonds[k].owner] =
                             IF @ > 0 THEN @ - 1 ELSE 0]
        /\ v.treasury = treasury /\ v.names = names /\ v.nameOf = nameOf
        /\ v.epoch = epoch /\ v.burned = 0
    BY ReleaseFields
  <1>2. bonds[k].owner \in Accounts /\ bonds[k].amount \in Nat
    BY RegisteredTyped DEF canRelease, HasStatus, Bond
  <1> DEFINE w == [balance EXCEPT ![a] = @ - Fee]
  <1>3. w \in [Accounts -> Nat]
    BY FeePaid
  <1> HIDE DEF w
  <1>4. v.balance \in [Accounts -> Nat]
    <2>1. v.balance = [w EXCEPT ![bonds[k].owner] = @ + bonds[k].amount]
      BY <1>1 DEF w
    <2> QED
      BY <1>2, <1>3, <2>1
  <1>5. v.ownerCount \in [Accounts -> Nat]
    BY <1>1, <1>2 DEF LedgerTypeOK
  <1> QED
    BY <1>1, <1>4, <1>5 DEF ViewOK, LedgerTypeOK

\* ReleaseBond pays the bond back to its registrant or only claims its fee.
LEMMA ReleaseEffect ==
    ASSUME LedgerTypeOK, NEW a \in Accounts, NEW k \in Keys, ReleaseBond(a, k)
    PROVE  /\ LedgerTypeOK' /\ Untouched /\ treasury' >= treasury
           /\ Releases(a, k) \/ Charged(a)
  <1> DEFINE v == releaseApply(PayFee(a), k)
  <1>1. CASE ClaimFee(a)
    BY <1>1, ChargedEffect
  <1>2. CASE balance[a] >= Fee /\ canRelease(k) /\ Commit(v, Fee)
    <2>1. /\ v.balance = [[balance EXCEPT ![a] = @ - Fee]
                            EXCEPT ![bonds[k].owner] = @ + bonds[k].amount]
          /\ v.bonds = [bonds EXCEPT ![k] = NoBond]
          /\ v.ownerCount = [ownerCount EXCEPT ![bonds[k].owner] =
                               IF @ > 0 THEN @ - 1 ELSE 0]
          /\ v.treasury = treasury /\ v.names = names /\ v.nameOf = nameOf
          /\ v.epoch = epoch
      BY ReleaseFields
    <2>2. ViewOK(v)
      BY <1>2, ReleaseView
    <2> HIDE DEF v
    <2>3. LedgerTypeOK' /\ treasury' >= v.treasury
      BY <1>2, <2>2, FeeAssumption, CommitTyped
    <2> QED
      BY <1>2, <2>1, <2>3 DEF Releases, Untouched, Commit
  <1> QED
    BY <1>1, <1>2 DEF ReleaseBond, Transact, Succeeds

\* The view of a slash is well typed: the slasher and the registrant get
\* nothing, and what is burned is the whole bond.
LEMMA SlashView ==
    ASSUME LedgerTypeOK, NEW a \in Accounts, NEW k \in Keys,
           balance[a] >= Fee, Registered(k), NEW v, v = slashApply(PayFee(a), k)
    PROVE  /\ ViewOK(v) /\ v.burned = bonds[k].amount
           /\ v.balance = [balance EXCEPT ![a] = @ - Fee]
  <1>1. /\ v.balance = [[balance EXCEPT ![a] = @ - Fee]
               EXCEPT ![bonds[k].owner] = @ + Slashed(bonds[k]).amount]
        /\ v.bonds = [bonds EXCEPT ![k] = Slashed(bonds[k])]
        /\ v.burned = 0 + SlashedDrops(bonds[k])
        /\ v.ownerCount = ownerCount
        /\ v.treasury = treasury /\ v.names = names /\ v.nameOf = nameOf
        /\ v.epoch = epoch
    BY SlashFields
  <1>2. bonds[k] \in Bond
    BY RegisteredTyped
  <1>3. v.bonds \in [Keys -> Bond \cup {NoBond}]
    BY <1>1, <1>2, SlashedTyped DEF LedgerTypeOK
  <1> DEFINE w == [balance EXCEPT ![a] = @ - Fee]
  <1>4. w \in [Accounts -> Nat]
    BY FeePaid
  <1>5. v.balance = w
    <2> HIDE DEF w
    <2>1. v.balance = [w EXCEPT ![bonds[k].owner] = @ + 0]
      BY <1>1, <1>2, SlashedTyped DEF w, LedgerTypeOK
    <2> QED
      BY <1>2, <1>4, <2>1 DEF Bond
  <1>6. v.burned = bonds[k].amount /\ v.burned \in Nat
    BY <1>1, <1>2, SlashIsFull DEF Bond
  <1> QED
    BY <1>1, <1>3, <1>4, <1>5, <1>6 DEF ViewOK, LedgerTypeOK

\* ValidatorSlash empties the bond of a proven double signer and pays nobody,
\* or only claims its fee.
LEMMA SlashEffect ==
    ASSUME LedgerTypeOK, NEW a \in Accounts, NEW k \in Keys,
           NEW e1 \in Validation, NEW e2 \in Validation,
           ValidatorSlash(a, k, e1, e2)
    PROVE  /\ LedgerTypeOK' /\ Untouched /\ treasury' >= treasury
           /\ Slashes(a, k) \/ Charged(a)
  <1> DEFINE v == slashApply(PayFee(a), k)
  <1>1. CASE ClaimFee(a)
    BY <1>1, ChargedEffect
  <1>2. CASE balance[a] >= Fee /\ canSlash(k, e1, e2) /\ Commit(v, Fee)
    <2>1. /\ v.balance = [[balance EXCEPT ![a] = @ - Fee]
                            EXCEPT ![bonds[k].owner] = @ + Slashed(bonds[k]).amount]
          /\ v.bonds = [bonds EXCEPT ![k] = Slashed(bonds[k])]
          /\ v.burned = 0 + SlashedDrops(bonds[k])
          /\ v.ownerCount = ownerCount
          /\ v.treasury = treasury /\ v.names = names /\ v.nameOf = nameOf
          /\ v.epoch = epoch
      BY SlashFields
    <2>2. ViewOK(v) /\ v.balance = [balance EXCEPT ![a] = @ - Fee]
      BY <1>2, SlashView DEF canSlash, HasStatus
    <2> HIDE DEF v
    <2>3. LedgerTypeOK' /\ treasury' >= v.treasury
      BY <1>2, <2>2, FeeAssumption, CommitTyped
    <2> QED
      BY <1>2, <2>1, <2>2, <2>3 DEF Slashes, Untouched, Commit
  <1> QED
    BY <1>1, <1>2 DEF ValidatorSlash, Transact, Succeeds

\* Every bond transaction has one of six effects on bonds and balances.
LEMMA BondTxEffect ==
    ASSUME LedgerTypeOK, NEW a \in Accounts, NEW k \in Keys, BondTx(a, k)
    PROVE  /\ LedgerTypeOK' /\ Untouched /\ UNCHANGED signed /\ treasury' >= treasury
           /\ \/ Charged(a)
              \/ Registers(a, k)
              \/ \E x \in BondAmounts : Bonds(a, k, x)
              \/ Unbonds(a, k)
              \/ Releases(a, k)
              \/ Slashes(a, k)
  <1>1. CASE ValidatorRegister(a, k)
    BY <1>1, RegisterEffect DEF ValidatorRegister
  <1>2. CASE \E x \in BondAmounts : ValidatorBond(a, k, x)
    BY <1>2, BondEffect DEF ValidatorBond
  <1>3. CASE ValidatorUnbond(a, k)
    BY <1>3, UnbondEffect DEF ValidatorUnbond
  <1>4. CASE ReleaseBond(a, k)
    BY <1>4, ReleaseEffect DEF ReleaseBond
  <1>5. CASE \E e1, e2 \in Validation : ValidatorSlash(a, k, e1, e2)
    BY <1>5, SlashEffect DEF ValidatorSlash
  <1> QED
    BY <1>1, <1>2, <1>3, <1>4, <1>5 DEF BondTx

-----------------------------------------------------------------------------
(* Type correctness                                                        *)

\* The ledger is well typed in the genesis state.
LEMMA InitTyped == Init => TypeOK
  <1> SUFFICES ASSUME Init PROVE TypeOK
    OBVIOUS
  <1>1. Cardinality(Accounts) \in Nat
    BY FiniteAssumption, FS_CardinalityType
  <1>2. drops \in Int
    BY <1>1, BondAssumption DEF Init, LedgerInit
  <1> QED
    BY <1>2, BondAssumption DEF Init, LedgerInit, TypeOK, LedgerTypeOK

\* Every step keeps the ledger well typed: no balance, not even the treasury,
\* drops below zero.
LEMMA NextTyped == TypeOK /\ [Next]_bondVars => TypeOK'
  <1> SUFFICES ASSUME TypeOK, [Next]_bondVars PROVE TypeOK'
    OBVIOUS
  <1>1. ASSUME NEW a \in Accounts, NEW k \in Keys, BondTx(a, k)
        PROVE  TypeOK'
    BY <1>1, BondTxEffect DEF TypeOK, Untouched
  <1>2. ASSUME NEW v \in Validation, Sign(v)
        PROVE  TypeOK'
    BY <1>2 DEF TypeOK, LedgerTypeOK, Sign, ledgerVars
  <1>3. CASE CloseLedger
    BY <1>3, BondAssumption DEF TypeOK, LedgerTypeOK, CloseLedger, NextLedger
  <1>4. CASE UNCHANGED bondVars
    BY <1>4 DEF TypeOK, LedgerTypeOK, bondVars, ledgerVars
  <1> QED
    BY <1>1, <1>2, <1>3, <1>4 DEF Next

\* Every reachable state is well typed: in no order of transactions does a fee,
\* a bond, a release or a slash overdraw an account or the treasury.
THEOREM TypeCorrect == Spec => []TypeOK
  BY InitTyped, NextTyped, PTL DEF Spec

-----------------------------------------------------------------------------
(* The shape of a bond                                                     *)

\* Every step keeps every bond in shape.
LEMMA NextWellFormed ==
    TypeOK /\ BondsWellFormed /\ [Next]_bondVars => BondsWellFormed'
  <1> SUFFICES ASSUME TypeOK, BondsWellFormed, [Next]_bondVars,
                      NEW j \in Keys, Registered(j)'
               PROVE  BondShape(j)'
    BY DEF BondsWellFormed
  <1>t. LedgerTypeOK /\ seq \in Nat
    BY DEF TypeOK, LedgerTypeOK
  <1>0. ASSUME bonds'[j] = bonds[j], seq' \in Nat, seq <= seq'
        PROVE  BondShape(j)'
    <2>1. Registered(j) /\ BondShape(j)
      BY <1>0 DEF Registered, BondsWellFormed
    <2>2. bonds[j].start \in Nat
      BY <1>t, <2>1, RegisteredTyped DEF Bond
    <2> QED
      BY <1>t, <1>0, <2>1, <2>2 DEF BondShape
  <1>1. ASSUME NEW a \in Accounts, NEW k \in Keys, BondTx(a, k)
        PROVE  BondShape(j)'
    <2>0. /\ Untouched
          /\ \/ Charged(a)
             \/ Registers(a, k)
             \/ \E x \in BondAmounts : Bonds(a, k, x)
             \/ Unbonds(a, k)
             \/ Releases(a, k)
             \/ Slashes(a, k)
      BY <1>t, <1>1, BondTxEffect
    <2>s. seq' = seq
      BY <2>0 DEF Untouched
    <2>k. bonds \in [Keys -> Bond \cup {NoBond}]
      BY <1>t DEF LedgerTypeOK
    <2>1. CASE Charged(a) \/ j # k
      <3>1. bonds'[j] = bonds[j]
        BY <2>0, <2>1, <2>k DEF Charged, Registers, Bonds, Unbonds, Releases, Slashes
      <3> QED
        BY <1>0, <1>t, <2>s, <3>1
    <2>2. CASE Registers(a, k) /\ j = k
      <3>1. bonds'[j] = FreshBond(a)
        BY <2>2, <2>k DEF Registers
      <3> QED
        BY <3>1 DEF BondShape, FreshBond
    <2>3. ASSUME NEW x \in BondAmounts, Bonds(a, k, x), j = k
          PROVE  BondShape(j)'
      <3>1. bonds'[j] = Bonded(bonds[j], x) /\ x \in Nat /\ x >= MinBond
        BY <2>3, <2>k, BondAssumption DEF Bonds, bondPreflight
      <3>2. /\ bonds[j] \in Bond /\ bonds[j].status = "REGISTERED"
            /\ Registered(j)
        BY <1>t, <2>3, RegisteredTyped DEF Bonds, canBond, OwnedBy, HasStatus
      <3>3. bonds[j].slashes = 0 /\ bonds[j].mult = BpsDenom
        BY <3>2 DEF BondsWellFormed, BondShape
      <3> QED
        BY <3>1, <3>2, <3>3, BondedTyped DEF BondShape
    <2>4. CASE Unbonds(a, k) /\ j = k
      <3>1. bonds'[j] = Unbonding(bonds[j])
        BY <2>4, <2>k DEF Unbonds
      <3>2. bonds[j] \in Bond /\ bonds[j].status = "BONDED" /\ Registered(j)
        BY <1>t, <2>4, RegisteredTyped DEF Unbonds, canUnbond, OwnedBy, HasStatus
      <3>3. bonds[j].slashes = 0 /\ bonds[j].amount >= MinBond
        BY <3>2 DEF BondsWellFormed, BondShape
      <3> QED
        BY <1>t, <2>s, <3>1, <3>2, <3>3, UnbondingTyped DEF BondShape
    <2>5. CASE Releases(a, k) /\ j = k
      BY <2>5, <2>k DEF Releases, Registered
    <2>6. CASE Slashes(a, k) /\ j = k
      <3>1. bonds'[j] = Slashed(bonds[j])
        BY <2>6, <2>k DEF Slashes
      <3>2. bonds[j] \in Bond /\ bonds[j].status # "UNBONDING" /\ Registered(j)
        BY <1>t, <2>6, RegisteredTyped DEF Slashes, canSlash, HasStatus
      <3>3. bonds[j].slashes = 0
        BY <3>2 DEF BondsWellFormed, BondShape
      <3> QED
        BY <1>t, <2>s, <3>1, <3>2, <3>3, SlashedTyped DEF BondShape
    <2> QED
      BY <2>0, <2>1, <2>2, <2>3, <2>4, <2>5, <2>6
  <1>2. ASSUME NEW v \in Validation, Sign(v)
        PROVE  BondShape(j)'
    BY <1>0, <1>2, <1>t DEF Sign, ledgerVars
  <1>3. CASE CloseLedger
    BY <1>0, <1>3, <1>t DEF CloseLedger, NextLedger
  <1>4. CASE UNCHANGED bondVars
    BY <1>0, <1>4, <1>t DEF bondVars, ledgerVars
  <1> QED
    BY <1>1, <1>2, <1>3, <1>4 DEF Next

\* A bond that can earn is never one that was slashed, a slash happens once and
\* takes everything, and an exit never starts in the future, along every
\* sequence of bond transactions.
THEOREM BondsAlwaysWellFormed == Spec => []BondsWellFormed
  <1>1. Init => BondsWellFormed
    BY DEF Init, LedgerInit, BondsWellFormed, Registered
  <1> QED
    BY <1>1, TypeCorrect, NextWellFormed, PTL DEF Spec

-----------------------------------------------------------------------------
(* Only a double sign is punished                                          *)

\* A validation once signed stays evidence.
LEMMA EquivocationLasts ==
    ASSUME NEW k, Equivocated(k), signed \subseteq signed'
    PROVE  Equivocated(k)'
  BY DEF Equivocated

\* Every step that slashes a key finds it guilty.
LEMMA NextOnlyEquivocators ==
    TypeOK /\ OnlyEquivocatorsSlashed /\ [Next]_bondVars => OnlyEquivocatorsSlashed'
  <1> SUFFICES ASSUME TypeOK, OnlyEquivocatorsSlashed, [Next]_bondVars,
                      NEW j \in Keys, Registered(j)', bonds'[j].slashes > 0
               PROVE  Equivocated(j)'
    BY DEF OnlyEquivocatorsSlashed
  <1>t. LedgerTypeOK /\ bonds \in [Keys -> Bond \cup {NoBond}]
    BY DEF TypeOK, LedgerTypeOK
  <1>0. ASSUME bonds'[j] = bonds[j], signed \subseteq signed'
        PROVE  Equivocated(j)'
    BY <1>0, EquivocationLasts DEF OnlyEquivocatorsSlashed, Registered
  <1>1. ASSUME NEW a \in Accounts, NEW k \in Keys, BondTx(a, k)
        PROVE  Equivocated(j)'
    <2>0. /\ signed' = signed
          /\ \/ Charged(a)
             \/ Registers(a, k)
             \/ \E x \in BondAmounts : Bonds(a, k, x)
             \/ Unbonds(a, k)
             \/ Releases(a, k)
             \/ Slashes(a, k)
      BY <1>t, <1>1, BondTxEffect
    <2>1. CASE Charged(a) \/ j # k
      <3>1. bonds'[j] = bonds[j]
        BY <2>0, <2>1, <1>t DEF Charged, Registers, Bonds, Unbonds, Releases, Slashes
      <3> QED
        BY <1>0, <2>0, <3>1
    <2>2. CASE Registers(a, k) /\ j = k
      <3>1. bonds'[j].slashes = 0
        BY <2>2, <1>t DEF Registers, FreshBond
      <3> QED
        BY <3>1
    <2>3. ASSUME NEW x \in BondAmounts, Bonds(a, k, x), j = k
          PROVE  Equivocated(j)'
      <3>1. bonds'[j] = Bonded(bonds[j], x) /\ x \in Nat
        BY <2>3, <1>t, BondAssumption DEF Bonds
      <3>2. bonds[j] \in Bond /\ Registered(j)
        BY <1>t, <2>3, RegisteredTyped DEF Bonds, canBond, OwnedBy
      <3>3. bonds[j].slashes > 0
        BY <3>1, <3>2, BondedTyped
      <3> QED
        BY <2>0, <3>2, <3>3, EquivocationLasts DEF OnlyEquivocatorsSlashed
    <2>4. CASE Unbonds(a, k) /\ j = k
      <3>1. bonds'[j] = Unbonding(bonds[j]) /\ seq \in Nat
        BY <2>4, <1>t DEF Unbonds, LedgerTypeOK
      <3>2. bonds[j] \in Bond /\ Registered(j)
        BY <1>t, <2>4, RegisteredTyped DEF Unbonds, canUnbond, OwnedBy
      <3>3. bonds[j].slashes > 0
        BY <3>1, <3>2, UnbondingTyped
      <3> QED
        BY <2>0, <3>2, <3>3, EquivocationLasts DEF OnlyEquivocatorsSlashed
    <2>5. CASE Releases(a, k) /\ j = k
      BY <2>5, <1>t DEF Releases, Registered
    <2>6. CASE Slashes(a, k) /\ j = k
      <3>1. Equivocated(j)
        BY <2>6 DEF Slashes, canSlash, verifyDoubleSignEvidence, Equivocated
      <3> QED
        BY <2>0, <3>1, EquivocationLasts
    <2> QED
      BY <2>0, <2>1, <2>2, <2>3, <2>4, <2>5, <2>6
  <1>2. ASSUME NEW v \in Validation, Sign(v)
        PROVE  Equivocated(j)'
    BY <1>0, <1>2 DEF Sign, ledgerVars
  <1>3. CASE CloseLedger
    BY <1>0, <1>3 DEF CloseLedger
  <1>4. CASE UNCHANGED bondVars
    BY <1>0, <1>4 DEF bondVars, ledgerVars
  <1> QED
    BY <1>1, <1>2, <1>3, <1>4 DEF Next

\* A validator whose key never signed two hashes for one ledger is never
\* slashed, whatever the other accounts submit.
THEOREM HonestNeverSlashed == Spec => []OnlyEquivocatorsSlashed
  <1>1. Init => OnlyEquivocatorsSlashed
    BY DEF Init, LedgerInit, OnlyEquivocatorsSlashed, Registered
  <1> QED
    BY <1>1, TypeCorrect, NextOnlyEquivocators, PTL DEF Spec

-----------------------------------------------------------------------------
(* Owner counts                                                            *)

Owned(a) == {k \in Keys : OwnedBy(k, a)}

\* An account owns finitely many bonds, and adding or removing one counts.
LEMMA OwnedCounts ==
    ASSUME NEW a, NEW k \in Keys
    PROVE  /\ Cardinality(Owned(a)) \in Nat
           /\ k \notin Owned(a)
                => Cardinality(Owned(a) \cup {k}) = Cardinality(Owned(a)) + 1
           /\ k \in Owned(a)
                => /\ Cardinality(Owned(a)) > 0
                   /\ Cardinality(Owned(a) \ {k}) = Cardinality(Owned(a)) - 1
  <1>1. IsFiniteSet(Owned(a))
    BY FiniteAssumption, FS_Subset DEF Owned
  <1>2. Cardinality(Owned(a)) \in Nat
    BY <1>1, FS_CardinalityType
  <1>3. k \in Owned(a) => Cardinality(Owned(a)) # 0
    BY <1>1, FS_EmptySet
  <1>4. k \notin Owned(a) => Cardinality(Owned(a) \cup {k}) = Cardinality(Owned(a)) + 1
    BY <1>1, FS_AddElement
  <1>5. k \in Owned(a) => Cardinality(Owned(a) \ {k}) = Cardinality(Owned(a)) - 1
    BY <1>1, FS_RemoveElement
  <1> QED
    BY <1>2, <1>3, <1>4, <1>5

\* A bond transaction moves an owner count by what it does to the number of
\* bonds of that account, however many other objects the count covers.
LEMMA BondTxOwnerCount ==
    ASSUME LedgerTypeOK, NEW a \in Accounts, NEW k \in Keys, BondTx(a, k),
           NEW o \in Accounts, ownerCount[o] >= Cardinality(Owned(o))
    PROVE  /\ ownerCount'[o] = ownerCount[o] + Cardinality(Owned(o)') - Cardinality(Owned(o))
           /\ Cardinality(Owned(o)) \in Nat /\ Cardinality(Owned(o)') \in Nat
  <1>t. bonds \in [Keys -> Bond \cup {NoBond}] /\ ownerCount \in [Accounts -> Nat]
    BY DEF LedgerTypeOK
  <1>n. Cardinality(Owned(o)) \in Nat /\ ownerCount[o] \in Nat
    BY <1>t, OwnedCounts
  <1> SUFFICES \E d \in {-1, 0, 1} : /\ ownerCount'[o] = ownerCount[o] + d
                                     /\ Cardinality(Owned(o)') = Cardinality(Owned(o)) + d
                                     /\ Cardinality(Owned(o)') \in Nat
    BY <1>n
  <1>0. ASSUME ownerCount'[o] = ownerCount[o], Owned(o)' = Owned(o)
        PROVE  \E d \in {-1, 0, 1} : /\ ownerCount'[o] = ownerCount[o] + d
                                     /\ Cardinality(Owned(o)') = Cardinality(Owned(o)) + d
                                     /\ Cardinality(Owned(o)') \in Nat
    BY <1>0, <1>n
  <1>1. \/ Charged(a)
        \/ Registers(a, k)
        \/ \E x \in BondAmounts : Bonds(a, k, x)
        \/ Unbonds(a, k)
        \/ Releases(a, k)
        \/ Slashes(a, k)
    BY BondTxEffect
  <1>2. CASE Charged(a)
    BY <1>0, <1>2 DEF Charged, Owned, OwnedBy, Registered
  <1>3. CASE Registers(a, k)
    <2>1. FreshBond(a) # NoBond /\ FreshBond(a).owner = a
      BY FreshBondTyped, AbsentAssumption DEF FreshBond
    <2>2. k \notin Owned(o)
      BY <1>3 DEF Registers, Owned, OwnedBy
    <2>3. Owned(o)' = IF o = a THEN Owned(o) \cup {k} ELSE Owned(o)
      BY <1>t, <1>3, <2>1 DEF Registers, Owned, OwnedBy, Registered
    <2>4. ownerCount'[o] = IF o = a THEN ownerCount[o] + 1 ELSE ownerCount[o]
      BY <1>t, <1>3 DEF Registers
    <2>5. Cardinality(Owned(o) \cup {k}) = Cardinality(Owned(o)) + 1
      BY <2>2, OwnedCounts
    <2> QED
      BY <1>0, <1>n, <2>3, <2>4, <2>5
  <1>4. ASSUME NEW b \in Bond, Registered(k), b.owner = bonds[k].owner,
               bonds' = [bonds EXCEPT ![k] = b], UNCHANGED ownerCount
        PROVE  \E d \in {-1, 0, 1} : /\ ownerCount'[o] = ownerCount[o] + d
                                     /\ Cardinality(Owned(o)') = Cardinality(Owned(o)) + d
                                     /\ Cardinality(Owned(o)') \in Nat
    <2>1. Owned(o)' = Owned(o)
      BY <1>t, <1>4, AbsentAssumption DEF Owned, OwnedBy, Registered
    <2> QED
      BY <1>0, <1>4, <2>1
  <1>5. ASSUME NEW x \in BondAmounts, Bonds(a, k, x)
        PROVE  \E d \in {-1, 0, 1} : /\ ownerCount'[o] = ownerCount[o] + d
                                     /\ Cardinality(Owned(o)') = Cardinality(Owned(o)) + d
                                     /\ Cardinality(Owned(o)') \in Nat
    <2>1. Registered(k) /\ bonds[k] \in Bond /\ x \in Nat
      BY <1>5, RegisteredTyped, BondAssumption DEF Bonds, canBond, OwnedBy
    <2> QED
      BY <1>4, <1>5, <2>1, BondedTyped DEF Bonds
  <1>6. CASE Unbonds(a, k)
    <2>1. Registered(k) /\ bonds[k] \in Bond /\ seq \in Nat
      BY <1>6, RegisteredTyped DEF Unbonds, canUnbond, OwnedBy, LedgerTypeOK
    <2> QED
      BY <1>4, <1>6, <2>1, UnbondingTyped DEF Unbonds
  <1>7. CASE Slashes(a, k)
    <2>1. Registered(k) /\ bonds[k] \in Bond /\ seq \in Nat
      BY <1>7, RegisteredTyped DEF Slashes, canSlash, HasStatus, LedgerTypeOK
    <2> QED
      BY <1>4, <1>7, <2>1, SlashedTyped DEF Slashes
  <1>8. CASE Releases(a, k)
    <2>1. Registered(k) /\ bonds[k] \in Bond
      BY <1>8, RegisteredTyped DEF Releases, canRelease, HasStatus
    <2> DEFINE r == bonds[k].owner
    <2>2. r \in Accounts /\ (k \in Owned(o) <=> o = r)
      BY <2>1 DEF Bond, Owned, OwnedBy
    <2>3. Owned(o)' = Owned(o) \ {k}
      BY <1>t, <1>8 DEF Releases, Owned, OwnedBy, Registered
    <2>4. ownerCount'[o] = IF o = r THEN (IF ownerCount[o] > 0 THEN ownerCount[o] - 1 ELSE 0)
                           ELSE ownerCount[o]
      BY <1>t, <1>8 DEF Releases
    <2>5. o # r => Owned(o) \ {k} = Owned(o)
      BY <2>2
    <2>6. o = r => /\ Cardinality(Owned(o)) > 0
                   /\ Cardinality(Owned(o) \ {k}) = Cardinality(Owned(o)) - 1
      BY <2>2, OwnedCounts
    <2>7. CASE o = r
      <3>1. /\ ownerCount'[o] = ownerCount[o] + (-1)
            /\ Cardinality(Owned(o)') = Cardinality(Owned(o)) + (-1)
            /\ Cardinality(Owned(o)') \in Nat
        BY <1>n, <2>3, <2>4, <2>6, <2>7
      <3> QED
        BY <3>1
    <2>8. CASE o # r
      BY <1>0, <2>3, <2>4, <2>5, <2>8
    <2> QED
      BY <2>7, <2>8
  <1> QED
    BY <1>1, <1>2, <1>3, <1>5, <1>6, <1>7, <1>8

\* Every step keeps the owner counts exact.
LEMMA NextOwnerCount ==
    TypeOK /\ OwnerCountExact /\ [Next]_bondVars => OwnerCountExact'
  <1> SUFFICES ASSUME TypeOK, OwnerCountExact, [Next]_bondVars, NEW o \in Accounts
               PROVE  ownerCount'[o] = Cardinality(Owned(o)')
    BY DEF OwnerCountExact, Owned
  <1>i. LedgerTypeOK /\ ownerCount[o] = Cardinality(Owned(o))
    BY DEF TypeOK, OwnerCountExact, Owned
  <1>0. ASSUME ownerCount'[o] = ownerCount[o], Owned(o)' = Owned(o)
        PROVE  ownerCount'[o] = Cardinality(Owned(o)')
    BY <1>0, <1>i
  <1>1. ASSUME NEW a \in Accounts, NEW k \in Keys, BondTx(a, k)
        PROVE  ownerCount'[o] = Cardinality(Owned(o)')
    <2>1. Cardinality(Owned(o)) \in Nat
      BY <1>1, OwnedCounts
    <2>2. ownerCount[o] >= Cardinality(Owned(o))
      BY <1>i, <2>1
    <2>3. /\ ownerCount'[o] = ownerCount[o] + Cardinality(Owned(o)') - Cardinality(Owned(o))
          /\ Cardinality(Owned(o)') \in Nat
      BY <1>1, <1>i, <2>2, BondTxOwnerCount
    <2> QED
      BY <1>i, <2>1, <2>3
  <1>2. ASSUME NEW v \in Validation, Sign(v)
        PROVE  ownerCount'[o] = Cardinality(Owned(o)')
    BY <1>0, <1>2 DEF Sign, ledgerVars, Owned, OwnedBy, Registered
  <1>3. CASE CloseLedger
    BY <1>0, <1>3 DEF CloseLedger, Owned, OwnedBy, Registered
  <1>4. CASE UNCHANGED bondVars
    BY <1>0, <1>4 DEF bondVars, ledgerVars, Owned, OwnedBy, Registered
  <1> QED
    BY <1>1, <1>2, <1>3, <1>4 DEF Next

\* sfOwnerCount is the number of bonds an account owns, for any number of
\* accounts and keys; the guard against a count below zero in
\* ReleaseBond::doApply is never needed.
THEOREM OwnerCountAlwaysExact == Spec => []OwnerCountExact
  <1>1. Init => OwnerCountExact
    <2> SUFFICES ASSUME Init, NEW a \in Accounts
                 PROVE  ownerCount[a] = Cardinality({k \in Keys : OwnedBy(k, a)})
      BY DEF OwnerCountExact
    <2>1. {k \in Keys : OwnedBy(k, a)} = {}
      BY DEF Init, LedgerInit, OwnedBy, Registered
    <2> QED
      BY <2>1, FS_EmptySet DEF Init, LedgerInit
  <1> QED
    BY <1>1, TypeCorrect, NextOwnerCount, PTL DEF Spec

-----------------------------------------------------------------------------
(* The supply                                                              *)

\* The slash of a bond takes its drops out of circulation and out of the
\* header, on top of the fee.
LEMMA SlashSupply ==
    ASSUME LedgerTypeOK, SupplyIsHeld, NEW a \in Accounts, NEW k \in Keys,
           NEW e1, NEW e2, ValidatorSlash(a, k, e1, e2)
    PROVE  SupplyIsHeld'
  <1> DEFINE v == slashApply(PayFee(a), k)
  <1>1. CASE ClaimFee(a)
    BY <1>1, ClaimFeeSupply
  <1>2. CASE balance[a] >= Fee /\ canSlash(k, e1, e2) /\ Commit(v, Fee)
    <2>1. /\ ViewOK(v) /\ v.burned = bonds[k].amount
          /\ v.balance = [balance EXCEPT ![a] = @ - Fee]
      BY <1>2, SlashView DEF canSlash, HasStatus
    <2>2. /\ v.balance = [[balance EXCEPT ![a] = @ - Fee]
                            EXCEPT ![bonds[k].owner] = @ + Slashed(bonds[k]).amount]
          /\ v.bonds = [bonds EXCEPT ![k] = Slashed(bonds[k])]
          /\ v.burned = 0 + SlashedDrops(bonds[k])
          /\ v.ownerCount = ownerCount
          /\ v.treasury = treasury /\ v.names = names /\ v.nameOf = nameOf
          /\ v.epoch = epoch
      BY SlashFields
    <2> HIDE DEF v
    <2>3. /\ bonds[k] \in Bond /\ bonds \in [Keys -> Bond \cup {NoBond}]
          /\ seq \in Nat /\ balance \in [Accounts -> Nat]
          /\ bonds[k].amount \in Nat
      BY <1>2, RegisteredTyped DEF canSlash, HasStatus, LedgerTypeOK, Bond
    <2>4. Slashed(bonds[k]) \in Bond /\ Slashed(bonds[k]).amount = 0
      BY <2>3, SlashedTyped
    <2>5. BondDrops(bonds[k]) = bonds[k].amount /\ BondDrops(Slashed(bonds[k])) = 0
      BY <2>3, <2>4, AbsentAssumption DEF BondDrops
    <2>6. BondedDrops(v.bonds) = BondedDrops(bonds) - bonds[k].amount + 0
      <3> DEFINE b == Slashed(bonds[k])
      <3>1. b \in Bond \cup {NoBond} /\ BondDrops(b) = 0
        BY <2>4, <2>5
      <3> HIDE DEF b
      <3>2. BondedDrops([bonds EXCEPT ![k] = b])
              = BondedDrops(bonds) - BondDrops(bonds[k]) + BondDrops(b)
        BY <2>3, <3>1, BondedUpdate
      <3> QED
        BY <2>2, <2>5, <3>1, <3>2 DEF b
    <2>7. SumFunction(v.balance) = SumFunction(balance) - balance[a] + (balance[a] - Fee)
      <3>1. /\ balance \in [Accounts -> Int] /\ v.balance \in [Accounts -> Int]
            /\ v.balance[a] = balance[a] - Fee
            /\ \A y \in Accounts : y # a => balance[y] = v.balance[y]
        BY <2>1, <2>3, FeeAssumption
      <3> QED
        BY <3>1, FiniteAssumption, SumUpdate
    <2>8. /\ SumFunction(balance) \in Nat /\ BondedDrops(bonds) \in Nat
          /\ NameDrops(names) \in Nat /\ treasury \in Nat /\ balance[a] \in Nat
      <3>1. ViewOK(View) /\ View.balance = balance /\ View.bonds = bonds
              /\ View.names = names
        BY ViewTyped DEF View
      <3> QED
        BY <2>3, <3>1, HeldTyped DEF LedgerTypeOK
    <2>9. HeldDrops(v) = SumFunction(v.balance) + treasury + BondedDrops(v.bonds)
                           + NameDrops(names)
      BY <2>2 DEF HeldDrops
    <2>10. HeldDrops(v) = HeldDrops(View) - Fee - v.burned
      BY <2>1, <2>3, <2>6, <2>7, <2>8, <2>9, FeeAssumption, ViewTyped
    <2> QED
      BY <1>2, <2>1, <2>10, FeeAssumption, CommitSupply
  <1> QED
    BY <1>1, <1>2 DEF ValidatorSlash, Transact, Succeeds

\* Every bond transaction keeps the header's supply true.
LEMMA BondTxSupply ==
    ASSUME LedgerTypeOK, SupplyIsHeld, NEW a \in Accounts, NEW k \in Keys, BondTx(a, k)
    PROVE  SupplyIsHeld'
  <1>1. CASE ValidatorRegister(a, k)
    <2>1. \A v : v = registerApply(PayFee(a), a, k) /\ balance[a] >= Fee
                   => ViewOK(v) /\ v.burned = 0
      BY RegisterView
    <2> QED
      BY <1>1, <2>1, TransactSupply DEF ValidatorRegister, Succeeds
  <1>2. ASSUME NEW x \in BondAmounts, ValidatorBond(a, k, x)
        PROVE  SupplyIsHeld'
    <2>1. x \in Nat
      BY BondAssumption
    <2>2. \A v : v = bondApply(PayFee(a), a, k, x) /\ balance[a] >= Fee /\ canBond(a, k, x)
                   => ViewOK(v) /\ v.burned = 0
      BY <2>1, BondView
    <2> QED
      BY <1>2, <2>2, TransactSupply DEF ValidatorBond, Succeeds
  <1>3. CASE ValidatorUnbond(a, k)
    <2>1. \A v : v = unbondApply(PayFee(a), k) /\ balance[a] >= Fee /\ canUnbond(a, k)
                   => ViewOK(v) /\ v.burned = 0
      BY UnbondView
    <2> QED
      BY <1>3, <2>1, TransactSupply DEF ValidatorUnbond, Succeeds
  <1>4. CASE ReleaseBond(a, k)
    <2>1. \A v : v = releaseApply(PayFee(a), k) /\ balance[a] >= Fee /\ canRelease(k)
                   => ViewOK(v) /\ v.burned = 0
      BY ReleaseView
    <2> QED
      BY <1>4, <2>1, TransactSupply DEF ReleaseBond, Succeeds
  <1>5. ASSUME NEW e1 \in Validation, NEW e2 \in Validation, ValidatorSlash(a, k, e1, e2)
        PROVE  SupplyIsHeld'
    BY <1>5, SlashSupply
  <1> QED
    BY <1>1, <1>2, <1>3, <1>4, <1>5 DEF BondTx

\* Steps that leave all drops where they are.
LEMMA SupplyKept ==
    ASSUME SupplyIsHeld, UNCHANGED <<balance, treasury, drops, names>>,
           BondedDrops(bonds') = BondedDrops(bonds)
    PROVE  SupplyIsHeld'
  <1>1. /\ HeldDrops(View) = SumFunction(balance) + treasury
                               + BondedDrops(bonds) + NameDrops(names)
        /\ HeldDrops(View)' = SumFunction(balance') + treasury'
                               + BondedDrops(bonds') + NameDrops(names')
    BY DEF HeldDrops, View
  <1> QED
    BY <1>1 DEF SupplyIsHeld

\* The genesis supply is what the genesis accounts and the treasury hold.
LEMMA InitSupply == Init => SupplyIsHeld
  <1> SUFFICES ASSUME Init PROVE SupplyIsHeld
    OBVIOUS
  <1>1. SumFunction(balance) = Cardinality(Accounts) * InitialBalance
    BY FiniteAssumption, BondAssumption, SumOfConstant DEF Init, LedgerInit
  <1>2. BondedDrops(bonds) = 0
    <2> DEFINE f == [k \in Keys |-> IF bonds[k] = NoBond THEN 0 ELSE bonds[k].amount]
    <2>1. f = [k \in Keys |-> 0]
      BY DEF Init, LedgerInit
    <2> HIDE DEF f
    <2>2. SumFunction(f) = Cardinality(Keys) * 0
      BY <2>1, FiniteAssumption, SumOfConstant
    <2> QED
      BY <2>2, FiniteAssumption, FS_CardinalityType DEF BondedDrops, f
  <1>3. NameDrops(names) = 0
    <2> DEFINE f == [n \in Names |-> IF names[n] = NoName THEN 0 ELSE names[n].amount]
    <2>1. f = [n \in Names |-> 0]
      BY DEF Init, LedgerInit
    <2> HIDE DEF f
    <2>2. SumFunction(f) = Cardinality(Names) * 0
      BY <2>1, FiniteAssumption, SumOfConstant
    <2> QED
      BY <2>2, FiniteAssumption, FS_CardinalityType DEF NameDrops, f
  <1>4. HeldDrops(View) = SumFunction(balance) + treasury + BondedDrops(bonds)
                            + NameDrops(names)
    BY DEF HeldDrops, View
  <1>5. /\ Cardinality(Accounts) \in Nat /\ InitialBalance \in Nat /\ InitialTreasury \in Nat
        /\ treasury = InitialTreasury
        /\ drops = Cardinality(Accounts) * InitialBalance + InitialTreasury
    BY FiniteAssumption, BondAssumption, FS_CardinalityType DEF Init, LedgerInit
  <1> QED
    BY <1>1, <1>2, <1>3, <1>4, <1>5 DEF SupplyIsHeld

\* Every step keeps the header's supply true.
LEMMA NextSupply ==
    TypeOK /\ SupplyIsHeld /\ [Next]_bondVars => SupplyIsHeld'
  <1> SUFFICES ASSUME TypeOK, SupplyIsHeld, [Next]_bondVars PROVE SupplyIsHeld'
    OBVIOUS
  <1>1. ASSUME NEW a \in Accounts, NEW k \in Keys, BondTx(a, k)
        PROVE  SupplyIsHeld'
    BY <1>1, BondTxSupply DEF TypeOK
  <1>2. ASSUME NEW v \in Validation, Sign(v)
        PROVE  SupplyIsHeld'
    BY <1>2, SupplyKept DEF Sign, ledgerVars
  <1>3. CASE CloseLedger
    BY <1>3, SupplyKept DEF CloseLedger
  <1>4. CASE UNCHANGED bondVars
    BY <1>4, SupplyKept DEF bondVars, ledgerVars
  <1> QED
    BY <1>1, <1>2, <1>3, <1>4 DEF Next

\* The supply in the ledger header is, to the drop, what accounts, treasury,
\* bonds and names hold, for any number of accounts and keys and along every
\* sequence of fee splits, bond moves, slashes and releases: nothing is minted,
\* lost or burned off the books.
THEOREM SupplyAlwaysHeld == Spec => []SupplyIsHeld
  BY InitSupply, TypeCorrect, NextSupply, PTL DEF Spec

-----------------------------------------------------------------------------
(* The bonds implement the abstract escrow TimedEscrow. The refinement     *)
(* maps a bond without drops to an empty slot. A registration, and the     *)
(* slash or release of an empty bond, is then a Charge; the other effects  *)
(* of BondTxEffect map to one action each. That a BONDED bond is not empty *)
(* is taken from BondsWellFormed.                                          *)

\* What the slot of a bond looks like in each state of the bond.
LEMMA SlotOf ==
    ASSUME NEW b \in Bond
    PROVE  /\ EscrowSlot(NoBond) = Escrow!Empty
           /\ b.amount = 0 => EscrowSlot(b) = Escrow!Empty
           /\ b.amount # 0 /\ b.status # "UNBONDING"
                => EscrowSlot(b) = Escrow!Held(b.owner, b.amount)
           /\ b.amount # 0 /\ b.status = "UNBONDING"
                => EscrowSlot(b) = Escrow!Leaving(b.owner, b.amount, b.start)
  BY AbsentAssumption DEF EscrowSlot, Escrow!Empty, Escrow!Held, Escrow!Leaving

\* A transaction that writes one bond writes one slot.
LEMMA OneSlot ==
    ASSUME bonds \in [Keys -> Bond \cup {NoBond}], NEW k \in Keys, NEW b,
           bonds' = [bonds EXCEPT ![k] = b]
    PROVE  EscrowSlots' = [EscrowSlots EXCEPT ![k] = EscrowSlot(b)]
  BY DEF EscrowSlots, EscrowSlot

\* Writing to a slot what it holds changes nothing.
LEMMA SameSlot ==
    ASSUME NEW k \in Keys, EscrowSlots' = [EscrowSlots EXCEPT ![k] = EscrowSlots[k]]
    PROVE  EscrowSlots' = EscrowSlots
  BY DEF EscrowSlots

\* An account that pays a fee, and nobody else, loses drops.
LEMMA FeeOnly ==
    ASSUME balance \in [Accounts -> Nat], NEW a \in Accounts, NEW fee \in 0..Fee,
           balance' = [balance EXCEPT ![a] = @ - fee]
    PROVE  Escrow!NobodyGains
  BY FeeAssumption DEF Escrow!NobodyGains, Escrow!LessFee

\* The genesis ledger is an escrow of empty slots.
LEMMA EscrowInit == Init => Escrow!Init
  <1> SUFFICES ASSUME Init PROVE Escrow!Init
    OBVIOUS
  <1>1. EscrowSlots = [k \in Keys |-> Escrow!Empty]
    BY DEF Init, LedgerInit, EscrowSlots, EscrowSlot, Escrow!Empty
  <1>2. balance \in [Accounts -> Nat] /\ seq \in Nat
    BY BondAssumption DEF Init, LedgerInit
  <1>3. Equivocators = {}
    BY DEF Init, Equivocators, Equivocated
  <1> QED
    BY <1>1, <1>2, <1>3 DEF Escrow!Init

\* Every bond transaction is a step of the escrow.
LEMMA EscrowTx ==
    ASSUME TypeOK, BondsWellFormed,
           NEW a \in Accounts, NEW k \in Keys, BondTx(a, k)
    PROVE  Escrow!Next
  <1>t. /\ LedgerTypeOK /\ bonds \in [Keys -> Bond \cup {NoBond}]
        /\ balance \in [Accounts -> Nat] /\ seq \in Nat
    BY DEF TypeOK, LedgerTypeOK
  <1>0. /\ Untouched /\ UNCHANGED signed
        /\ \/ Charged(a)
           \/ Registers(a, k)
           \/ \E x \in BondAmounts : Bonds(a, k, x)
           \/ Unbonds(a, k)
           \/ Releases(a, k)
           \/ Slashes(a, k)
    BY <1>t, BondTxEffect
  <1>u. UNCHANGED <<Equivocators, seq>>
    BY <1>0 DEF Untouched, Equivocators, Equivocated
  <1>k. EscrowSlots[k] = EscrowSlot(bonds[k])
    BY DEF EscrowSlots
  <1>c. ASSUME Escrow!NobodyGains, EscrowSlots' = EscrowSlots
        PROVE  Escrow!Next
    BY <1>c, <1>u DEF Escrow!Next, Escrow!Charge
  <1>f. ASSUME balance' = [balance EXCEPT ![a] = @ - Fee]
        PROVE  Escrow!NobodyGains
    <2>1. Fee \in 0..Fee
      BY FeeAssumption
    <2> QED
      BY <1>t, <1>f, <2>1, FeeOnly
  <1>1. CASE Charged(a)
    <2>1. EscrowSlots' = EscrowSlots
      BY <1>1 DEF Charged, EscrowSlots
    <2>2. Escrow!NobodyGains
      BY <1>t, <1>1, FeeOnly DEF Charged
    <2> QED
      BY <1>c, <2>1, <2>2
  <1>2. CASE Registers(a, k)
    <2>1. FreshBond(a) \in Bond /\ FreshBond(a).amount = 0 /\ bonds[k] = NoBond
      BY <1>2, FreshBondTyped DEF FreshBond, Registers, Registered
    <2>2. EscrowSlot(FreshBond(a)) = EscrowSlots[k]
      BY <1>k, <2>1, SlotOf
    <2>3. EscrowSlots' = EscrowSlots
      BY <1>t, <1>2, <2>2, OneSlot, SameSlot DEF Registers
    <2> QED
      BY <1>2, <1>c, <1>f, <2>3 DEF Registers
  <1>3. ASSUME NEW x \in BondAmounts, Bonds(a, k, x)
        PROVE  Escrow!Next
    <2>1. /\ Registered(k) /\ bonds[k] \in Bond /\ bonds[k].owner = a
          /\ bonds[k].status = "REGISTERED" /\ x \in Nat /\ x # 0
      BY <1>t, <1>3, RegisteredTyped, BondAssumption
         DEF Bonds, canBond, OwnedBy, HasStatus, bondPreflight
    <2>2. bonds[k].amount = 0
      BY <2>1 DEF BondsWellFormed, BondShape
    <2>3. EscrowSlots[k] = Escrow!Empty
      BY <1>k, <2>1, <2>2, SlotOf
    <2>4. EscrowSlot(Bonded(bonds[k], x)) = Escrow!Held(a, x)
      BY <2>1, BondedTyped, SlotOf
    <2>5. EscrowSlots' = [EscrowSlots EXCEPT ![k] = Escrow!Held(a, x)]
      BY <1>t, <1>3, <2>4, OneSlot DEF Bonds
    <2>6. Escrow!OnlyGains(a, -x)
      <3>1. balance' = [[balance EXCEPT ![a] = @ - Fee] EXCEPT ![a] = @ - x]
        BY <1>3 DEF Bonds
      <3> QED
        BY <1>t, <2>1, <3>1, FeeAssumption DEF Escrow!OnlyGains, Escrow!LessFee
    <2>7. Escrow!Put(k, a, x)
      BY <1>u, <2>3, <2>5, <2>6 DEF Escrow!Put
    <2> QED
      BY <2>7 DEF Escrow!Next
  <1>4. CASE Unbonds(a, k)
    <2>1. /\ Registered(k) /\ bonds[k] \in Bond /\ bonds[k].status = "BONDED"
      BY <1>t, <1>4, RegisteredTyped DEF Unbonds, canUnbond, OwnedBy, HasStatus
    <2>2. bonds[k].amount # 0
      BY <2>1, BondAssumption DEF BondsWellFormed, BondShape
    <2>3. EscrowSlots[k] = Escrow!Held(bonds[k].owner, bonds[k].amount)
      BY <1>k, <2>1, <2>2, SlotOf
    <2>4. EscrowSlot(Unbonding(bonds[k]))
            = Escrow!Leaving(bonds[k].owner, bonds[k].amount, seq)
      BY <1>t, <2>1, <2>2, UnbondingTyped, SlotOf
    <2>5. /\ EscrowSlots[k].phase = "held"
          /\ EscrowSlots[k].owner = bonds[k].owner
          /\ EscrowSlots[k].amount = bonds[k].amount
      BY <2>3 DEF Escrow!Held
    <2>6. EscrowSlots' = [EscrowSlots EXCEPT ![k] = Escrow!Leaving(@.owner, @.amount, seq)]
      <3>1. EscrowSlots' = [EscrowSlots EXCEPT ![k] =
              Escrow!Leaving(bonds[k].owner, bonds[k].amount, seq)]
        BY <1>t, <1>4, <2>4, OneSlot DEF Unbonds
      <3> QED
        BY <2>5, <3>1
    <2>7. Escrow!BeginExit(k)
      BY <1>4, <1>f, <1>u, <2>5, <2>6 DEF Unbonds, Escrow!BeginExit
    <2> QED
      BY <2>7 DEF Escrow!Next
  <1>5. CASE Releases(a, k)
    <2>1. /\ bonds[k] \in Bond /\ bonds[k].status = "UNBONDING"
          /\ seq >= bonds[k].start + LockLedgers
      BY <1>t, <1>5, RegisteredTyped DEF Releases, canRelease, HasStatus
    <2> DEFINE o == bonds[k].owner
               x == bonds[k].amount
    <2>2. o \in Accounts /\ x \in Nat
      BY <2>1 DEF Bond
    <2>3. EscrowSlots' = [EscrowSlots EXCEPT ![k] = Escrow!Empty]
      BY <1>t, <1>5, <2>1, OneSlot, SlotOf DEF Releases
    <2>4. Escrow!OnlyGains(o, x)
      <3> HIDE DEF o, x
      <3> DEFINE w == [balance EXCEPT ![a] = @ - Fee]
      <3>1. balance' = [w EXCEPT ![o] = @ + x]
        BY <1>5 DEF Releases, o, x
      <3>2. /\ w \in [Accounts -> Int]
            /\ \A p \in Accounts : w[p] = balance[p] - (IF p = a THEN Fee ELSE 0)
        BY <1>t, FeeAssumption
      <3> HIDE DEF w
      <3>3. ASSUME NEW p \in Accounts
            PROVE  balance'[p] = balance[p] + (IF p = o THEN x ELSE 0)
                                   - (IF p = a THEN Fee ELSE 0)
        BY <1>t, <2>2, <3>1, <3>2, FeeAssumption
      <3>4. \A p \in Accounts : (IF p = a THEN Fee ELSE 0) \in 0..Fee
        BY FeeAssumption
      <3> QED
        BY <3>3, <3>4 DEF Escrow!OnlyGains, Escrow!LessFee
    <2>5. CASE x = 0
      <3>1. EscrowSlots' = EscrowSlots
        BY <1>k, <2>1, <2>3, <2>5, SlotOf, SameSlot
      <3>2. Escrow!NobodyGains
        BY <2>4, <2>5 DEF Escrow!OnlyGains, Escrow!NobodyGains
      <3> QED
        BY <1>c, <3>1, <3>2
    <2>6. CASE x # 0
      <3>1. EscrowSlots[k] = Escrow!Leaving(o, x, bonds[k].start)
        BY <1>k, <2>1, <2>6, SlotOf
      <3>2. /\ EscrowSlots[k].phase = "leaving" /\ EscrowSlots[k].owner = o
            /\ EscrowSlots[k].amount = x /\ EscrowSlots[k].since = bonds[k].start
        BY <3>1 DEF Escrow!Leaving
      <3>3. Escrow!Withdraw(k)
        BY <1>u, <2>1, <2>3, <2>4, <3>2 DEF Escrow!Withdraw
      <3> QED
        BY <3>3 DEF Escrow!Next
    <2> QED
      BY <2>5, <2>6
  <1>6. CASE Slashes(a, k)
    <2>1. /\ bonds[k] \in Bond /\ Equivocated(k)
          /\ bonds[k].status # "UNBONDING"
      BY <1>t, <1>6, RegisteredTyped
         DEF Slashes, canSlash, HasStatus, verifyDoubleSignEvidence, Equivocated
    <2>2. EscrowSlots' = [EscrowSlots EXCEPT ![k] = Escrow!Empty]
      <3>1. Slashed(bonds[k]) \in Bond /\ Slashed(bonds[k]).amount = 0
        BY <1>t, <2>1, SlashedTyped
      <3>2. EscrowSlot(Slashed(bonds[k])) = Escrow!Empty
        BY <3>1, SlotOf
      <3> QED
        BY <1>t, <1>6, <3>2, OneSlot DEF Slashes
    <2>3. Escrow!NobodyGains
      BY <1>6, <1>f DEF Slashes
    <2>4. CASE bonds[k].amount = 0
      <3>1. EscrowSlots' = EscrowSlots
        BY <1>k, <2>1, <2>2, <2>4, SlotOf, SameSlot
      <3> QED
        BY <1>c, <2>3, <3>1
    <2>5. CASE bonds[k].amount # 0
      <3>1. EscrowSlots[k] # Escrow!Empty
        <4>1. EscrowSlots[k].phase = "held" /\ Escrow!Empty.phase = "empty"
          BY <1>k, <2>1, <2>5, SlotOf DEF Escrow!Held, Escrow!Empty
        <4> QED
          BY <4>1
      <3>2. Escrow!Forfeit(k)
        BY <1>u, <2>1, <2>2, <2>3, <3>1 DEF Escrow!Forfeit, Equivocators
      <3> QED
        BY <3>2 DEF Escrow!Next
    <2> QED
      BY <2>4, <2>5
  <1> QED
    BY <1>0, <1>1, <1>2, <1>3, <1>4, <1>5, <1>6

\* Every step of the ledger is a step of the escrow or leaves it alone.
LEMMA EscrowNext ==
    TypeOK /\ BondsWellFormed /\ [Next]_bondVars => [Escrow!Next]_(Escrow!vars)
  <1> SUFFICES ASSUME TypeOK, BondsWellFormed, [Next]_bondVars
               PROVE  Escrow!Next \/ UNCHANGED Escrow!vars
    OBVIOUS
  <1>1. ASSUME NEW a \in Accounts, NEW k \in Keys, BondTx(a, k)
        PROVE  Escrow!Next
    BY <1>1, EscrowTx
  <1>2. ASSUME NEW v \in Validation, Sign(v)
        PROVE  Escrow!Next
    <2>1. UNCHANGED <<EscrowSlots, balance, seq>>
      BY <1>2 DEF Sign, ledgerVars, EscrowSlots
    <2>2. Equivocators' \in SUBSET Keys /\ Equivocators \subseteq Equivocators'
      BY <1>2 DEF Sign, Equivocators, Equivocated
    <2> QED
      BY <2>1, <2>2 DEF Escrow!Next, Escrow!Convict
  <1>3. CASE CloseLedger
    <2>1. seq' = seq + 1 /\ UNCHANGED <<EscrowSlots, balance, Equivocators>>
      BY <1>3 DEF CloseLedger, NextLedger, EscrowSlots, Equivocators, Equivocated
    <2> QED
      BY <2>1 DEF Escrow!Next, Escrow!Tick
  <1>4. CASE UNCHANGED bondVars
    BY <1>4 DEF bondVars, ledgerVars, Escrow!vars, EscrowSlots, Equivocators, Equivocated
  <1> QED
    BY <1>1, <1>2, <1>3, <1>4 DEF Next

\* The drops in a bond come back to its registrant only, in full and no sooner
\* than the lock allows, whoever submits the release, and are destroyed only on
\* proof of a double sign: the five bond transactors implement the abstract
\* escrow, whatever the size of the system.
THEOREM BondsImplementEscrow == Spec => BondsAreEscrowed
  BY EscrowInit, EscrowNext, TypeCorrect, BondsAlwaysWellFormed, PTL
     DEF Spec, BondsAreEscrowed, Escrow!Spec

=============================================================================
