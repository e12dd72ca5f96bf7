------------------------- MODULE Governance_proofs -------------------------
(***************************************************************************)
(* Theorems about governance for every number of validators, proposals and *)
(* epochs: what the list of open proposals holds, that a ratified value    *)
(* has votes behind it and that an outcome is final; and that rewards and  *)
(* bonds keep their invariants when governance shares the epoch object.    *)
(***************************************************************************)
EXTENDS Governance, LPRewards_proofs

-----------------------------------------------------------------------------
(* The list that pruning leaves                                            *)

\* g is the table that pruning s to the members of K fills up to entry n.
Prunes(g, s, K, n) ==
    g = [i \in 0..n |-> IF i = 0 THEN <<>>
                        ELSE IF s[i] \in K THEN Append(g[i - 1], s[i]) ELSE g[i - 1]]

\* Induction over the entries of a list. The property is given as a set.
LEMMA UpTo ==
    ASSUME NEW n \in Nat, NEW P, 0 \in P,
           \A i \in 1..n : i - 1 \in P => i \in P
    PROVE  \A i \in 0..n : i \in P
  <1> SUFFICES ASSUME NEW i \in 0..n, i \notin P PROVE FALSE
    OBVIOUS
  <1> DEFINE T == {j \in 0..n : j \notin P}
  <1>1. T \in SUBSET Nat /\ i \in T
    OBVIOUS
  <1> HIDE DEF T
  <1>2. PICK m \in T : \A j \in T : m <= j
    BY <1>1, LeastNat
  <1>3. m \in 0..n /\ m \notin P
    BY <1>2 DEF T
  <1>4. m \in 1..n /\ m - 1 \in 0..n
    BY <1>3
  <1>5. m - 1 \notin T
    BY <1>2, <1>3
  <1> QED
    BY <1>3, <1>4, <1>5 DEF T

\* The loop can be run to the end.
LEMMA PruneExists ==
    ASSUME NEW s, NEW K, NEW n \in Nat
    PROVE  \E g : Prunes(g, s, K, n)
  <1> DEFINE P == {i \in 0..n : \E g : Prunes(g, s, K, i)}
  <1>1. 0 \in P
    <2> DEFINE g == [i \in 0..0 |-> <<>>]
    <2>1. Prunes(g, s, K, 0)
      BY DEF Prunes
    <2> QED
      BY <2>1
  <1>2. ASSUME NEW i \in 1..n, i - 1 \in P
        PROVE  i \in P
    <2>1. PICK g : Prunes(g, s, K, i - 1)
      BY <1>2
    <2> DEFINE x == IF s[i] \in K THEN Append(g[i - 1], s[i]) ELSE g[i - 1]
               h == [j \in 0..i |-> IF j = i THEN x ELSE g[j]]
    <2>2. ASSUME NEW j \in 0..i
          PROVE  h[j] = IF j = 0 THEN <<>>
                        ELSE IF s[j] \in K THEN Append(h[j - 1], s[j]) ELSE h[j - 1]
      <3>1. CASE j = i
        <4>1. h[j] = x /\ h[j - 1] = g[j - 1] /\ j # 0
          BY <3>1
        <4> QED
          BY <3>1, <4>1
      <3>2. CASE j # i
        <4>1. j \in 0..(i - 1)
          BY <3>2
        <4>2. g[j] = IF j = 0 THEN <<>>
                     ELSE IF s[j] \in K THEN Append(g[j - 1], s[j]) ELSE g[j - 1]
          BY <2>1, <4>1 DEF Prunes
        <4>3. h[j] = g[j]
          BY <3>2
        <4>4. j # 0 => h[j - 1] = g[j - 1]
          BY <4>1
        <4> HIDE DEF h
        <4> QED
          BY <4>2, <4>3, <4>4
      <3> QED
        BY <3>1, <3>2
    <2>3. h = [j \in 0..i |-> h[j]]
      OBVIOUS
    <2> HIDE DEF h
    <2>4. Prunes(h, s, K, i)
      BY <2>2, <2>3 DEF Prunes
    <2> QED
      BY <2>4
  <1> HIDE DEF P
  <1>3. n \in P
    BY <1>1, <1>2, UpTo
  <1> QED
    BY <1>3 DEF P

\* Adding a new member to a list of different members.
LEMMA AppendOnce ==
    ASSUME NEW S, NEW t \in Seq(S), NEW x \in S, IsInjective(t), x \notin Range(t)
    PROVE  /\ Append(t, x) \in Seq(S)
           /\ IsInjective(Append(t, x))
           /\ Range(Append(t, x)) = Range(t) \cup {x}
  <1> DEFINE u == Append(t, x)
  <1>1. /\ u \in Seq(S) /\ DOMAIN u = 1..(Len(t) + 1) /\ Len(t) \in Nat
        /\ DOMAIN t = 1..Len(t) /\ u[Len(t) + 1] = x
        /\ \A i \in 1..Len(t) : u[i] = t[i]
    OBVIOUS
  <1> HIDE DEF u
  <1>2. \A i \in DOMAIN u : i \in DOMAIN t \/ i = Len(t) + 1
    BY <1>1
  <1>3. Range(u) = Range(t) \cup {x}
    <2>1. \A y \in Range(u) : y \in Range(t) \cup {x}
      BY <1>1, <1>2 DEF Range
    <2>2. \A y \in Range(t) : y \in Range(u)
      BY <1>1 DEF Range
    <2>3. x \in Range(u)
      BY <1>1 DEF Range
    <2> QED
      BY <2>1, <2>2, <2>3
  <1>4. IsInjective(u)
    <2> SUFFICES ASSUME NEW i \in DOMAIN u, NEW j \in DOMAIN u, u[i] = u[j]
                 PROVE  i = j
      BY DEF IsInjective
    <2>1. CASE i \in DOMAIN t /\ j \in DOMAIN t
      BY <1>1, <2>1 DEF IsInjective
    <2>2. CASE i \in DOMAIN t /\ j \notin DOMAIN t
      BY <1>1, <1>2, <2>2 DEF Range
    <2>3. CASE i \notin DOMAIN t /\ j \in DOMAIN t
      BY <1>1, <1>2, <2>3 DEF Range
    <2>4. CASE i \notin DOMAIN t /\ j \notin DOMAIN t
      BY <1>2, <2>4
    <2> QED
      BY <2>1, <2>2, <2>3, <2>4
  <1> QED
    BY <1>1, <1>3, <1>4 DEF u

\* Pruning a list of different members keeps the ones in K, each once.
LEMMA RemainingOnce ==
    ASSUME NEW S, NEW s \in Seq(S), NEW K, IsInjective(s)
    PROVE  /\ remaining(s, K) \in Seq(S)
           /\ IsInjective(remaining(s, K))
           /\ Range(remaining(s, K)) \subseteq Range(s) \cap K
  <1> DEFINE n == Len(s)
             r == CHOOSE g : Prunes(g, s, K, n)
  <1>1. n \in Nat /\ DOMAIN s = 1..n
    OBVIOUS
  <1>2. remaining(s, K) = r[n]
    BY DEF remaining, Prunes
  <1> HIDE DEF r, n
  <1>3. Prunes(r, s, K, n)
    BY <1>1, PruneExists DEF r
  <1>4. \A i \in 0..n : r[i] = IF i = 0 THEN <<>>
                        ELSE IF s[i] \in K THEN Append(r[i - 1], s[i]) ELSE r[i - 1]
    BY <1>3 DEF Prunes
  <1> DEFINE Upto(i) == {s[j] : j \in 1..i}
             Good(i) == /\ r[i] \in Seq(S) /\ IsInjective(r[i])
                        /\ Range(r[i]) \subseteq Upto(i)
                        /\ Range(r[i]) \subseteq K
             P == {i \in 0..n : Good(i)}
  <1>5. 0 \in P
    <2>1. r[0] = <<>> /\ 0 \in 0..n
      BY <1>1, <1>4
    <2>2. <<>> \in Seq(S) /\ IsInjective(<<>>) /\ Range(<<>>) = {}
      BY DEF IsInjective, Range
    <2>3. Good(0)
      BY <2>1, <2>2
    <2> QED
      BY <2>1, <2>3
  <1>6. ASSUME NEW i \in 1..n, i - 1 \in P
        PROVE  i \in P
    <2> DEFINE t == r[i - 1]
    <2>0. i \in 0..n /\ i # 0 /\ i - 1 \in 0..n /\ i - 1 \in Nat /\ i \in DOMAIN s
      BY <1>1
    <2>1. r[i] = IF s[i] \in K THEN Append(t, s[i]) ELSE t
      BY <1>4, <2>0
    <2>2. Good(i - 1)
      BY <1>6
    <2>3. s[i] \in S /\ s[i] \notin Upto(i - 1)
      <3>1. \A j \in 1..(i - 1) : j \in DOMAIN s /\ j # i
        BY <1>1
      <3> QED
        BY <2>0, <3>1 DEF IsInjective
    <2>4. Upto(i - 1) \subseteq Upto(i) /\ s[i] \in Upto(i)
      BY <1>1
    <2>5. /\ t \in Seq(S) /\ IsInjective(t)
          /\ Range(t) \subseteq Upto(i - 1) /\ Range(t) \subseteq K
      BY <2>2
    <2> HIDE DEF t, Upto
    <2>6. CASE s[i] \notin K
      <3>1. r[i] = t
        BY <2>1, <2>6
      <3>2. Good(i)
        BY <2>4, <2>5, <3>1
      <3> QED
        BY <2>0, <3>2
    <2>7. CASE s[i] \in K
      <3>1. r[i] = Append(t, s[i]) /\ s[i] \notin Range(t)
        BY <2>1, <2>3, <2>5, <2>7
      <3>2. /\ r[i] \in Seq(S) /\ IsInjective(r[i])
            /\ Range(r[i]) = Range(t) \cup {s[i]}
        BY <2>3, <2>5, <3>1, AppendOnce
      <3>3. Good(i)
        BY <2>4, <2>5, <2>7, <3>2
      <3> QED
        BY <2>0, <3>3
    <2> QED
      BY <2>6, <2>7
  <1> HIDE DEF P
  <1>7. \A i \in 0..n : i \in P
    BY <1>1, <1>5, <1>6, UpTo
  <1>8. n \in 0..n
    BY <1>1
  <1>9. Good(n)
    BY <1>7, <1>8 DEF P
  <1>10. Upto(n) = Range(s)
    BY <1>1 DEF Range
  <1> QED
    BY <1>2, <1>9, <1>10

-----------------------------------------------------------------------------
(* What each step does to the list, the proposals and the parameter.       *)

\* The list of open proposals, empty as long as there is no epoch.
OpenList(e) == IF e = NoEpoch THEN <<>> ELSE e.proposals

\* The list of an epoch is a sequence of proposals.
LEMMA ListTyped ==
    ASSUME NEW e \in Epoch \cup {NoEpoch}
    PROVE  OpenList(e) \in Seq(Proposals)
  BY DEF OpenList, Epoch

\* Replacing the list keeps an epoch well typed and the rest of it.
LEMMA RelistTyped ==
    ASSUME NEW e \in Epoch, NEW s \in Seq(Proposals), NEW d, d = [e EXCEPT !.proposals = s]
    PROVE  d \in Epoch /\ d # NoEpoch /\ d.proposals = s /\ Relisted(e, d)
  <1>1. d \in Epoch
    BY DEF Epoch
  <1>2. /\ d.proposals = s
        /\ d.number = e.number /\ d.start = e.start /\ d.pool = e.pool
        /\ d.emission = e.emission /\ d.lpBps = e.lpBps /\ d.lpShares = e.lpShares
        /\ d.aggregate = e.aggregate
    BY DEF Epoch
  <1> QED
    BY <1>1, <1>2, AbsentAssumption DEF Relisted

\* What leaves the governance side of the ledger as it is.
Quiet ==
    /\ seq' = seq /\ OpenList(epoch') = OpenList(epoch)
    /\ UNCHANGED <<proposals, params, unreadable>>

\* No transaction of the bonds, the rewards or the positions touches the list:
\* a payment changes the pool of the epoch only.
LEMMA RewardQuiet ==
    ASSUME LpTypeOK, TokensBounded, RewardTx, UNCHANGED <<proposals, params, unreadable>>
    PROVE  LpTypeOK' /\ TokensBounded' /\ Quiet
  <1>1. LpTypeOK' /\ TokensBounded' /\ Transacts
    BY TxEffect
  <1>2. LedgerTypeOK /\ LedgerTypeOK' /\ seq' = seq
    BY <1>1 DEF LpTypeOK, EpochTypeOK, TypeOK, Transacts
  <1>3. ASSUME NEW a, NEW pay, Pays(a, pay)
        PROVE  OpenList(epoch') = OpenList(epoch)
    <2>1. epoch # NoEpoch /\ epoch' # NoEpoch /\ epoch \in Epoch
      BY <1>2, <1>3, PaidEpoch, EpochTyped
    <2>2. epoch' = [epoch EXCEPT !.pool = @ - pay]
      BY <1>3 DEF Pays
    <2>3. epoch'.proposals = epoch.proposals
      BY <2>1, <2>2 DEF Epoch
    <2> QED
      BY <2>1, <2>3 DEF OpenList
  <1>4. UNCHANGED epoch => OpenList(epoch') = OpenList(epoch)
    OBVIOUS
  <1>5. UNCHANGED epoch \/ \E a, pay : Pays(a, pay)
    BY <1>1 DEF Transacts, BondMoves, Moves, KeyPaid, Rewards, VaultPaid, AmmPaid
  <1> QED
    BY <1>1, <1>2, <1>3, <1>4, <1>5 DEF Quiet

\* A ledger whose positions and histories stay is well typed with its ledger.
LEMMA StillTyped ==
    ASSUME LpTypeOK, TokensBounded, LedgerTypeOK', seq' = seq,
           UNCHANGED <<signed, claims, paid, positions>>
    PROVE  LpTypeOK' /\ TokensBounded'
  <1>1. UNCHANGED <<signed, claims, paid, shares, tokens, lastClaim, lpPaid>>
    BY DEF positions
  <1>2. TokensBounded'
    BY <1>1 DEF TokensBounded, Supply
  <1> QED
    BY <1>1, <1>2 DEF LpTypeOK, EpochTypeOK, TypeOK

\* The view of a proposal, field by field.
LEMMA ProposeFields ==
    ASSUME NEW a \in Accounts, NEW p, NEW v, v = proposeApply(PayFee(a), a, p)
    PROVE  /\ v.balance = [balance EXCEPT ![a] = @ - Fee]
           /\ v.ownerCount = [ownerCount EXCEPT ![a] = @ + 1]
           /\ v.epoch = IF epoch = NoEpoch THEN epoch
                        ELSE [epoch EXCEPT !.proposals = Append(@, p)]
           /\ v.treasury = treasury /\ v.bonds = bonds
           /\ v.names = names /\ v.nameOf = nameOf /\ v.burned = 0
  BY PayFeeFields DEF proposeApply, withProposal

\* What a proposal or a vote does to the rewards: it pays its fee, lists a
\* proposal perhaps, and moves no other drop.
Files ==
    /\ seq' = seq /\ treasury' >= treasury /\ Relisted(epoch, epoch')
    /\ UNCHANGED <<bonds, claims, paid, positions>>
    /\ SupplyIsHeld => SupplyIsHeld'

\* An epoch is its own relisting.
LEMMA SameEpoch == LedgerTypeOK => Relisted(epoch, epoch)
  BY DEF LedgerTypeOK, Relisted

\* Proposal p of account a with value x is made and listed.
Proposes(a, p, x) ==
    /\ ~Exists(p) /\ proposalPreflight(x)
    /\ seq' = seq /\ UNCHANGED <<params, unreadable>>
    /\ proposals' = [proposals EXCEPT ![p] = NewProposal(a, x)]
    /\ epoch = NoEpoch => epoch' = NoEpoch
    /\ epoch # NoEpoch => epoch' # NoEpoch /\ epoch'.proposals = Append(epoch.proposals, p)

LEMMA ProposalEffect ==
    ASSUME LpTypeOK, TokensBounded, NEW a \in Accounts, NEW k \in Keys,
           NEW p \in Proposals, NEW x, GovernanceProposal(a, k, p, x)
    PROVE  LpTypeOK' /\ TokensBounded' /\ Files /\ (Quiet \/ Proposes(a, p, x))
  <1> DEFINE v == proposeApply(PayFee(a), a, p)
             ok == canPropose(k)
  <1>t. LedgerTypeOK
    BY DEF LpTypeOK, EpochTypeOK, TypeOK
  <1>1. /\ ~Exists(p) /\ proposalPreflight(x)
        /\ Transact(a, ok, v, FALSE)
        /\ proposals' = IF Succeeds(a, ok, v, FALSE)
                        THEN [proposals EXCEPT ![p] = NewProposal(a, x)]
                        ELSE proposals
        /\ UNCHANGED <<signed, claims, paid, positions>> /\ UNCHANGED <<params, unreadable>>
    BY DEF GovernanceProposal
  <1>2. /\ v.balance = [balance EXCEPT ![a] = @ - Fee]
        /\ v.ownerCount = [ownerCount EXCEPT ![a] = @ + 1]
        /\ v.epoch = IF epoch = NoEpoch THEN epoch
                     ELSE [epoch EXCEPT !.proposals = Append(@, p)]
        /\ v.treasury = treasury /\ v.bonds = bonds
        /\ v.names = names /\ v.nameOf = nameOf /\ v.burned = 0
    BY ProposeFields
  <1> HIDE DEF v, ok
  <1>3. CASE ~Succeeds(a, ok, v, FALSE)
    <2>1. LedgerTypeOK' /\ OnlyFee(a) /\ UNCHANGED proposals
      BY <1>1, <1>3, <1>t, ClaimFeeOnly DEF Transact
    <2>2. seq' = seq /\ epoch' = epoch
      BY <2>1 DEF OnlyFee
    <2>3. Quiet
      BY <1>1, <2>1, <2>2 DEF Quiet
    <2>4. SupplyIsHeld => SupplyIsHeld'
      BY <1>1, <1>3, <1>t, TransactSupply
    <2>5. Files
      BY <1>1, <1>t, <2>1, <2>2, <2>4, SameEpoch DEF Files, OnlyFee
    <2> QED
      BY <1>1, <2>1, <2>2, <2>3, <2>5, StillTyped
  <1>4. CASE Succeeds(a, ok, v, FALSE)
    <2>1. Commit(v, Fee) /\ balance[a] >= Fee
      BY <1>1, <1>4 DEF Transact, Succeeds
    <2>2. epoch # NoEpoch =>
            /\ v.epoch \in Epoch /\ v.epoch # NoEpoch /\ Relisted(epoch, v.epoch)
            /\ v.epoch.proposals = Append(epoch.proposals, p)
      <3> SUFFICES ASSUME epoch # NoEpoch
                   PROVE  /\ v.epoch \in Epoch /\ v.epoch # NoEpoch
                          /\ Relisted(epoch, v.epoch)
                          /\ v.epoch.proposals = Append(epoch.proposals, p)
        OBVIOUS
      <3> DEFINE s == Append(epoch.proposals, p)
      <3>1. epoch \in Epoch
        BY <1>t, EpochTyped
      <3>2. s \in Seq(Proposals)
        BY <3>1 DEF Epoch
      <3>3. v.epoch = [epoch EXCEPT !.proposals = s]
        BY <1>2
      <3> HIDE DEF s
      <3>4. /\ v.epoch \in Epoch /\ v.epoch # NoEpoch /\ v.epoch.proposals = s
            /\ Relisted(epoch, v.epoch)
        BY <3>1, <3>2, <3>3, RelistTyped
      <3> QED
        BY <3>4 DEF s
    <2>3. ViewOK(v)
      <3>1. v.balance \in [Accounts -> Nat]
        BY <1>2, <1>t, <2>1, FeePaid
      <3>2. v.ownerCount \in [Accounts -> Nat]
        BY <1>2, <1>t DEF LedgerTypeOK
      <3>3. v.epoch \in Epoch \cup {NoEpoch}
        BY <1>2, <2>2
      <3> QED
        BY <1>2, <1>t, <3>1, <3>2, <3>3 DEF ViewOK, LedgerTypeOK
    <2>4. LedgerTypeOK' /\ treasury' >= treasury
      BY <1>2, <1>t, <2>1, <2>3, FeeAssumption, CommitTyped
    <2>5. seq' = seq /\ epoch' = v.epoch /\ bonds' = v.bonds
      BY <2>1 DEF Commit
    <2>7. SupplyIsHeld => SupplyIsHeld'
      BY <1>1, <1>2, <1>t, <2>3, TransactSupply
    <2>8. Relisted(epoch, epoch')
      BY <1>2, <1>t, <2>2, <2>5, SameEpoch
    <2>9. Files
      BY <1>1, <1>2, <2>4, <2>5, <2>7, <2>8 DEF Files
    <2>6. Proposes(a, p, x)
      BY <1>1, <1>2, <1>4, <2>2, <2>5 DEF Proposes
    <2> QED
      BY <1>1, <2>4, <2>5, <2>6, <2>9, StillTyped
  <1> QED
    BY <1>3, <1>4

\* Key k of account a votes on proposal p.
Votes(a, k, p, yes) ==
    /\ canVote(a, k, p)
    /\ seq' = seq /\ OpenList(epoch') = OpenList(epoch) /\ UNCHANGED <<params, unreadable>>
    /\ proposals' = [proposals EXCEPT ![p] = CountVote(@, k, yes)]

LEMMA VoteEffect ==
    ASSUME LpTypeOK, TokensBounded, NEW a \in Accounts, NEW k \in Keys,
           NEW p \in Proposals, NEW yes \in BOOLEAN, GovernanceVote(a, k, p, yes)
    PROVE  LpTypeOK' /\ TokensBounded' /\ Files /\ (Quiet \/ Votes(a, k, p, yes))
  <1> DEFINE ok == canVote(a, k, p)
             v == PayFee(a)
  <1>t. LedgerTypeOK
    BY DEF LpTypeOK, EpochTypeOK, TypeOK
  <1>1. /\ Transact(a, ok, v, FALSE)
        /\ proposals' = IF Succeeds(a, ok, v, FALSE)
                        THEN [proposals EXCEPT ![p] = CountVote(@, k, yes)]
                        ELSE proposals
        /\ UNCHANGED <<signed, claims, paid, positions>> /\ UNCHANGED <<params, unreadable>>
    BY DEF GovernanceVote
  <1> HIDE DEF ok
  <1>2. LedgerTypeOK' /\ OnlyFee(a)
    BY <1>1, <1>t, ClaimFeeOnly, FeeOnlyEffect DEF Transact, Succeeds
  <1>3. seq' = seq /\ epoch' = epoch
    BY <1>2 DEF OnlyFee
  <1>4. LpTypeOK' /\ TokensBounded' /\ Files
    <2>1. Succeeds(a, ok, v, FALSE) => ViewOK(v) /\ v.burned = 0
      BY <1>t, PayFeeView DEF Succeeds
    <2>2. SupplyIsHeld => SupplyIsHeld'
      BY <1>1, <1>t, <2>1, TransactSupply
    <2>3. Files
      BY <1>1, <1>2, <1>3, <1>t, <2>2, SameEpoch DEF Files, OnlyFee
    <2> QED
      BY <1>1, <1>2, <1>3, <2>3, StillTyped
  <1>5. CASE ~Succeeds(a, ok, v, FALSE)
    BY <1>1, <1>3, <1>4, <1>5 DEF Quiet
  <1>6. CASE Succeeds(a, ok, v, FALSE)
    <2>1. ok
      BY <1>6 DEF Succeeds
    <2> QED
      BY <1>1, <1>3, <1>4, <1>6, <2>1 DEF Votes, ok
  <1> QED
    BY <1>5, <1>6

\* The epoch that the tally of a close looks at: a new one with an empty list,
\* or the old one with its list.
LEMMA ClosedEpochTyped ==
    ASSUME LpTypeOK, NEW raw \in [Keys -> RawScores],
           NEW e, e = closedEpoch(VaultSnapshot, AmmSnapshot, raw)
    PROVE  /\ e \in Epoch \cup {NoEpoch}
           /\ OpenList(e) = <<>> \/ OpenList(e) = OpenList(epoch)
  <1>t. /\ LedgerTypeOK /\ seq \in Nat /\ seq <= MaxSeq /\ treasury \in Nat
        /\ bonds \in [Keys -> Bond \cup {NoBond}]
        /\ epoch \in Epoch \cup {NoEpoch} /\ shares \in [Vaults -> [Accounts -> Nat]]
    BY DEF LpTypeOK, EpochTypeOK, TypeOK, LedgerTypeOK
  <1> DEFINE e1 == applyRewardEpoch(epoch, treasury, seq, VaultSnapshot, AmmSnapshot)
             e2 == NewEpoch(treasury, seq, VaultSnapshot, AmmSnapshot)
             cs == scoredBonds(bonds, seq, raw)
             n == sumAggregateComposites(cs)
  <1>1. e2 \in Epoch /\ e2.proposals = <<>>
    <2>1. /\ VaultSnapshot.providers \in Nat /\ VaultSnapshot.total \in Nat
          /\ AmmSnapshot.providers \in Nat /\ AmmSnapshot.total \in Nat
      BY <1>t, SnapshotsTyped
    <2>2. e2 \in Epoch
      BY <1>t, <2>1, NewEpochTyped
    <2>3. e2.proposals = <<>>
      BY DEF NewEpoch
    <2> QED
      BY <2>2, <2>3
  <1>2. e1 = e2 \/ e1 = epoch
    BY DEF applyRewardEpoch
  <1>3. n \in Nat
    <2>1. cs \in [Keys -> Bond \cup {NoBond}]
      BY <1>t, ScoredTyped
    <2> QED
      BY <2>1, AggregateSum
  <1>4. e = IF ScoringLedger(seq) /\ e1 # NoEpoch THEN [e1 EXCEPT !.aggregate = n] ELSE e1
    BY DEF closedEpoch, scoredEpoch
  <1> HIDE DEF e1, e2, cs, n
  <1>5. e1 \in Epoch \cup {NoEpoch} /\ (OpenList(e1) = <<>> \/ OpenList(e1) = OpenList(epoch))
    BY <1>1, <1>2, <1>t DEF OpenList
  <1>6. CASE e = e1
    BY <1>5, <1>6
  <1>7. CASE e1 # NoEpoch /\ e = [e1 EXCEPT !.aggregate = n]
    <2>1. e1 \in Epoch
      BY <1>5, <1>7
    <2>2. e \in Epoch /\ e # NoEpoch
      BY <1>3, <1>7, <2>1, AggregateTyped
    <2>3. e.proposals = e1.proposals
      BY <1>7, <2>1 DEF Epoch
    <2>4. OpenList(e) = OpenList(e1)
      BY <1>7, <2>2, <2>3 DEF OpenList
    <2> QED
      BY <1>5, <2>2, <2>4
  <1> QED
    BY <1>4, <1>6, <1>7

\* The close of a ledger, tallied with epoch e.
Closes(e) ==
    /\ seq' = seq + 1 /\ epoch' = pruned(e)
    /\ proposals' = tallied(e) /\ params' = ratified(e) /\ unreadable' = emptied(e)
    /\ e \in Epoch \cup {NoEpoch}
    /\ OpenList(e) = <<>> \/ OpenList(e) = OpenList(epoch)

\* The members of the list that the tally leaves open.
Undecided(e) == {p \in Proposals : Open(p) /\ ~Due(e, p)}

\* Pruning keeps an epoch well typed and leaves a list without repetition.
LEMMA PrunedTyped ==
    ASSUME NEW e \in Epoch \cup {NoEpoch}, IsInjective(OpenList(e)),
           NEW d, d = pruned(e)
    PROVE  /\ d \in Epoch \cup {NoEpoch} /\ (e = NoEpoch <=> d = NoEpoch)
           /\ IsInjective(OpenList(d))
           /\ Range(OpenList(d)) \subseteq Range(OpenList(e)) \cap Undecided(e)
           /\ Relisted(e, d)
  <1>1. CASE e = NoEpoch
    <2>1. d = NoEpoch /\ OpenList(d) = <<>>
      BY <1>1 DEF pruned, OpenList
    <2>2. IsInjective(<<>>) /\ Range(<<>>) = {}
      BY DEF IsInjective, Range
    <2> QED
      BY <1>1, <2>1, <2>2 DEF Relisted
  <1>2. CASE e # NoEpoch
    <2> DEFINE s == remaining(e.proposals, Undecided(e))
    <2>1. e \in Epoch /\ OpenList(e) = e.proposals /\ e.proposals \in Seq(Proposals)
      BY <1>2 DEF OpenList, Epoch
    <2>2. d = [e EXCEPT !.proposals = s]
      BY <1>2 DEF pruned, Undecided
    <2>3. /\ s \in Seq(Proposals) /\ IsInjective(s)
          /\ Range(s) \subseteq Range(e.proposals) \cap Undecided(e)
      BY <2>1, RemainingOnce
    <2> HIDE DEF s
    <2>4. d \in Epoch /\ d # NoEpoch /\ d.proposals = s /\ Relisted(e, d)
      BY <2>1, <2>2, <2>3, RelistTyped
    <2>5. OpenList(d) = s
      BY <2>4 DEF OpenList
    <2> QED
      BY <1>2, <2>1, <2>3, <2>4, <2>5
  <1> QED
    BY <1>1, <1>2

\* The list holds no proposal twice.
ListOnce == IsInjective(OpenList(epoch))

LEMMA CloseGovernedEffect ==
    ASSUME LpTypeOK, TokensBounded, ListOnce, CloseGoverned
    PROVE  LpTypeOK' /\ TokensBounded' /\ \E e : Closes(e) /\ IsInjective(OpenList(e))
  <1>1. PICK raw \in [Keys -> RawScores] :
          LET e == closedEpoch(VaultSnapshot, AmmSnapshot, raw)
          IN  /\ CloseRewards(pruned(e), raw)
              /\ proposals' = tallied(e)
              /\ params' = ratified(e)
              /\ unreadable' = emptied(e)
    BY DEF CloseGoverned
  <1> DEFINE e == closedEpoch(VaultSnapshot, AmmSnapshot, raw)
             d == pruned(e)
  <1>2. /\ CloseRewards(d, raw) /\ proposals' = tallied(e) /\ params' = ratified(e)
        /\ unreadable' = emptied(e)
    BY <1>1
  <1>3. /\ e \in Epoch \cup {NoEpoch}
        /\ OpenList(e) = <<>> \/ OpenList(e) = OpenList(epoch)
    BY ClosedEpochTyped
  <1> HIDE DEF e
  <1>4. IsInjective(OpenList(e))
    <2>1. IsInjective(<<>>)
      BY DEF IsInjective
    <2> QED
      BY <1>3, <2>1 DEF ListOnce
  <1>5. d \in Epoch \cup {NoEpoch}
    BY <1>3, <1>4, PrunedTyped
  <1> HIDE DEF d
  <1>6. /\ seq < MaxSeq /\ seq' = seq + 1 /\ epoch' = d
        /\ bonds' = scoredBonds(bonds, seq, raw)
        /\ UNCHANGED <<balance, ownerCount, treasury, drops, names, nameOf, signed>>
        /\ UNCHANGED <<shares, tokens, lastClaim>>
        /\ lpPaid' \in {0, lpPaid} /\ paid' \in {0, paid}
        /\ claims' = claims \/ claims' = [k \in Keys |-> 0]
    BY <1>2 DEF CloseRewards, CloseWith, NextLedger
  <1>7. bonds' \in [Keys -> Bond \cup {NoBond}]
    <2>1. bonds \in [Keys -> Bond \cup {NoBond}]
      BY DEF LpTypeOK, EpochTypeOK, TypeOK, LedgerTypeOK
    <2> QED
      BY <1>6, <2>1, ScoredTyped
  <1>8. TypeOK'
    BY <1>5, <1>6, <1>7, BondAssumption
       DEF LpTypeOK, EpochTypeOK, TypeOK, LedgerTypeOK
  <1>9. claims' \in [Keys -> Nat] /\ paid' \in Nat /\ lpPaid' \in Nat
    BY <1>6 DEF LpTypeOK, EpochTypeOK
  <1>10. LpTypeOK'
    BY <1>6, <1>8, <1>9 DEF LpTypeOK, EpochTypeOK
  <1>11. TokensBounded'
    BY <1>6 DEF TokensBounded, Supply
  <1>12. Closes(e)
    BY <1>2, <1>3, <1>6 DEF Closes, d
  <1> QED
    BY <1>4, <1>10, <1>11, <1>12

\* What every step of the governed ledger is.
Governs ==
    \/ Quiet
    \/ \E a \in Accounts, p \in Proposals, x \in ProposalValues : Proposes(a, p, x)
    \/ \E a \in Accounts, k \in Keys, p \in Proposals, yes \in BOOLEAN : Votes(a, k, p, yes)
    \/ \E e : Closes(e) /\ IsInjective(OpenList(e))

LEMMA GovEffect ==
    ASSUME LpTypeOK, TokensBounded, ListOnce, [GovNext]_govVars
    PROVE  LpTypeOK' /\ TokensBounded' /\ Governs
  <1>1. CASE RewardTx /\ UNCHANGED <<proposals, params, unreadable>>
    BY <1>1, RewardQuiet DEF Governs
  <1>2. ASSUME NEW a \in Accounts, NEW k \in Keys, NEW p \in Proposals,
               NEW x \in ProposalValues, GovernanceProposal(a, k, p, x)
        PROVE  LpTypeOK' /\ TokensBounded' /\ Governs
    BY <1>2, ProposalEffect DEF Governs
  <1>3. ASSUME NEW a \in Accounts, NEW k \in Keys, NEW p \in Proposals,
               NEW yes \in BOOLEAN, GovernanceVote(a, k, p, yes)
        PROVE  LpTypeOK' /\ TokensBounded' /\ Governs
    BY <1>3, VoteEffect DEF Governs
  <1>4. CASE CloseGoverned
    BY <1>4, CloseGovernedEffect DEF Governs
  <1>5. CASE UNCHANGED govVars
    <2>1. UNCHANGED <<ledgerVars, signed, claims, paid, positions, proposals, params, unreadable>>
      BY <1>5 DEF govVars, lpVars, epochVars, bondVars, positions
    <2>2. UNCHANGED <<seq, epoch>> /\ LedgerTypeOK'
      BY <2>1 DEF ledgerVars, LpTypeOK, EpochTypeOK, TypeOK, LedgerTypeOK
    <2>3. Quiet
      BY <2>1, <2>2 DEF Quiet
    <2> QED
      BY <2>1, <2>2, <2>3, StillTyped DEF Governs
  <1> QED
    BY <1>1, <1>2, <1>3, <1>4, <1>5 DEF GovNext, GovernanceTx

-----------------------------------------------------------------------------
(* The proposals                                                           *)

\* The proposals and the governed value are well typed.
ProposalsTyped ==
    /\ proposals \in [Proposals -> Proposal \cup {NoProposal}]
    /\ params \in BurnMinBps..BurnMaxBps \cup {NoParams}
    /\ unreadable \in BOOLEAN

\* No key is twice on the list of those who voted on a proposal.
VotersOnce == \A p \in Proposals : Exists(p) => IsInjective(proposals[p].voters)

\* A fresh proposal is open, without votes, and runs for the voting window.
LEMMA NewProposalTyped ==
    ASSUME seq \in Nat, NEW a \in Accounts, NEW x \in ProposalValues,
           proposalPreflight(x), NEW r, r = NewProposal(a, x)
    PROVE  /\ r \in Proposal /\ r # NoProposal
           /\ r.state = "OPEN" /\ r.voters = <<>> /\ seq <= r.expiry
  <1>1. x \in BurnMinBps..BurnMaxBps
    <2>1. x \in Nat
      BY GovernanceAssumption
    <2> QED
      BY <2>1, BpsAssumption DEF proposalPreflight
  <1>2. seq + VotingLedgers \in Nat /\ seq <= seq + VotingLedgers
    BY GovernanceAssumption
  <1>3. <<>> \in Seq(Keys)
    OBVIOUS
  <1> DEFINE t == seq + VotingLedgers
  <1>4. r = [owner |-> a, value |-> x, expiry |-> t, state |-> "OPEN",
             votedFor |-> 0, votedAgainst |-> 0, voters |-> <<>>]
    BY DEF NewProposal
  <1>5. t \in Nat /\ seq <= t
    BY <1>2
  <1> HIDE DEF t
  <1>6. r \in Proposal
    BY <1>1, <1>3, <1>4, <1>5 DEF Proposal
  <1> QED
    BY <1>4, <1>5, <1>6, GovernanceAssumption

\* A vote changes the counters and the list of voters.
LEMMA CountedTyped ==
    ASSUME NEW r \in Proposal, NEW k \in Keys, NEW yes \in BOOLEAN,
           bonds[k].composite \in Nat, NEW q, q = CountVote(r, k, yes)
    PROVE  /\ q \in Proposal /\ q # NoProposal
           /\ q.state = r.state /\ q.expiry = r.expiry /\ q.value = r.value
           /\ q.voters = Append(r.voters, k)
  <1> DEFINE w == bonds[k].composite
             f == IF yes THEN AddVote(r.votedFor, w) ELSE r.votedFor
             g == IF yes THEN r.votedAgainst ELSE AddVote(r.votedAgainst, w)
             s == Append(r.voters, k)
  <1>1. /\ r.votedFor \in Nat /\ r.votedAgainst \in Nat /\ r.voters \in Seq(Keys)
        /\ r.owner \in Accounts /\ r.value \in BurnMinBps..BurnMaxBps /\ r.expiry \in Nat
        /\ r.state \in {"OPEN", "PASSED", "REJECTED"}
    BY DEF Proposal
  <1>2. \A n \in Nat : AddVote(n, w) \in Nat
    BY GovernanceAssumption DEF AddVote, Lesser
  <1>3. f \in Nat /\ g \in Nat /\ s \in Seq(Keys)
    <2>1. AddVote(r.votedFor, w) \in Nat /\ AddVote(r.votedAgainst, w) \in Nat
      BY <1>1, <1>2
    <2>2. f \in Nat /\ g \in Nat
      BY <1>1, <2>1, Zenon
    <2>3. s \in Seq(Keys)
      BY <1>1
    <2> QED
      BY <2>2, <2>3
  <1>4. q = [r EXCEPT !.votedFor = f, !.votedAgainst = g, !.voters = s]
    BY DEF CountVote, Proposal
  <1> HIDE DEF f, g, s, w
  <1>5. q = [owner |-> r.owner, value |-> r.value, expiry |-> r.expiry, state |-> r.state,
             votedFor |-> f, votedAgainst |-> g, voters |-> s]
    BY <1>4 DEF Proposal
  <1>6. q \in Proposal
    BY <1>1, <1>3, <1>5 DEF Proposal
  <1>7. q # NoProposal
    BY <1>6, GovernanceAssumption
  <1>8. q.state = r.state /\ q.expiry = r.expiry /\ q.value = r.value /\ q.voters = s
    BY <1>5
  <1> QED
    BY <1>6, <1>7, <1>8 DEF s

\* The tally writes the state of a proposal, and only of one that is due.
LEMMA TalliedTyped ==
    ASSUME ProposalsTyped, NEW e, NEW p \in Proposals, NEW q, q = tallied(e)[p]
    PROVE  /\ q \in Proposal \cup {NoProposal}
           /\ ~Due(e, p) => q = proposals[p]
           /\ Due(e, p) =>
                /\ q \in Proposal /\ proposals[p] \in Proposal
                /\ q.state = (IF Carried(e, p) THEN "PASSED" ELSE "REJECTED")
                /\ q.expiry = proposals[p].expiry /\ q.value = proposals[p].value
                /\ q.votedFor = proposals[p].votedFor /\ q.voters = proposals[p].voters
  <1>1. q = IF Due(e, p)
            THEN [proposals[p] EXCEPT !.state = IF Carried(e, p) THEN "PASSED"
                                                ELSE "REJECTED"]
            ELSE proposals[p]
    BY DEF tallied
  <1>2. proposals[p] \in Proposal \cup {NoProposal}
    BY DEF ProposalsTyped
  <1>3. CASE ~Due(e, p)
    BY <1>1, <1>2, <1>3
  <1>4. CASE Due(e, p)
    <2> DEFINE r == proposals[p]
               c == IF Carried(e, p) THEN "PASSED" ELSE "REJECTED"
    <2>1. r \in Proposal
      BY <1>2, <1>4 DEF Due, Open, Exists
    <2>2. q = [r EXCEPT !.state = c] /\ c \in {"OPEN", "PASSED", "REJECTED"}
      BY <1>1, <1>4
    <2> HIDE DEF r, c
    <2>3. /\ q \in Proposal /\ q.state = c
          /\ q.expiry = r.expiry /\ q.value = r.value
          /\ q.votedFor = r.votedFor /\ q.voters = r.voters
      BY <2>1, <2>2 DEF Proposal
    <2> QED
      BY <1>4, <2>1, <2>3 DEF r, c
  <1> QED
    BY <1>3, <1>4

\* A proposal is carried by votes: the aggregate is not zero and at least one
\* basis point of it is needed.
LEMMA CarriedHasVotes ==
    ASSUME NEW e \in Epoch, NEW p, proposals[p] \in Proposal, Carried(e, p)
    PROVE  proposals[p].votedFor > 0
  <1> DEFINE f == proposals[p].votedFor
             n == e.aggregate
  <1>1. f \in Nat /\ n \in Nat
    BY DEF Proposal, Epoch
  <1>2. n > 0 /\ f * BpsDenom >= n * SupermajorityBps
    BY DEF Carried
  <1>3. SupermajorityBps \in Nat /\ SupermajorityBps >= 1 /\ BpsDenom \in Nat
    BY GovernanceAssumption, BpsAssumption
  <1> HIDE DEF f, n
  <1>4. n * 1 <= n * SupermajorityBps /\ n * SupermajorityBps \in Nat
    BY <1>1, <1>3, TimesMonotone
  <1>5. n * 1 = n /\ f * BpsDenom \in Nat
    BY <1>1, <1>3
  <1>6. f # 0
    <2> SUFFICES ASSUME f = 0 PROVE FALSE
      OBVIOUS
    <2>1. f * BpsDenom = 0
      BY <1>3
    <2> QED
      BY <1>1, <1>2, <1>4, <1>5, <2>1
  <1>7. f > 0
    BY <1>1, <1>6
  <1> QED
    BY <1>7 DEF f

\* The value that a tally leaves in force: the old one, or that of a proposal it
\* passed.
LEMMA RatifiedValue ==
    ASSUME ProposalsTyped, NEW e \in Epoch \cup {NoEpoch}
    PROVE  \/ ratified(e) = params
           \/ \E p \in Proposals : /\ Due(e, p) /\ Carried(e, p)
                                   /\ ratified(e) = proposals[p].value
                                   /\ proposals[p].value \in BurnMinBps..BurnMaxBps
  <1> DEFINE won == IF e = NoEpoch THEN {}
                    ELSE {i \in DOMAIN e.proposals :
                            Due(e, e.proposals[i]) /\ Carried(e, e.proposals[i])}
             last == CHOOSE i \in won : \A j \in won : j <= i
  <1>1. ratified(e) = IF won = {} THEN params
                      ELSE Clamp(proposals[e.proposals[last]].value, BurnMinBps, BurnMaxBps)
    BY DEF ratified
  <1>2. CASE won = {}
    BY <1>1, <1>2
  <1>3. CASE won # {}
    <2>1. e \in Epoch /\ e.proposals \in Seq(Proposals)
      BY <1>3 DEF Epoch
    <2> DEFINE n == Len(e.proposals)
    <2>2. n \in Nat /\ DOMAIN e.proposals = 1..n
      BY <2>1
    <2>3. \A i \in won : /\ i \in 1..n /\ e.proposals[i] \in Proposals
                         /\ Due(e, e.proposals[i]) /\ Carried(e, e.proposals[i])
      BY <2>1, <2>2
    <2> HIDE DEF won, n
    <2> DEFINE T == {n - i : i \in won}
    <2>4. T \in SUBSET Nat
      BY <2>2, <2>3
    <2>5. PICK i0 \in won : TRUE
      BY <1>3
    <2>6. n - i0 \in T
      OBVIOUS
    <2>7. PICK m \in T : \A y \in T : m <= y
      <3> HIDE DEF T
      <3> QED
        BY <2>4, <2>6, LeastNat
    <2>8. PICK i \in won : m = n - i
      BY <2>7
    <2>9. \A j \in won : j <= i
      <3> SUFFICES ASSUME NEW j \in won PROVE j <= i
        OBVIOUS
      <3>1. m <= n - j
        BY <2>7
      <3> QED
        BY <2>2, <2>3, <2>8, <3>1
    <2>10. last \in won
      BY <2>9
    <2> HIDE DEF last
    <2> DEFINE p == e.proposals[last]
    <2>11. p \in Proposals /\ Due(e, p) /\ Carried(e, p)
      BY <2>3, <2>10
    <2>12. ratified(e) = Clamp(proposals[p].value, BurnMinBps, BurnMaxBps)
      BY <1>1, <1>3
    <2> HIDE DEF p
    <2>13. proposals[p] \in Proposal
      BY <2>11 DEF ProposalsTyped, Due, Open, Exists
    <2>14. proposals[p].value \in BurnMinBps..BurnMaxBps
      BY <2>13 DEF Proposal
    <2>15. ratified(e) = proposals[p].value
      BY <2>12, <2>14, BpsAssumption DEF Clamp
    <2> QED
      BY <2>11, <2>14, <2>15
  <1> QED
    BY <1>2, <1>3

-----------------------------------------------------------------------------
(* One step of a proposal                                                  *)

\* How a step may change a proposal: it is left alone, made anew, voted on by a
\* key that did not vote before, or decided by a tally.
Decided(e, p, r, q) ==
    /\ e \in Epoch /\ Due(e, p) /\ r \in Proposal /\ q \in Proposal /\ r.state = "OPEN"
    /\ q.state = (IF Carried(e, p) THEN "PASSED" ELSE "REJECTED")
    /\ q.expiry = r.expiry /\ q.value = r.value
    /\ q.votedFor = r.votedFor /\ q.voters = r.voters

Counted(k, r, q) ==
    /\ r \in Proposal /\ q \in Proposal /\ r.state = "OPEN" /\ q.state = "OPEN"
    /\ q.expiry = r.expiry /\ k \in Keys /\ k \notin Range(r.voters)
    /\ q.voters = Append(r.voters, k)

Made(r, q) ==
    /\ r = NoProposal /\ q \in Proposal /\ q.state = "OPEN" /\ q.voters = <<>>
    /\ seq <= q.expiry

Evolves(p) ==
    LET r == proposals[p]
        q == proposals'[p]
    IN  q = r \/ Made(r, q) \/ (\E k : Counted(k, r, q)) \/ (\E e : Decided(e, p, r, q))

LEMMA ProposeEvolves ==
    ASSUME ProposalsTyped, seq \in Nat, NEW a \in Accounts, NEW p \in Proposals,
           NEW x \in ProposalValues, Proposes(a, p, x)
    PROVE  ProposalsTyped' /\ (\A o \in Proposals : Evolves(o)) /\ Open(p)' /\ ~Exists(p)
           /\ (\A o \in Proposals \ {p} : proposals'[o] = proposals[o])
           /\ seq <= proposals'[p].expiry
  <1> DEFINE r == NewProposal(a, x)
  <1>1. /\ ~Exists(p) /\ proposalPreflight(x) /\ UNCHANGED <<params, unreadable>>
        /\ proposals' = [proposals EXCEPT ![p] = r]
    BY DEF Proposes
  <1>2. /\ r \in Proposal /\ r # NoProposal
        /\ r.state = "OPEN" /\ r.voters = <<>> /\ seq <= r.expiry
    BY <1>1, NewProposalTyped
  <1> HIDE DEF r
  <1>3. proposals'[p] = r /\ \A o \in Proposals \ {p} : proposals'[o] = proposals[o]
    BY <1>1 DEF ProposalsTyped
  <1>4. ProposalsTyped'
    BY <1>1, <1>2 DEF ProposalsTyped
  <1>5. Evolves(p)
    BY <1>1, <1>2, <1>3 DEF Evolves, Made, Exists
  <1>6. \A o \in Proposals : Evolves(o)
    BY <1>3, <1>5 DEF Evolves
  <1>7. Open(p)'
    BY <1>2, <1>3 DEF Open, Exists
  <1> QED
    BY <1>1, <1>2, <1>3, <1>4, <1>6, <1>7

LEMMA VoteEvolves ==
    ASSUME LpTypeOK, ProposalsTyped, NEW a \in Accounts, NEW k \in Keys,
           NEW p \in Proposals, NEW yes \in BOOLEAN, Votes(a, k, p, yes)
    PROVE  /\ ProposalsTyped' /\ (\A o \in Proposals : Evolves(o))
           /\ \A o \in Proposals : \/ proposals'[o] = proposals[o]
                                   \/ Counted(k, proposals[o], proposals'[o])
  <1> DEFINE r == proposals[p]
             q == CountVote(r, k, yes)
  <1>1. /\ canVote(a, k, p) /\ UNCHANGED <<params, unreadable>>
        /\ proposals' = [proposals EXCEPT ![p] = q]
    BY DEF Votes, ProposalsTyped
  <1>2. r \in Proposal /\ r.state = "OPEN" /\ k \notin Range(r.voters) /\ Registered(k)
    BY <1>1 DEF canVote, Open, Exists, hasVoted, ProposalsTyped, HasStatus, Registered
  <1>3. bonds[k].composite \in Nat
    <2>1. bonds[k] \in Bond
      BY <1>2, RegisteredTyped DEF LpTypeOK, EpochTypeOK, TypeOK
    <2> QED
      BY <2>1 DEF Bond
  <1>4. /\ q \in Proposal /\ q # NoProposal
        /\ q.state = r.state /\ q.expiry = r.expiry /\ q.value = r.value
        /\ q.voters = Append(r.voters, k)
    BY <1>2, <1>3, CountedTyped
  <1> HIDE DEF q
  <1>5. proposals'[p] = q /\ \A o \in Proposals \ {p} : proposals'[o] = proposals[o]
    BY <1>1 DEF ProposalsTyped
  <1>6. ProposalsTyped'
    BY <1>1, <1>4 DEF ProposalsTyped
  <1>7. Counted(k, r, q)
    BY <1>2, <1>4 DEF Counted
  <1>8. Evolves(p)
    BY <1>5, <1>7 DEF Evolves
  <1>9. \A o \in Proposals : \/ proposals'[o] = proposals[o]
                             \/ Counted(k, proposals[o], proposals'[o])
    BY <1>5, <1>7
  <1> QED
    BY <1>5, <1>6, <1>8, <1>9 DEF Evolves

LEMMA CloseEvolves ==
    ASSUME ProposalsTyped, NEW e, Closes(e)
    PROVE  /\ ProposalsTyped'
           /\ \A p \in Proposals : \/ proposals'[p] = proposals[p] /\ ~Due(e, p)
                                   \/ Decided(e, p, proposals[p], proposals'[p])
  <1>1. proposals' = tallied(e) /\ params' = ratified(e) /\ e \in Epoch \cup {NoEpoch}
    BY DEF Closes
  <1>2. ASSUME NEW p \in Proposals
        PROVE  /\ proposals'[p] \in Proposal \cup {NoProposal}
               /\ \/ proposals'[p] = proposals[p] /\ ~Due(e, p)
                  \/ Decided(e, p, proposals[p], proposals'[p])
    <2> DEFINE q == tallied(e)[p]
    <2>1. /\ q \in Proposal \cup {NoProposal}
          /\ ~Due(e, p) => q = proposals[p]
          /\ Due(e, p) =>
               /\ q \in Proposal /\ proposals[p] \in Proposal
               /\ q.state = (IF Carried(e, p) THEN "PASSED" ELSE "REJECTED")
               /\ q.expiry = proposals[p].expiry /\ q.value = proposals[p].value
               /\ q.votedFor = proposals[p].votedFor /\ q.voters = proposals[p].voters
      BY TalliedTyped
    <2>2. proposals'[p] = q
      BY <1>1
    <2>3. Due(e, p) => proposals[p].state = "OPEN" /\ e \in Epoch
      BY <1>1 DEF Due, Open
    <2> HIDE DEF q
    <2> QED
      BY <2>1, <2>2, <2>3 DEF Decided
  <1>3. proposals' \in [Proposals -> Proposal \cup {NoProposal}]
    <2>1. proposals' = [p \in Proposals |-> proposals'[p]]
      BY <1>1 DEF tallied
    <2> QED
      BY <1>2, <2>1
  <1>4. params' \in BurnMinBps..BurnMaxBps \cup {NoParams}
    <2>1. params' = params \/ params' \in BurnMinBps..BurnMaxBps
      BY <1>1, RatifiedValue
    <2> QED
      BY <2>1 DEF ProposalsTyped
  <1>5. unreadable' \in BOOLEAN
    BY DEF Closes, emptied
  <1> QED
    BY <1>2, <1>3, <1>4, <1>5 DEF ProposalsTyped

\* Every step keeps the types, and changes proposals in these ways only.
LEMMA GovernsEvolves ==
    ASSUME LpTypeOK, ProposalsTyped, Governs
    PROVE  ProposalsTyped' /\ \A p \in Proposals : Evolves(p)
  <1>1. CASE Quiet
    BY <1>1 DEF Quiet, ProposalsTyped, Evolves
  <1>2. ASSUME NEW a \in Accounts, NEW p \in Proposals, NEW x \in ProposalValues,
               Proposes(a, p, x)
        PROVE  ProposalsTyped' /\ \A o \in Proposals : Evolves(o)
    <2>1. seq \in Nat
      BY DEF LpTypeOK, EpochTypeOK, TypeOK, LedgerTypeOK
    <2> QED
      BY <1>2, <2>1, ProposeEvolves
  <1>3. ASSUME NEW a \in Accounts, NEW k \in Keys, NEW p \in Proposals,
               NEW yes \in BOOLEAN, Votes(a, k, p, yes)
        PROVE  ProposalsTyped' /\ \A o \in Proposals : Evolves(o)
    BY <1>3, VoteEvolves
  <1>4. ASSUME NEW e, Closes(e)
        PROVE  ProposalsTyped' /\ \A o \in Proposals : Evolves(o)
    BY <1>4, CloseEvolves DEF Evolves
  <1> QED
    BY <1>1, <1>2, <1>3, <1>4 DEF Governs

\* A step leaves no voter list with a repetition and no decision undone.
LEMMA EvolvedOnce ==
    ASSUME ProposalsTyped, VotersOnce, \A p \in Proposals : Evolves(p)
    PROVE  /\ VotersOnce'
           /\ \A p \in Proposals : Exists(p) =>
                /\ proposals'[p] # NoProposal
                /\ proposals[p].state # "OPEN" => proposals'[p] = proposals[p]
  <1> SUFFICES ASSUME NEW p \in Proposals
               PROVE  /\ Exists(p)' => IsInjective(proposals'[p].voters)
                      /\ Exists(p) =>
                           /\ proposals'[p] # NoProposal
                           /\ proposals[p].state # "OPEN" => proposals'[p] = proposals[p]
    BY DEF VotersOnce
  <1> DEFINE r == proposals[p]
             q == proposals'[p]
  <1>0. (Exists(p) <=> r # NoProposal) /\ (Exists(p)' <=> q # NoProposal)
    BY DEF Exists
  <1>1. r # NoProposal => IsInjective(r.voters)
    BY <1>0 DEF VotersOnce
  <1>2. NoProposal \notin Proposal
    BY GovernanceAssumption
  <1>3. q = r \/ Made(r, q) \/ (\E k : Counted(k, r, q)) \/ (\E e : Decided(e, p, r, q))
    BY DEF Evolves
  <1> HIDE DEF r, q
  <1> SUFFICES /\ q # NoProposal => IsInjective(q.voters)
               /\ r # NoProposal => q # NoProposal /\ (r.state # "OPEN" => q = r)
    BY <1>0 DEF r, q
  <1>4. CASE q = r
    BY <1>1, <1>4
  <1>5. CASE Made(r, q)
    <2>1. IsInjective(<<>>)
      BY DEF IsInjective
    <2> QED
      BY <1>5, <2>1 DEF Made
  <1>6. ASSUME NEW k, Counted(k, r, q)
        PROVE  /\ q # NoProposal => IsInjective(q.voters)
               /\ r # NoProposal => q # NoProposal /\ (r.state # "OPEN" => q = r)
    <2>1. /\ r \in Proposal /\ q \in Proposal /\ r.state = "OPEN"
          /\ k \in Keys /\ k \notin Range(r.voters) /\ q.voters = Append(r.voters, k)
      BY <1>6 DEF Counted
    <2>2. r.voters \in Seq(Keys) /\ r # NoProposal
      BY <1>2, <2>1 DEF Proposal
    <2>3. IsInjective(q.voters)
      BY <1>1, <2>1, <2>2, AppendOnce
    <2> QED
      BY <1>2, <2>1, <2>3
  <1>7. ASSUME NEW e, Decided(e, p, r, q)
        PROVE  /\ q # NoProposal => IsInjective(q.voters)
               /\ r # NoProposal => q # NoProposal /\ (r.state # "OPEN" => q = r)
    <2>1. r \in Proposal /\ q \in Proposal /\ r.state = "OPEN" /\ q.voters = r.voters
      BY <1>7 DEF Decided
    <2> QED
      BY <1>1, <1>2, <2>1
  <1> QED
    BY <1>3, <1>4, <1>5, <1>6, <1>7

-----------------------------------------------------------------------------
(* The list                                                                *)

\* Proposal p is still to be decided.
Pending(p) == Open(p) /\ seq <= proposals[p].expiry

\* ListIsPending, of the list rather than of the epoch.
ListPending ==
    IsInjective(OpenList(epoch)) /\ \A p \in Range(OpenList(epoch)) : Pending(p)

LEMMA ListPendingIs == ListPending <=> ListIsPending
  <1>1. CASE epoch = NoEpoch
    <2>1. IsInjective(<<>>) /\ Range(<<>>) = {}
      BY DEF IsInjective, Range
    <2> QED
      BY <1>1, <2>1 DEF ListPending, ListIsPending, OpenList
  <1>2. CASE epoch # NoEpoch
    BY <1>2 DEF ListPending, ListIsPending, OpenList, Pending
  <1> QED
    BY <1>1, <1>2

LEMMA ProposeList ==
    ASSUME LpTypeOK, ProposalsTyped, ListPending, NEW a \in Accounts,
           NEW p \in Proposals, NEW x \in ProposalValues, Proposes(a, p, x)
    PROVE  ListPending'
  <1> DEFINE s == OpenList(epoch)
             t == OpenList(epoch')
  <1>t. seq \in Nat /\ s \in Seq(Proposals)
    BY ListTyped DEF LpTypeOK, EpochTypeOK, TypeOK, LedgerTypeOK
  <1>1. /\ Open(p)' /\ ~Exists(p) /\ seq <= proposals'[p].expiry
        /\ \A o \in Proposals \ {p} : proposals'[o] = proposals[o]
    BY <1>t, ProposeEvolves
  <1>2. /\ seq' = seq
        /\ t = <<>> \/ t = Append(s, p)
    BY DEF Proposes, OpenList
  <1>3. IsInjective(s) /\ \A o \in Range(s) : Pending(o)
    BY DEF ListPending
  <1>4. Range(s) \subseteq Proposals
    <2> HIDE DEF s
    <2> QED
      BY <1>t DEF Range
  <1>5. p \notin Range(s)
    BY <1>1, <1>3 DEF Pending, Open
  <1>6. IsInjective(t) /\ Range(t) \subseteq Range(s) \cup {p}
    <2>1. IsInjective(<<>>) /\ Range(<<>>) = {}
      BY DEF IsInjective, Range
    <2>2. IsInjective(Append(s, p)) /\ Range(Append(s, p)) = Range(s) \cup {p}
      <3> HIDE DEF s
      <3> QED
        BY <1>t, <1>3, <1>5, AppendOnce
    <2> HIDE DEF s, t
    <2> QED
      BY <1>2, <2>1, <2>2
  <1>7. ASSUME NEW o \in Range(s) PROVE Pending(o)'
    <2>1. o \in Proposals \ {p} /\ Pending(o)
      BY <1>3, <1>4, <1>5
    <2>2. proposals'[o] = proposals[o]
      BY <1>1, <2>1
    <2> QED
      BY <1>2, <2>1, <2>2 DEF Pending, Open, Exists
  <1>8. Pending(p)'
    BY <1>1, <1>2 DEF Pending
  <1>9. \A o \in Range(t) : Pending(o)'
    <2> HIDE DEF s, t
    <2> QED
      BY <1>6, <1>7, <1>8
  <1> QED
    BY <1>6, <1>9 DEF ListPending

LEMMA VoteList ==
    ASSUME LpTypeOK, ProposalsTyped, ListPending, NEW a \in Accounts, NEW k \in Keys,
           NEW p \in Proposals, NEW yes \in BOOLEAN, Votes(a, k, p, yes)
    PROVE  ListPending'
  <1> DEFINE s == OpenList(epoch)
  <1>t. s \in Seq(Proposals)
    BY ListTyped DEF LpTypeOK, EpochTypeOK, TypeOK, LedgerTypeOK
  <1>1. \A o \in Proposals : \/ proposals'[o] = proposals[o]
                             \/ Counted(k, proposals[o], proposals'[o])
    BY VoteEvolves
  <1>2. seq' = seq /\ OpenList(epoch') = s
    BY DEF Votes
  <1>3. IsInjective(s) /\ \A o \in Range(s) : Pending(o)
    BY DEF ListPending
  <1> HIDE DEF s
  <1>4. ASSUME NEW o \in Range(s) PROVE Pending(o)'
    <2>1. o \in Proposals /\ Pending(o)
      BY <1>3, <1>t DEF Range
    <2>2. CASE proposals'[o] = proposals[o]
      BY <1>2, <2>1, <2>2 DEF Pending, Open, Exists
    <2>3. CASE Counted(k, proposals[o], proposals'[o])
      <3>1. proposals'[o] # NoProposal
        BY <2>3, GovernanceAssumption DEF Counted
      <3> QED
        BY <1>2, <2>1, <2>3, <3>1 DEF Counted, Pending, Open, Exists
    <2> QED
      BY <1>1, <2>1, <2>2, <2>3
  <1> QED
    BY <1>2, <1>3, <1>4 DEF ListPending

LEMMA CloseList ==
    ASSUME LpTypeOK, ProposalsTyped, NEW e, Closes(e), IsInjective(OpenList(e))
    PROVE  ListPending'
  <1> DEFINE t == OpenList(epoch')
  <1>1. /\ seq' = seq + 1 /\ epoch' = pruned(e) /\ e \in Epoch \cup {NoEpoch}
    BY DEF Closes
  <1>2. IsInjective(t) /\ Range(t) \subseteq Range(OpenList(e)) \cap Undecided(e)
    BY <1>1, PrunedTyped
  <1> HIDE DEF t
  <1>3. ASSUME NEW p \in Range(t) PROVE Pending(p)'
    <2>1. p \in Range(OpenList(e)) /\ p \in Proposals /\ Open(p) /\ ~Due(e, p)
      BY <1>2, <1>3 DEF Undecided
    <2>2. e # NoEpoch /\ p \in Range(e.proposals)
      <3>1. Range(<<>>) = {}
        BY DEF Range
      <3> QED
        BY <2>1, <3>1 DEF OpenList
    <2>3. ~(seq >= proposals[p].expiry)
      BY <2>1, <2>2 DEF Due
    <2>4. seq \in Nat /\ proposals[p] \in Proposal
      BY <2>1 DEF LpTypeOK, EpochTypeOK, TypeOK, LedgerTypeOK, ProposalsTyped, Open, Exists
    <2>5. proposals[p].expiry \in Nat
      BY <2>4 DEF Proposal
    <2>6. seq + 1 <= proposals[p].expiry
      BY <2>3, <2>4, <2>5
    <2>7. proposals'[p] = proposals[p]
      BY <2>1, CloseEvolves DEF Decided
    <2> QED
      BY <1>1, <2>1, <2>6, <2>7 DEF Pending, Open, Exists
  <1> QED
    BY <1>2, <1>3 DEF ListPending, t

LEMMA GovernsList ==
    ASSUME LpTypeOK, ProposalsTyped, ListPending, Governs
    PROVE  ListPending'
  <1>1. CASE Quiet
    BY <1>1 DEF Quiet, ListPending, Pending, Open, Exists
  <1> QED
    BY <1>1, ProposeList, VoteList, CloseList DEF Governs

-----------------------------------------------------------------------------
(* The outcome                                                             *)

\* Proposal p passed with votes, and x is its value.
PassedWith(p, x) ==
    Exists(p) /\ proposals[p].state = "PASSED" /\ proposals[p].value = x

LEMMA GovernsOutcome ==
    ASSUME ProposalsTyped, VotersOnce, RatificationHasVotes, Governs,
           \A p \in Proposals : Evolves(p)
    PROVE  RatificationHasVotes'
  <1>1. ASSUME NEW p \in Proposals, Exists(p)', proposals'[p].state = "PASSED"
        PROVE  proposals'[p].votedFor > 0
    <2> DEFINE r == proposals[p]
               q == proposals'[p]
    <2>1. CASE q = r
      BY <1>1, <2>1 DEF RatificationHasVotes, Exists
    <2>2. ~Made(r, q) /\ \A k : ~Counted(k, r, q)
      BY <1>1 DEF Made, Counted
    <2>3. ASSUME NEW e, Decided(e, p, r, q)
          PROVE  q.votedFor > 0
      <3>1. e \in Epoch /\ r \in Proposal /\ Carried(e, p) /\ q.votedFor = r.votedFor
        BY <1>1, <2>3 DEF Decided
      <3> QED
        BY <3>1, CarriedHasVotes
    <2> QED
      BY <2>1, <2>2, <2>3 DEF Evolves
  <1>2. ASSUME NEW p \in Proposals, NEW x, PassedWith(p, x)
        PROVE  PassedWith(p, x)'
    <2>1. proposals'[p] = proposals[p]
      BY <1>2, EvolvedOnce DEF PassedWith
    <2> QED
      BY <1>2, <2>1 DEF PassedWith, Exists
  <1>3. ASSUME params' # NoParams
        PROVE  \E p \in Proposals : PassedWith(p, params)'
    <2>1. CASE params' = params
      <3>1. PICK p \in Proposals : PassedWith(p, params)
        BY <1>3, <2>1 DEF RatificationHasVotes, PassedWith
      <3>2. PassedWith(p, params)'
        BY <1>2, <2>1, <3>1 DEF PassedWith
      <3> QED
        BY <3>2
    <2>2. CASE params' # params
      <3>1. PICK e : Closes(e)
        BY <2>2 DEF Governs, Quiet, Proposes, Votes
      <3>2. PICK p \in Proposals : Due(e, p) /\ Carried(e, p) /\ params' = proposals[p].value
        BY <2>2, <3>1, RatifiedValue DEF Closes
      <3>3. Decided(e, p, proposals[p], proposals'[p])
        BY <3>1, <3>2, CloseEvolves
      <3>4. /\ proposals'[p] # NoProposal /\ proposals'[p].state = "PASSED"
            /\ proposals'[p].value = params'
        BY <3>2, <3>3, GovernanceAssumption DEF Decided
      <3> QED
        BY <3>4 DEF PassedWith, Exists
    <2> QED
      BY <2>1, <2>2
  <1> QED
    BY <1>1, <1>3 DEF RatificationHasVotes, PassedWith

-----------------------------------------------------------------------------
(* Theorems                                                                *)

\* The inductive invariant of governance.
GovInv ==
    /\ LpTypeOK /\ TokensBounded /\ ProposalsTyped
    /\ ListPending /\ VotersOnce /\ RatificationHasVotes

LEMMA InitGov == GovInit => GovInv
  <1> SUFFICES ASSUME GovInit PROVE GovInv
    OBVIOUS
  <1>1. LpTypeOK /\ TokensBounded
    BY InitPool DEF GovInit, PoolInv
  <1>2. epoch = NoEpoch
    BY DEF GovInit, LPInit, EpochInit, Init, LedgerInit
  <1>3. /\ proposals = [p \in Proposals |-> NoProposal] /\ params = NoParams
        /\ unreadable = FALSE
        /\ \A p \in Proposals : ~Exists(p)
    BY DEF GovInit, Exists
  <1>4. ListPending
    BY <1>2, ListPendingIs DEF ListIsPending
  <1> QED
    BY <1>1, <1>3, <1>4 DEF GovInv, ProposalsTyped, VotersOnce, RatificationHasVotes

\* A step that decides nothing twice and drops no proposal.
FinalStep ==
    \A p \in Proposals : Exists(p) =>
        /\ proposals'[p] # NoProposal
        /\ proposals[p].state # "OPEN" => proposals'[p] = proposals[p]
        /\ IsInjective(proposals'[p].voters)

LEMMA NextGov == GovInv /\ [GovNext]_govVars => GovInv' /\ FinalStep
  <1> SUFFICES ASSUME GovInv, [GovNext]_govVars PROVE GovInv' /\ FinalStep
    OBVIOUS
  <1>1. /\ LpTypeOK /\ TokensBounded /\ ProposalsTyped
        /\ ListPending /\ VotersOnce /\ RatificationHasVotes
    BY DEF GovInv
  <1>2. LpTypeOK' /\ TokensBounded' /\ Governs
    BY <1>1, GovEffect DEF ListPending, ListOnce
  <1>3. ProposalsTyped' /\ \A p \in Proposals : Evolves(p)
    BY <1>1, <1>2, GovernsEvolves
  <1>4. ListPending'
    BY <1>1, <1>2, GovernsList
  <1>5. /\ VotersOnce'
        /\ \A p \in Proposals : Exists(p) =>
             /\ proposals'[p] # NoProposal
             /\ proposals[p].state # "OPEN" => proposals'[p] = proposals[p]
    BY <1>1, <1>3, EvolvedOnce
  <1>6. RatificationHasVotes'
    BY <1>1, <1>2, <1>3, GovernsOutcome
  <1>7. FinalStep
    BY <1>5 DEF FinalStep, VotersOnce, Exists
  <1> QED
    BY <1>2, <1>3, <1>4, <1>5, <1>6, <1>7 DEF GovInv

\* The inductive invariant holds in every reachable state.
LEMMA GovAlways == GovSpec => []GovInv
  BY InitGov, NextGov, PTL DEF GovSpec

\* A proposal holds a value within the bounds of the burn fraction, and so does
\* whatever was ratified, with the ledger and the rewards well typed at the same
\* time (GovernanceProposal::preflight, applyGovernanceTally).
THEOREM GovernanceTypeCorrect == GovSpec => []GovTypeOK
  <1>1. GovInv => GovTypeOK
    BY DEF GovInv, GovTypeOK, ProposalsTyped
  <1> QED
    BY <1>1, GovAlways, PTL

\* However proposals, votes, epochs and tallies interleave, the list that
\* buildLedgerImpl tallies from holds only open proposals, each once, and none
\* whose window closed in an earlier ledger.
THEOREM ListAlwaysPending == GovSpec => []ListIsPending
  <1>1. GovInv => ListIsPending
    BY ListPendingIs DEF GovInv
  <1> QED
    BY <1>1, GovAlways, PTL

\* No proposal passes without a vote for it, and the value in force is that of a
\* proposal that passed, for every supermajority of at least one basis point and
\* every way the aggregate score can be unset or zero (applyGovernanceTally).
THEOREM RatifiedWithVotes == GovSpec => []RatificationHasVotes
  <1>1. GovInv => RatificationHasVotes
    BY DEF GovInv
  <1> QED
    BY <1>1, GovAlways, PTL

\* A proposal never disappears, a decided one never changes again, and no key
\* votes twice on one (GovernanceVote::preclaim, applyGovernanceTally).
THEOREM OutcomeAlwaysFinal == GovSpec => OutcomeIsFinal
  <1>1. GovInv /\ [GovNext]_govVars
          => [\A p \in Proposals : Exists(p) =>
                /\ proposals'[p] # NoProposal
                /\ proposals[p].state # "OPEN" => proposals'[p] = proposals[p]
                /\ IsInjective(proposals'[p].voters)]_govVars
    BY NextGov DEF FinalStep
  <1> QED
    BY <1>1, GovAlways, PTL DEF GovSpec, OutcomeIsFinal

-----------------------------------------------------------------------------
(* The rewards under governance                                            *)

\* The inductive invariant of the rewards and the supply.
RewardsInv ==
    PoolInv /\ ScoreInv /\ PaidKeysMarked /\ SupplyIsHeld /\ BasketShape

\* A transaction of the bonds, the rewards or the positions.
LEMMA TxRewards == ASSUME RewardsInv, RewardTx PROVE RewardsInv'
  <1>1. [LPNext]_lpVars
    BY DEF LPNext
  <1> QED
    BY <1>1, NextPool, NextScores, NextMarks, NextRewardSupply, NextBasket DEF RewardsInv

\* A proposal or a vote reaches neither the pool nor the marks nor the basket.
LEMMA FilesRewards ==
    ASSUME RewardsInv, LpTypeOK', TokensBounded', Files
    PROVE  RewardsInv'
  <1>t. LpTypeOK /\ LedgerTypeOK /\ treasury \in Nat /\ treasury' \in Nat
    BY DEF RewardsInv, PoolInv, LpTypeOK, EpochTypeOK, TypeOK, LedgerTypeOK
  <1>1. /\ seq' = seq /\ treasury' >= treasury
        /\ UNCHANGED <<bonds, claims, paid, shares, lastClaim, lpPaid, moved>>
    BY DEF Files, positions
  <1>2. /\ epoch' = NoEpoch <=> epoch = NoEpoch
        /\ epoch # NoEpoch =>
             /\ epoch'.number = epoch.number /\ epoch'.start = epoch.start
             /\ epoch'.pool = epoch.pool /\ epoch'.emission = epoch.emission
             /\ epoch'.lpBps = epoch.lpBps /\ epoch'.lpShares = epoch.lpShares
             /\ epoch'.aggregate = epoch.aggregate
    BY DEF Files, Relisted
  <1>3. PoolInv'
    <2>1. epoch # NoEpoch => epoch.pool \in Nat /\ epoch.pool <= treasury
      BY <1>t, EpochTyped DEF RewardsInv, PoolInv, PoolFunded
    <2>2. PoolFunded'
      BY <1>1, <1>2, <1>t, <2>1 DEF PoolFunded
    <2> QED
      BY <1>1, <1>2, <2>2 DEF RewardsInv, PoolInv, EpochShape, PoolAccounting
  <1>4. ScoreInv'
    BY <1>1, <1>2 DEF RewardsInv, ScoreInv, Unscored, AggregateCoversBonded, HasStatus,
                      Registered, BondedIn
  <1>5. PaidKeysMarked'
    <2> SUFFICES ASSUME NEW k \in Keys PROVE PaidOnce(k)'
      BY DEF PaidKeysMarked
    <2>1. PaidOnce(k)
      BY DEF RewardsInv, PaidKeysMarked
    <2>2. epoch # NoEpoch /\ ClaimMarked(k) => ClaimMarked(k)'
      BY <1>1, <1>2 DEF ClaimMarked, HasStatus, Registered
    <2> QED
      BY <1>1, <1>2, <2>1, <2>2 DEF PaidOnce
  <1>6. BasketShape'
    <2>1. SameTerms
      BY <1>2 DEF SameTerms
    <2> QED
      BY <1>1, <1>t, <2>1, StillBasket DEF RewardsInv
  <1>7. SupplyIsHeld'
    BY DEF Files, RewardsInv
  <1> QED
    BY <1>3, <1>4, <1>5, <1>6, <1>7 DEF RewardsInv

\* The close of a governed ledger is a close of the rewards.
LEMMA CloseGovernedBuilt ==
    ASSUME LpTypeOK, TokensBounded, EpochShape, ListOnce, CloseGoverned
    PROVE  Built
  <1>1. PICK raw \in [Keys -> RawScores] :
          CloseRewards(pruned(closedEpoch(VaultSnapshot, AmmSnapshot, raw)), raw)
    BY DEF CloseGoverned
  <1> DEFINE e == closedEpoch(VaultSnapshot, AmmSnapshot, raw)
             d == pruned(e)
  <1>2. /\ e \in Epoch \cup {NoEpoch}
        /\ OpenList(e) = <<>> \/ OpenList(e) = OpenList(epoch)
    BY ClosedEpochTyped
  <1>3. CloseRewards(d, raw)
    BY <1>1
  <1>4. Relisted(e, d)
    <2> HIDE DEF e
    <2>1. IsInjective(<<>>)
      BY DEF IsInjective
    <2>2. IsInjective(OpenList(e))
      BY <1>2, <2>1 DEF ListOnce
    <2> QED
      BY <1>2, <2>2, PrunedTyped
  <1> HIDE DEF d
  <1> QED
    BY <1>3, <1>4, RewardsClosed

\* The close of a governed ledger.
LEMMA CloseGovernedRewards ==
    ASSUME RewardsInv, ListOnce, CloseGoverned
    PROVE  RewardsInv'
  <1>t. LpTypeOK /\ TokensBounded /\ EpochShape /\ LedgerTypeOK
    BY DEF RewardsInv, PoolInv, LpTypeOK, EpochTypeOK, TypeOK
  <1>1. Built
    BY <1>t, CloseGovernedBuilt
  <1>2. PoolInv' /\ ScoreInv' /\ SupplyIsHeld' /\ BasketShape'
    BY <1>1, <1>t, ClosePool, CloseScores, CloseSupply, CloseBasket DEF RewardsInv
  <1>3. PaidKeysMarked'
    BY <1>1, CloseMark DEF RewardsInv, PaidKeysMarked
  <1> QED
    BY <1>2, <1>3 DEF RewardsInv

\* Every step of the governed ledger keeps the rewards and the supply.
LEMMA NextGovRewards == GovInv /\ RewardsInv /\ [GovNext]_govVars => RewardsInv'
  <1> SUFFICES ASSUME GovInv, RewardsInv, [GovNext]_govVars PROVE RewardsInv'
    OBVIOUS
  <1>t. LpTypeOK /\ TokensBounded /\ ListOnce
    BY DEF GovInv, ListPending, ListOnce
  <1>1. CASE RewardTx
    BY <1>1, TxRewards
  <1>2. ASSUME NEW a \in Accounts, NEW k \in Keys, NEW p \in Proposals,
               NEW x \in ProposalValues, GovernanceProposal(a, k, p, x)
        PROVE  RewardsInv'
    BY <1>2, <1>t, ProposalEffect, FilesRewards
  <1>3. ASSUME NEW a \in Accounts, NEW k \in Keys, NEW p \in Proposals,
               NEW yes \in BOOLEAN, GovernanceVote(a, k, p, yes)
        PROVE  RewardsInv'
    BY <1>3, <1>t, VoteEffect, FilesRewards
  <1>4. CASE CloseGoverned
    BY <1>4, <1>t, CloseGovernedRewards
  <1>5. CASE UNCHANGED govVars
    <2>1. UNCHANGED lpVars
      BY <1>5 DEF govVars
    <2> QED
      BY <2>1, NextPool, NextScores, NextMarks, NextRewardSupply, NextBasket DEF RewardsInv
  <1> QED
    BY <1>1, <1>2, <1>3, <1>4, <1>5 DEF GovNext, GovernanceTx

LEMMA RewardsAlways == GovSpec => []RewardsInv
  <1>1. GovInit => RewardsInv
    <2> SUFFICES ASSUME GovInit PROVE RewardsInv
      OBVIOUS
    <2>1. LPInit
      BY DEF GovInit
    <2>2. PoolInv
      BY <2>1, InitPool
    <2>3. ScoreInv /\ PaidKeysMarked /\ BasketShape
      BY <2>1, InitShapes
    <2>4. SupplyIsHeld
      BY <2>1, InitSupply DEF LPInit, EpochInit
    <2> QED
      BY <2>2, <2>3, <2>4 DEF RewardsInv
  <1> QED
    BY <1>1, GovAlways, NextGovRewards, PTL DEF GovSpec

\* Proposals, votes and tallies move no drop but their fees: with governance
\* too, the supply in the ledger header is what accounts, treasury, bonds and
\* names hold (GovernanceProposal, GovernanceVote, applyGovernanceTally).
THEOREM SupplyHeldWithGovernance == GovSpec => []SupplyIsHeld
  <1>1. RewardsInv => SupplyIsHeld
    BY DEF RewardsInv
  <1> QED
    BY <1>1, RewardsAlways, PTL

\* Governance shares the reward epoch object, whose list it appends to and
\* prunes at the close in which the epoch may be replaced. Whatever it does, the
\* treasury can pay the pool, the pool and what was paid are the emission, the
\* aggregate covers the bonded scores, a key is paid once in an epoch and the
\* vault providers stay within their basket (buildLedgerImpl).
THEOREM RewardsKeptWithGovernance ==
    GovSpec => [](/\ PoolFunded /\ PoolAccounting /\ AggregateCoversBonded
                  /\ OneRewardPerEpoch /\ LpBasketKept)
  <1>1. RewardsInv => /\ PoolFunded /\ PoolAccounting /\ AggregateCoversBonded
                      /\ OneRewardPerEpoch /\ LpBasketKept
    BY BasketBounds DEF RewardsInv, PoolInv, ScoreInv, PaidKeysMarked, PaidOnce,
                        OneRewardPerEpoch
  <1> QED
    BY <1>1, RewardsAlways, PTL

-----------------------------------------------------------------------------
(* The bonds under rewards and governance                                  *)

BondsInv == BondsWellFormed /\ OnlyEquivocatorsSlashed

\* c is the bond b but for its score and its mark, or both are absent.
SameStanding(b, c) ==
    /\ b = NoBond <=> c = NoBond
    /\ b # NoBond =>
         /\ c.owner = b.owner /\ c.amount = b.amount /\ c.status = b.status
         /\ c.start = b.start /\ c.mult = b.mult /\ c.slashes = b.slashes

\* Scores, marks, later ledgers and further validations do not touch the shape
\* of a bond or the guilt of a slashed key.
LEMMA StandingKept ==
    ASSUME TypeOK, BondsInv, \A k \in Keys : SameStanding(bonds[k], bonds'[k]),
           seq' \in Nat, seq' >= seq, signed \subseteq signed'
    PROVE  BondsInv'
  <1>1. ASSUME NEW k \in Keys, Registered(k)'
        PROVE  BondShape(k)' /\ (bonds'[k].slashes > 0 => Equivocated(k)')
    <2>1. Registered(k) /\ SameStanding(bonds[k], bonds'[k])
      BY <1>1 DEF Registered, SameStanding
    <2>2. BondShape(k) /\ (bonds[k].slashes > 0 => Equivocated(k))
      BY <2>1 DEF BondsInv, BondsWellFormed, OnlyEquivocatorsSlashed
    <2>3. bonds[k].start \in Nat /\ seq \in Nat
      BY <2>1, RegisteredTyped DEF TypeOK, LedgerTypeOK, Bond
    <2>4. BondShape(k)'
      BY <2>1, <2>2, <2>3 DEF BondShape, SameStanding, Registered
    <2>5. bonds'[k].slashes > 0 => Equivocated(k)'
      BY <2>1, <2>2, EquivocationLasts DEF SameStanding, Registered
    <2> QED
      BY <2>4, <2>5
  <1> QED
    BY <1>1 DEF BondsInv, BondsWellFormed, OnlyEquivocatorsSlashed

\* A transaction of the rewards is one of the bonds or leaves them standing.
LEMMA TxBonds ==
    ASSUME LpTypeOK, TokensBounded, BondsInv, RewardTx
    PROVE  BondsInv'
  <1>t. /\ TypeOK /\ seq \in Nat /\ bonds \in [Keys -> Bond \cup {NoBond}]
        /\ NoBond \notin Bond
    BY AbsentAssumption DEF LpTypeOK, EpochTypeOK, TypeOK, LedgerTypeOK
  <1>1. Transacts /\ seq' = seq
    BY TxEffect DEF Transacts
  <1>2. signed \subseteq signed'
    <2>1. CASE ProviderStep
      <3>1. ASSUME NEW a \in Accounts, NEW v \in Vaults,
                   \/ ClaimLPReward(a, v)
                   \/ MintShares(a, v)
                   \/ BurnShares(a, v)
                   \/ \E b \in Accounts : SendShares(a, b, v)
            PROVE  UNCHANGED signed
        BY <3>1 DEF ClaimLPReward, LpClaim, MintShares, BurnShares, SendShares, MoveTx
      <3>2. ASSUME NEW a \in Accounts, NEW m \in Amms,
                   ClaimAmmLpReward(a, m) \/ ProvideLiquidity(a, m)
            PROVE  UNCHANGED signed
        BY <3>2 DEF ClaimAmmLpReward, LpClaim, ProvideLiquidity
      <3> QED
        BY <2>1, <3>1, <3>2 DEF ProviderStep
    <2>2. ASSUME NEW a \in Accounts, NEW k \in Keys, BondTx(a, k)
          PROVE  signed \subseteq signed'
      BY <1>t, <2>2, BondTxEffect DEF TypeOK
    <2>3. ASSUME NEW v \in Validation, Sign(v)
          PROVE  signed \subseteq signed'
      BY <2>3 DEF Sign
    <2>4. ASSUME NEW a \in Accounts, NEW k \in Keys, ClaimReward(a, k)
          PROVE  signed \subseteq signed'
      BY <2>4 DEF ClaimReward
    <2> QED
      BY <2>1, <2>2, <2>3, <2>4 DEF RewardTx, ValidatorStep, BondStep
  <1>3. ASSUME NEW a \in Accounts, NEW k \in Keys, BondTx(a, k)
        PROVE  BondsInv'
    <2>1. [Next]_bondVars
      BY <1>3 DEF Next
    <2> QED
      BY <1>t, <2>1, NextWellFormed, NextOnlyEquivocators DEF BondsInv
  <1>4. ASSUME UNCHANGED bonds PROVE BondsInv'
    <2>1. \A k \in Keys : SameStanding(bonds[k], bonds'[k])
      BY <1>4 DEF SameStanding
    <2> QED
      BY <1>1, <1>2, <1>t, <2>1, StandingKept
  <1>5. ASSUME NEW a \in Accounts, NEW k \in Keys, NEW pay \in Nat, Rewards(a, k, pay)
        PROVE  BondsInv'
    <2>1. bonds' = [bonds EXCEPT ![k] = [@ EXCEPT !.claimed = epoch.number]]
      BY <1>5 DEF Rewards
    <2>2. Registered(k)
      BY <1>5 DEF Rewards, Claimable, HasStatus
    <2>3. bonds[k] \in Bond /\ epoch.number \in Nat
      BY <1>5, <1>t, <2>2, EpochTyped, RegisteredTyped DEF TypeOK, Rewards, Pays
    <2>4. bonds'[k] = [bonds[k] EXCEPT !.claimed = epoch.number]
      BY <1>t, <2>1
    <2>5. SameStanding(bonds[k], bonds'[k])
      BY <1>t, <2>3, <2>4, MarkedTyped DEF SameStanding
    <2>6. \A j \in Keys : SameStanding(bonds[j], bonds'[j])
      BY <1>t, <2>1, <2>5 DEF SameStanding
    <2> QED
      BY <1>1, <1>2, <1>t, <2>6, StandingKept
  <1> QED
    BY <1>1, <1>3, <1>4, <1>5 DEF Transacts, BondMoves, Moves, KeyPaid, VaultPaid, AmmPaid

\* Every step of the governed ledger keeps the bonds in shape and punishes only
\* the guilty.
LEMMA NextGovBonds ==
    GovInv /\ RewardsInv /\ BondsInv /\ [GovNext]_govVars => BondsInv'
  <1> SUFFICES ASSUME GovInv, RewardsInv, BondsInv, [GovNext]_govVars PROVE BondsInv'
    OBVIOUS
  <1>t. /\ LpTypeOK /\ TokensBounded /\ ListOnce /\ EpochShape
        /\ TypeOK /\ seq \in Nat
    BY DEF GovInv, ListPending, ListOnce, RewardsInv, PoolInv, LpTypeOK, EpochTypeOK, TypeOK,
           LedgerTypeOK
  <1>q. ASSUME UNCHANGED <<bonds, seq, signed>> PROVE BondsInv'
    <2>1. \A k \in Keys : SameStanding(bonds[k], bonds'[k])
      BY <1>q DEF SameStanding
    <2> QED
      BY <1>q, <1>t, <2>1, StandingKept
  <1>1. CASE RewardTx
    BY <1>1, <1>t, TxBonds
  <1>2. ASSUME NEW a \in Accounts, NEW k \in Keys, NEW p \in Proposals,
               NEW x \in ProposalValues, GovernanceProposal(a, k, p, x)
        PROVE  BondsInv'
    <2>1. Files
      BY <1>2, <1>t, ProposalEffect
    <2>2. UNCHANGED signed
      BY <1>2 DEF GovernanceProposal
    <2> QED
      BY <1>q, <2>1, <2>2 DEF Files
  <1>3. ASSUME NEW a \in Accounts, NEW k \in Keys, NEW p \in Proposals,
               NEW yes \in BOOLEAN, GovernanceVote(a, k, p, yes)
        PROVE  BondsInv'
    <2>1. Files
      BY <1>3, <1>t, VoteEffect
    <2>2. UNCHANGED signed
      BY <1>3 DEF GovernanceVote
    <2> QED
      BY <1>q, <2>1, <2>2 DEF Files
  <1>4. CASE CloseGoverned
    <2>1. seq' = seq + 1 /\ \A k \in Keys : Rescored(bonds[k], bonds'[k])
      BY <1>4, <1>t, CloseGovernedBuilt DEF Built
    <2>2. UNCHANGED signed
      BY <1>4 DEF CloseGoverned, CloseRewards, CloseWith
    <2>3. \A k \in Keys : SameStanding(bonds[k], bonds'[k])
      BY <2>1 DEF Rescored, SameStanding
    <2>4. seq' \in Nat /\ seq' >= seq
      BY <1>t, <2>1
    <2> QED
      BY <1>t, <2>2, <2>3, <2>4, StandingKept
  <1>5. CASE UNCHANGED govVars
    BY <1>5, <1>q DEF govVars, lpVars, epochVars, bondVars, ledgerVars
  <1> QED
    BY <1>1, <1>2, <1>3, <1>4, <1>5 DEF GovNext, GovernanceTx

\* With scoring, claims and governance beside the bond transactions a bond that
\* can earn is still unslashed, at the full sfSlashMultiplier that
\* ValidatorScoring reads, a slashed one empty and on its way out, and
\* nobody is slashed whose key did not sign two hashes for one ledger
\* (ValidatorSlash, ClaimReward, buildLedgerImpl).
THEOREM BondsKeptWithGovernance == GovSpec => [](BondsWellFormed /\ OnlyEquivocatorsSlashed)
  <1>1. GovInit => BondsInv
    BY DEF GovInit, LPInit, EpochInit, Init, LedgerInit, BondsInv, BondsWellFormed,
           OnlyEquivocatorsSlashed, Registered
  <1>2. BondsInv => BondsWellFormed /\ OnlyEquivocatorsSlashed
    BY DEF BondsInv
  <1> QED
    BY <1>1, <1>2, GovAlways, RewardsAlways, NextGovBonds, PTL DEF GovSpec

=============================================================================
