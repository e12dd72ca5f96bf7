--------------------------- MODULE Lending_proofs ---------------------------
(***************************************************************************)
(* Theorems about loans and vaults, for every number of lenders, brokers   *)
(* and loans, every schedule, rate, price and amount.                      *)
(*                                                                         *)
(* Every step that concerns a loan writes one loan, the broker of that     *)
(* loan and the vault. BooksKept says which changes of the three keep all  *)
(* sums over loans and brokers in step; each operation is shown to be such *)
(* a change. What the lenders are promised is an argument of its own, over *)
(* shares, debts and the index.                                            *)
(***************************************************************************)
EXTENDS Lending, Sums_proofs

-----------------------------------------------------------------------------
(* Types and the parts of the books                                        *)

Vault == [total : Int, available : Int, loss : Int, pool : Nat, index : Nat]

LendingTypeOK ==
    /\ vault \in Vault
    /\ shares \in [Lenders -> Nat]
    /\ debt \in [Lenders -> Nat \cup {Absent}]
    /\ brokers \in [Brokers -> LoanBroker \cup {NoBroker}]
    /\ loans \in [Loans -> Loan \cup {NoLoan}]

\* What one loan adds to the books.
OwedIn(x) == IF x = NoLoan THEN 0 ELSE x.owed
OwedInTo(x, b) == IF x # NoLoan /\ x.broker = b THEN x.owed ELSE 0
LossIn(x) == IF x # NoLoan /\ x.remaining > 0 /\ x.impaired THEN x.owed ELSE 0
PledgedIn(x) == IF x = NoLoan THEN 0 ELSE x.collateral
DropsIn(y) == IF y = NoBroker THEN 0 ELSE y.drops

OwedAll(ls) == [i \in Loans |-> OwedIn(ls[i])]
OwedTo(ls, b) == [i \in Loans |-> OwedInTo(ls[i], b)]
LossAll(ls) == [i \in Loans |-> LossIn(ls[i])]
PledgedAll(ls) == [i \in Loans |-> PledgedIn(ls[i])]
DropsAll(bs) == [b \in Brokers |-> DropsIn(bs[b])]
LoansOf(ls, b) == {i \in Loans : ls[i] # NoLoan /\ ls[i].broker = b}

\* The properties in these terms.
LEMMA VaultBalancedIs ==
    VaultBalanced <=> /\ vault.total = vault.available + SumFunction(OwedAll(loans))
                      /\ vault.available >= 0
  <1>1. [x \in Loans |-> Owed(x)] = OwedAll(loans)
    BY DEF Owed, OwedAll, OwedIn, Exists
  <1> QED
    BY <1>1 DEF VaultBalanced, SumOver

LEMMA LossMatchesIs ==
    LossMatchesImpaired <=> vault.loss = SumFunction(LossAll(loans))
  <1> DEFINE value(i) == IF Active(i) /\ loans[i].impaired THEN Owed(i) ELSE 0
  <1>1. [x \in Loans |-> value(x)] = LossAll(loans)
    BY DEF Active, Owed, LossAll, LossIn, Exists
  <1>2. LossMatchesImpaired <=> vault.loss = SumFunction([x \in Loans |-> value(x)])
    BY DEF LossMatchesImpaired, SumOver
  <1> QED
    BY <1>1, <1>2

LEMMA DebtMatchesIs ==
    DebtMatchesLoans <=>
      \A b \in Brokers : brokers[b] # NoBroker =>
         /\ brokers[b].debt = SumFunction(OwedTo(loans, b))
         /\ brokers[b].loans = Cardinality(LoansOf(loans, b))
  <1> DEFINE Of(i, b) == Exists(i) /\ loans[i].broker = b
             value(i, b) == IF Of(i, b) THEN Owed(i) ELSE 0
  <1>1. ASSUME NEW b
        PROVE  /\ [x \in Loans |-> value(x, b)] = OwedTo(loans, b)
               /\ {i \in Loans : Of(i, b)} = LoansOf(loans, b)
    BY DEF Owed, OwedTo, OwedInTo, LoansOf, Exists
  <1>2. DebtMatchesLoans <=>
          \A b \in Brokers : brokers[b] # NoBroker =>
            /\ brokers[b].debt = SumFunction([x \in Loans |-> value(x, b)])
            /\ brokers[b].loans = Cardinality({i \in Loans : Of(i, b)})
    BY DEF DebtMatchesLoans, SumOver
  <1> QED
    BY <1>1, <1>2

LEMMA CustodyIs ==
    CustodyCovers <=>
      SumFunction(DropsAll(brokers)) >= SumFunction(PledgedAll(loans)) + vault.pool
  <1> DEFINE held(b) == IF brokers[b] = NoBroker THEN 0 ELSE brokers[b].drops
             pledged(i) == IF Exists(i) THEN loans[i].collateral ELSE 0
  <1>1. [x \in Brokers |-> held(x)] = DropsAll(brokers)
    BY DEF DropsAll, DropsIn
  <1>2. [x \in Loans |-> pledged(x)] = PledgedAll(loans)
    BY DEF PledgedAll, PledgedIn, Exists
  <1>3. CustodyCovers <=> SumFunction([x \in Brokers |-> held(x)])
                            >= SumFunction([x \in Loans |-> pledged(x)]) + vault.pool
    BY DEF CustodyCovers, SumOver
  <1> QED
    BY <1>1, <1>2, <1>3

\* What a loan adds is a number.
LEMMA LoanTyped ==
    ASSUME NEW x \in Loan \cup {NoLoan}
    PROVE  /\ OwedIn(x) \in Nat /\ LossIn(x) \in Nat /\ PledgedIn(x) \in Nat
           /\ \A b : OwedInTo(x, b) \in Nat
  BY DEF OwedIn, LossIn, PledgedIn, OwedInTo, Loan

LEMMA BrokerTyped ==
    ASSUME NEW y \in LoanBroker \cup {NoBroker}
    PROVE  DropsIn(y) \in Nat
  BY DEF DropsIn, LoanBroker

LEMMA BooksTyped ==
    ASSUME NEW ls \in [Loans -> Loan \cup {NoLoan}],
           NEW bs \in [Brokers -> LoanBroker \cup {NoBroker}]
    PROVE  /\ OwedAll(ls) \in [Loans -> Nat] /\ LossAll(ls) \in [Loans -> Nat]
           /\ PledgedAll(ls) \in [Loans -> Nat]
           /\ \A b : OwedTo(ls, b) \in [Loans -> Nat]
           /\ DropsAll(bs) \in [Brokers -> Nat]
           /\ SumFunction(OwedAll(ls)) \in Nat /\ SumFunction(LossAll(ls)) \in Nat
           /\ SumFunction(PledgedAll(ls)) \in Nat
           /\ \A b : SumFunction(OwedTo(ls, b)) \in Nat
           /\ SumFunction(DropsAll(bs)) \in Nat
  <1>1. \A i \in Loans : /\ OwedIn(ls[i]) \in Nat /\ LossIn(ls[i]) \in Nat
                         /\ PledgedIn(ls[i]) \in Nat
                         /\ \A b : OwedInTo(ls[i], b) \in Nat
    BY LoanTyped
  <1>2. \A b \in Brokers : DropsIn(bs[b]) \in Nat
    BY BrokerTyped
  <1>3. /\ OwedAll(ls) \in [Loans -> Nat] /\ LossAll(ls) \in [Loans -> Nat]
        /\ PledgedAll(ls) \in [Loans -> Nat]
        /\ \A b : OwedTo(ls, b) \in [Loans -> Nat]
        /\ DropsAll(bs) \in [Brokers -> Nat]
    BY <1>1, <1>2 DEF OwedAll, LossAll, PledgedAll, OwedTo, DropsAll
  <1>4. \A f \in [Loans -> Nat] : SumFunction(f) \in Nat
    BY SumTyped, ObjectsAssumption
  <1>5. \A f \in [Brokers -> Nat] : SumFunction(f) \in Nat
    BY SumTyped, ObjectsAssumption
  <1> QED
    BY <1>3, <1>4, <1>5

\* Changing one of the summands, all of them naturals.
LEMMA LoansSum ==
    ASSUME NEW f \in [Loans -> Nat], NEW g \in [Loans -> Nat], NEW i \in Loans,
           \A j \in Loans : j # i => f[j] = g[j]
    PROVE  SumFunction(g) = SumFunction(f) - f[i] + g[i]
  <1>1. f \in [Loans -> Int] /\ g \in [Loans -> Int]
    OBVIOUS
  <1>2. IsFiniteSet(Loans)
    BY ObjectsAssumption
  <1> QED
    BY <1>1, <1>2, SumUpdate

\* Writing one loan changes the sums by what that loan adds.
LEMMA LoanWritten ==
    ASSUME NEW ls \in [Loans -> Loan \cup {NoLoan}],
           NEW ms \in [Loans -> Loan \cup {NoLoan}], NEW i \in Loans,
           \A j \in Loans : j # i => ms[j] = ls[j]
    PROVE  /\ SumFunction(OwedAll(ms)) = SumFunction(OwedAll(ls)) - OwedIn(ls[i]) + OwedIn(ms[i])
           /\ SumFunction(LossAll(ms)) = SumFunction(LossAll(ls)) - LossIn(ls[i]) + LossIn(ms[i])
           /\ SumFunction(PledgedAll(ms))
                = SumFunction(PledgedAll(ls)) - PledgedIn(ls[i]) + PledgedIn(ms[i])
           /\ \A b : SumFunction(OwedTo(ms, b))
                = SumFunction(OwedTo(ls, b)) - OwedInTo(ls[i], b) + OwedInTo(ms[i], b)
  <1>2. PICK bs \in [Brokers -> LoanBroker \cup {NoBroker}] : TRUE
    <2>1. [b \in Brokers |-> NoBroker] \in [Brokers -> LoanBroker \cup {NoBroker}]
      OBVIOUS
    <2> QED
      BY <2>1
  <1>3. /\ OwedAll(ls) \in [Loans -> Nat] /\ LossAll(ls) \in [Loans -> Nat]
        /\ PledgedAll(ls) \in [Loans -> Nat] /\ \A b : OwedTo(ls, b) \in [Loans -> Nat]
        /\ OwedAll(ms) \in [Loans -> Nat] /\ LossAll(ms) \in [Loans -> Nat]
        /\ PledgedAll(ms) \in [Loans -> Nat] /\ \A b : OwedTo(ms, b) \in [Loans -> Nat]
    BY <1>2, BooksTyped
  <1>5. SumFunction(OwedAll(ms)) = SumFunction(OwedAll(ls)) - OwedIn(ls[i]) + OwedIn(ms[i])
    <2> DEFINE f == OwedAll(ls)
               g == OwedAll(ms)
    <2>1. f \in [Loans -> Nat] /\ g \in [Loans -> Nat]
      BY <1>3
    <2>2. /\ \A j \in Loans : j # i => f[j] = g[j]
          /\ f[i] = OwedIn(ls[i]) /\ g[i] = OwedIn(ms[i])
      BY DEF OwedAll
    <2> HIDE DEF f, g
    <2>3. SumFunction(g) = SumFunction(f) - f[i] + g[i]
      BY <2>1, <2>2, LoansSum
    <2> QED
      BY <2>2, <2>3 DEF f, g
  <1>6. SumFunction(LossAll(ms)) = SumFunction(LossAll(ls)) - LossIn(ls[i]) + LossIn(ms[i])
    <2> DEFINE f == LossAll(ls)
               g == LossAll(ms)
    <2>1. f \in [Loans -> Nat] /\ g \in [Loans -> Nat]
      BY <1>3
    <2>2. /\ \A j \in Loans : j # i => f[j] = g[j]
          /\ f[i] = LossIn(ls[i]) /\ g[i] = LossIn(ms[i])
      BY DEF LossAll
    <2> HIDE DEF f, g
    <2>3. SumFunction(g) = SumFunction(f) - f[i] + g[i]
      BY <2>1, <2>2, LoansSum
    <2> QED
      BY <2>2, <2>3 DEF f, g
  <1>7. SumFunction(PledgedAll(ms)) = SumFunction(PledgedAll(ls)) - PledgedIn(ls[i]) + PledgedIn(ms[i])
    <2> DEFINE f == PledgedAll(ls)
               g == PledgedAll(ms)
    <2>1. f \in [Loans -> Nat] /\ g \in [Loans -> Nat]
      BY <1>3
    <2>2. /\ \A j \in Loans : j # i => f[j] = g[j]
          /\ f[i] = PledgedIn(ls[i]) /\ g[i] = PledgedIn(ms[i])
      BY DEF PledgedAll
    <2> HIDE DEF f, g
    <2>3. SumFunction(g) = SumFunction(f) - f[i] + g[i]
      BY <2>1, <2>2, LoansSum
    <2> QED
      BY <2>2, <2>3 DEF f, g
  <1>8. ASSUME NEW b
        PROVE  SumFunction(OwedTo(ms, b))
                 = SumFunction(OwedTo(ls, b)) - OwedInTo(ls[i], b) + OwedInTo(ms[i], b)
    <2> DEFINE f == OwedTo(ls, b)
               g == OwedTo(ms, b)
    <2>1. f \in [Loans -> Nat] /\ g \in [Loans -> Nat]
      BY <1>3
    <2>2. /\ \A j \in Loans : j # i => f[j] = g[j]
          /\ f[i] = OwedInTo(ls[i], b) /\ g[i] = OwedInTo(ms[i], b)
      BY DEF OwedTo
    <2> HIDE DEF f, g
    <2>3. SumFunction(g) = SumFunction(f) - f[i] + g[i]
      BY <2>1, <2>2, LoansSum
    <2> QED
      BY <2>2, <2>3 DEF f, g
  <1> QED
    BY <1>5, <1>6, <1>7, <1>8

\* Writing one broker changes the drops held by what that broker holds.
LEMMA BrokerWritten ==
    ASSUME NEW bs \in [Brokers -> LoanBroker \cup {NoBroker}],
           NEW cs \in [Brokers -> LoanBroker \cup {NoBroker}], NEW b \in Brokers,
           \A c \in Brokers : c # b => cs[c] = bs[c]
    PROVE  SumFunction(DropsAll(cs))
             = SumFunction(DropsAll(bs)) - DropsIn(bs[b]) + DropsIn(cs[b])
  <1> DEFINE f == DropsAll(bs)
             g == DropsAll(cs)
  <1>1. \A c \in Brokers : DropsIn(bs[c]) \in Nat /\ DropsIn(cs[c]) \in Nat
    BY BrokerTyped
  <1>2. f \in [Brokers -> Int] /\ g \in [Brokers -> Int]
    BY <1>1 DEF DropsAll
  <1>3. /\ \A c \in Brokers : c # b => f[c] = g[c]
        /\ f[b] = DropsIn(bs[b]) /\ g[b] = DropsIn(cs[b])
    BY DEF DropsAll
  <1>4. IsFiniteSet(Brokers)
    BY ObjectsAssumption
  <1> HIDE DEF f, g
  <1>5. SumFunction(g) = SumFunction(f) - f[b] + g[b]
    BY <1>2, <1>3, <1>4, SumUpdate
  <1> QED
    BY <1>3, <1>5 DEF f, g

\* A broker without loans is owed nothing.
LEMMA NoLoansNoDebt ==
    ASSUME NEW ls \in [Loans -> Loan \cup {NoLoan}], NEW b, LoansOf(ls, b) = {}
    PROVE  SumFunction(OwedTo(ls, b)) = 0 /\ Cardinality(LoansOf(ls, b)) = 0
  <1>1. OwedTo(ls, b) = [i \in Loans |-> 0]
    BY DEF OwedTo, OwedInTo, LoansOf
  <1>2. IsFiniteSet(Loans) /\ Cardinality(Loans) \in Nat
    BY ObjectsAssumption, FS_CardinalityType
  <1>3. SumFunction(OwedTo(ls, b)) = Cardinality(Loans) * 0
    BY <1>1, <1>2, SumOfConstant
  <1> QED
    BY <1>2, <1>3, FS_EmptySet

Count(x) == IF x = NoLoan THEN 0 ELSE 1

\* The number of a broker's loans, when one loan of that broker is written.
LEMMA LoanCounted ==
    ASSUME NEW ls \in [Loans -> Loan \cup {NoLoan}],
           NEW ms \in [Loans -> Loan \cup {NoLoan}], NEW i \in Loans,
           \A j \in Loans : j # i => ms[j] = ls[j],
           NEW b \in Brokers,
           ls[i] # NoLoan => ls[i].broker = b,
           ms[i] # NoLoan => ms[i].broker = b
    PROVE  /\ \A c : Cardinality(LoansOf(ls, c)) \in Nat
           /\ Cardinality(LoansOf(ms, b))
                = Cardinality(LoansOf(ls, b)) - Count(ls[i]) + Count(ms[i])
           /\ \A c : c # b => LoansOf(ms, c) = LoansOf(ls, c)
  <1>2. ASSUME NEW c PROVE IsFiniteSet(LoansOf(ls, c)) /\ IsFiniteSet(LoansOf(ms, c))
    BY ObjectsAssumption, FS_Subset DEF LoansOf
  <1>3. ASSUME NEW c PROVE Cardinality(LoansOf(ls, c)) \in Nat
    BY <1>2, FS_CardinalityType
  <1>4. ASSUME NEW c, c # b PROVE LoansOf(ms, c) = LoansOf(ls, c)
    BY <1>4 DEF LoansOf
  <1> DEFINE A == LoansOf(ls, b)
             B == LoansOf(ms, b)
  <1>5. Cardinality(B) = Cardinality(A) - Count(ls[i]) + Count(ms[i])
    <2>1. IsFiniteSet(A) /\ IsFiniteSet(B) /\ Cardinality(A) \in Nat
      BY <1>2, <1>3
    <2>2. CASE ls[i] = NoLoan /\ ms[i] = NoLoan
      <3>1. A = B
        BY <2>2 DEF LoansOf
      <3> QED
        BY <2>1, <2>2, <3>1 DEF Count
    <2>3. CASE ls[i] # NoLoan /\ ms[i] # NoLoan
      <3>1. A = B
        BY <2>3 DEF LoansOf
      <3> QED
        BY <2>1, <2>3, <3>1 DEF Count
    <2>4. CASE ls[i] = NoLoan /\ ms[i] # NoLoan
      <3>1. i \notin A /\ B = A \cup {i}
        BY <2>4 DEF LoansOf
      <3> HIDE DEF A, B
      <3>2. Cardinality(B) = Cardinality(A) + 1
        BY <2>1, <3>1, FS_AddElement
      <3> QED
        BY <2>1, <2>4, <3>2 DEF Count
    <2>5. CASE ls[i] # NoLoan /\ ms[i] = NoLoan
      <3>1. i \in A /\ B = A \ {i}
        BY <2>5 DEF LoansOf
      <3> HIDE DEF A, B
      <3>2. Cardinality(B) = Cardinality(A) - 1
        BY <2>1, <3>1, FS_RemoveElement
      <3> QED
        BY <2>1, <2>5, <3>2 DEF Count
    <2> QED
      BY <2>2, <2>3, <2>4, <2>5
  <1> QED
    BY <1>3, <1>4, <1>5

-----------------------------------------------------------------------------
(* The books                                                               *)

\* A loan has a broker, and when it has no payment left nothing is owed.
LoansShaped(bs, ls) ==
    \A i \in Loans : ls[i] # NoLoan =>
        /\ bs[ls[i].broker] # NoBroker
        /\ ls[i].remaining = 0 => ls[i].owed = 0

BrokersMatch(bs, ls) ==
    \A b \in Brokers : bs[b] # NoBroker =>
        /\ bs[b].debt = SumFunction(OwedTo(ls, b))
        /\ bs[b].loans = Cardinality(LoansOf(ls, b))

\* The books of vault v, brokers bs and loans ls.
Books(v, bs, ls) ==
    /\ v.total = v.available + SumFunction(OwedAll(ls)) /\ v.available >= 0
    /\ v.loss = SumFunction(LossAll(ls))
    /\ BrokersMatch(bs, ls)
    /\ SumFunction(DropsAll(bs)) >= SumFunction(PledgedAll(ls)) + v.pool
    /\ LoansShaped(bs, ls)

BooksTypes(v, bs, ls) ==
    /\ v \in Vault
    /\ bs \in [Brokers -> LoanBroker \cup {NoBroker}]
    /\ ls \in [Loans -> Loan \cup {NoLoan}]

\* A change of one loan, of its broker and of the vault that keeps the books.
LEMMA BooksKept ==
    ASSUME NEW v, NEW bs, NEW ls, BooksTypes(v, bs, ls), Books(v, bs, ls),
           NEW w, NEW cs, NEW ms, BooksTypes(w, cs, ms),
           NEW i \in Loans, NEW b \in Brokers,
           \A j \in Loans : j # i => ms[j] = ls[j],
           \A c \in Brokers : c # b => cs[c] = bs[c],
           bs[b] # NoBroker, cs[b] # NoBroker,
           ls[i] # NoLoan => ls[i].broker = b,
           ms[i] # NoLoan => ms[i].broker = b,
           ms[i] # NoLoan /\ ms[i].remaining = 0 => ms[i].owed = 0,
           cs[b].debt = bs[b].debt - OwedIn(ls[i]) + OwedIn(ms[i]),
           cs[b].loans = bs[b].loans - Count(ls[i]) + Count(ms[i]),
           w.available >= 0,
           w.total - w.available = v.total - v.available - OwedIn(ls[i]) + OwedIn(ms[i]),
           w.loss = v.loss - LossIn(ls[i]) + LossIn(ms[i]),
           cs[b].drops + PledgedIn(ls[i]) + v.pool
             >= bs[b].drops + PledgedIn(ms[i]) + w.pool
    PROVE  Books(w, cs, ms)
  <1>1. /\ v \in Vault /\ w \in Vault
        /\ bs \in [Brokers -> LoanBroker \cup {NoBroker}]
        /\ cs \in [Brokers -> LoanBroker \cup {NoBroker}]
        /\ ls \in [Loans -> Loan \cup {NoLoan}] /\ ms \in [Loans -> Loan \cup {NoLoan}]
        /\ ms[i] \in Loan \cup {NoLoan} /\ ls[i] \in Loan \cup {NoLoan}
    BY DEF BooksTypes
  <1>3. /\ SumFunction(OwedAll(ms)) = SumFunction(OwedAll(ls)) - OwedIn(ls[i]) + OwedIn(ms[i])
        /\ SumFunction(LossAll(ms)) = SumFunction(LossAll(ls)) - LossIn(ls[i]) + LossIn(ms[i])
        /\ SumFunction(PledgedAll(ms))
             = SumFunction(PledgedAll(ls)) - PledgedIn(ls[i]) + PledgedIn(ms[i])
        /\ \A c : SumFunction(OwedTo(ms, c))
             = SumFunction(OwedTo(ls, c)) - OwedInTo(ls[i], c) + OwedInTo(ms[i], c)
    BY <1>1, LoanWritten
  <1>4. SumFunction(DropsAll(cs))
          = SumFunction(DropsAll(bs)) - DropsIn(bs[b]) + DropsIn(cs[b])
    BY <1>1, BrokerWritten
  <1>5. /\ Cardinality(LoansOf(ms, b)) = Cardinality(LoansOf(ls, b)) - Count(ls[i]) + Count(ms[i])
        /\ \A c : c # b => LoansOf(ms, c) = LoansOf(ls, c)
    BY <1>1, LoanCounted
  <1>6. /\ SumFunction(OwedAll(ls)) \in Nat /\ SumFunction(LossAll(ls)) \in Nat
        /\ SumFunction(PledgedAll(ls)) \in Nat /\ SumFunction(DropsAll(bs)) \in Nat
        /\ \A c : SumFunction(OwedTo(ls, c)) \in Nat
    BY <1>1, BooksTyped
  <1>7. /\ OwedIn(ms[i]) \in Nat /\ LossIn(ms[i]) \in Nat /\ PledgedIn(ms[i]) \in Nat
        /\ OwedIn(ls[i]) \in Nat /\ LossIn(ls[i]) \in Nat /\ PledgedIn(ls[i]) \in Nat
    BY <1>1, LoanTyped
  <1>8. /\ OwedInTo(ls[i], b) = OwedIn(ls[i]) /\ OwedInTo(ms[i], b) = OwedIn(ms[i])
        /\ \A c : c # b => OwedInTo(ls[i], c) = 0 /\ OwedInTo(ms[i], c) = 0
    BY DEF OwedInTo, OwedIn
  <1>9. /\ bs[b] \in LoanBroker /\ cs[b] \in LoanBroker
        /\ DropsIn(bs[b]) = bs[b].drops /\ DropsIn(cs[b]) = cs[b].drops
        /\ bs[b].drops \in Nat /\ cs[b].drops \in Nat
        /\ v.pool \in Nat /\ w.pool \in Nat /\ v.total \in Int /\ w.total \in Int
        /\ v.available \in Int /\ w.available \in Int /\ v.loss \in Int
    BY <1>1 DEF DropsIn, LoanBroker, Vault
  <1>10. w.total = w.available + SumFunction(OwedAll(ms))
    BY <1>3, <1>6, <1>7, <1>9 DEF Books
  <1>11. w.loss = SumFunction(LossAll(ms))
    BY <1>3, <1>6, <1>7, <1>9 DEF Books
  <1>12. SumFunction(DropsAll(cs)) >= SumFunction(PledgedAll(ms)) + w.pool
    BY <1>3, <1>4, <1>6, <1>7, <1>9 DEF Books
  <1>13. BrokersMatch(cs, ms)
    <2> SUFFICES ASSUME NEW c \in Brokers, cs[c] # NoBroker
                 PROVE  /\ cs[c].debt = SumFunction(OwedTo(ms, c))
                        /\ cs[c].loans = Cardinality(LoansOf(ms, c))
      BY DEF BrokersMatch
    <2>1. CASE c = b
      <3>1. /\ bs[b].debt = SumFunction(OwedTo(ls, b))
            /\ bs[b].loans = Cardinality(LoansOf(ls, b))
        BY DEF Books, BrokersMatch
      <3> QED
        BY <1>3, <1>5, <1>8, <2>1, <3>1
    <2>2. CASE c # b
      <3>1. /\ bs[c].debt = SumFunction(OwedTo(ls, c))
            /\ bs[c].loans = Cardinality(LoansOf(ls, c)) /\ cs[c] = bs[c]
        BY <2>2 DEF Books, BrokersMatch
      <3>2. SumFunction(OwedTo(ms, c)) = SumFunction(OwedTo(ls, c))
        BY <1>3, <1>6, <1>8, <2>2
      <3> QED
        BY <1>5, <2>2, <3>1, <3>2
    <2> QED
      BY <2>1, <2>2
  <1>14. LoansShaped(cs, ms)
    <2> SUFFICES ASSUME NEW j \in Loans, ms[j] # NoLoan
                 PROVE  cs[ms[j].broker] # NoBroker /\ (ms[j].remaining = 0 => ms[j].owed = 0)
      BY DEF LoansShaped
    <2>1. CASE j = i
      BY <2>1
    <2>2. CASE j # i
      <3>1. ms[j] = ls[j] /\ ls[j] \in Loan
        BY <1>1, <2>2
      <3>2. bs[ls[j].broker] # NoBroker /\ (ls[j].remaining = 0 => ls[j].owed = 0)
        BY <3>1 DEF Books, LoansShaped
      <3>3. ls[j].broker \in Brokers
        BY <3>1 DEF Loan
      <3> QED
        BY <3>1, <3>2, <3>3
    <2> QED
      BY <2>1, <2>2
  <1> QED
    BY <1>10, <1>11, <1>12, <1>13, <1>14 DEF Books

\* A change of the vault and of what brokers hold, the loans as they were.
LEMMA BooksMoved ==
    ASSUME NEW v, NEW bs, NEW ls, BooksTypes(v, bs, ls), Books(v, bs, ls),
           NEW w, NEW cs, BooksTypes(w, cs, ls),
           \A c \in Brokers :
              /\ cs[c] = NoBroker <=> bs[c] = NoBroker
              /\ cs[c] # NoBroker => cs[c].debt = bs[c].debt /\ cs[c].loans = bs[c].loans,
           w.available >= 0, w.total - w.available = v.total - v.available,
           w.loss = v.loss,
           SumFunction(DropsAll(cs)) + v.pool >= SumFunction(DropsAll(bs)) + w.pool
    PROVE  Books(w, cs, ls)
  <1>1. /\ SumFunction(OwedAll(ls)) \in Nat /\ SumFunction(PledgedAll(ls)) \in Nat
        /\ SumFunction(DropsAll(bs)) \in Nat /\ SumFunction(DropsAll(cs)) \in Nat
    BY BooksTyped DEF BooksTypes
  <1>2. /\ v.pool \in Nat /\ w.pool \in Nat /\ v.total \in Int /\ w.total \in Int
        /\ v.available \in Int /\ w.available \in Int
    BY DEF BooksTypes, Vault
  <1>3. w.total = w.available + SumFunction(OwedAll(ls))
    BY <1>1, <1>2 DEF Books
  <1>4. SumFunction(DropsAll(cs)) >= SumFunction(PledgedAll(ls)) + w.pool
    BY <1>1, <1>2 DEF Books
  <1>5. BrokersMatch(cs, ls)
    BY DEF Books, BrokersMatch
  <1>6. LoansShaped(cs, ls)
    <2> SUFFICES ASSUME NEW i \in Loans, ls[i] # NoLoan
                 PROVE  cs[ls[i].broker] # NoBroker /\ (ls[i].remaining = 0 => ls[i].owed = 0)
      BY DEF LoansShaped
    <2>1. ls[i].broker \in Brokers
      BY DEF BooksTypes, Loan
    <2> QED
      BY <2>1 DEF Books, LoansShaped
  <1> QED
    BY <1>3, <1>4, <1>5, <1>6 DEF Books

\* Writing fields of a vault.
LEMMA VaultWritten ==
    ASSUME NEW v \in Vault, NEW t \in Int, NEW a \in Int
    PROVE  /\ [v EXCEPT !.total = t, !.available = a] \in Vault
           /\ [v EXCEPT !.total = t, !.available = a].total = t
           /\ [v EXCEPT !.total = t, !.available = a].available = a
           /\ [v EXCEPT !.total = t, !.available = a].loss = v.loss
           /\ [v EXCEPT !.total = t, !.available = a].pool = v.pool
           /\ [v EXCEPT !.total = t, !.available = a].index = v.index
  BY DEF Vault

LEMMA VaultMoved ==
    ASSUME NEW v, NEW bs, NEW ls, BooksTypes(v, bs, ls), Books(v, bs, ls),
           NEW w \in Vault, w.available >= 0, w.loss = v.loss, w.pool = v.pool,
           w.total - w.available = v.total - v.available
    PROVE  Books(w, bs, ls)
  <1>1. SumFunction(OwedAll(ls)) \in Nat
    BY BooksTyped DEF BooksTypes
  <1>2. w.total = w.available + SumFunction(OwedAll(ls))
    BY <1>1 DEF Books, BooksTypes, Vault
  <1> QED
    BY <1>2 DEF Books

LendingInv == LendingTypeOK /\ Books(vault, brokers, loans)

LEMMA InvTypes ==
    ASSUME LendingInv
    PROVE  /\ BooksTypes(vault, brokers, loans) /\ Books(vault, brokers, loans)
           /\ vault \in Vault /\ shares \in [Lenders -> Nat]
           /\ debt \in [Lenders -> Nat \cup {Absent}]
           /\ brokers \in [Brokers -> LoanBroker \cup {NoBroker}]
           /\ loans \in [Loans -> Loan \cup {NoLoan}]
           /\ sharesTotal \in Nat /\ \A l \in Lenders : shares[l] <= sharesTotal
           /\ vault.total \in Nat /\ vault.available \in Nat /\ vault.loss \in Nat
           /\ vault.pool \in Nat /\ vault.index \in Nat
           /\ \A b \in Brokers : brokers[b] # NoBroker =>
                brokers[b] \in LoanBroker /\ brokers[b].debt \in Nat
  <1>1. /\ BooksTypes(vault, brokers, loans) /\ Books(vault, brokers, loans)
        /\ vault \in Vault /\ shares \in [Lenders -> Nat]
        /\ debt \in [Lenders -> Nat \cup {Absent}]
        /\ brokers \in [Brokers -> LoanBroker \cup {NoBroker}]
        /\ loans \in [Loans -> Loan \cup {NoLoan}]
    BY DEF LendingInv, LendingTypeOK, BooksTypes
  <1>2. sharesTotal \in Nat /\ \A l \in Lenders : shares[l] <= sharesTotal
    <2>1. shares \in [Lenders -> Int]
      BY <1>1
    <2> QED
      BY <1>1, <2>1, ObjectsAssumption, SumTyped DEF sharesTotal
  <1>3. /\ SumFunction(OwedAll(loans)) \in Nat /\ SumFunction(LossAll(loans)) \in Nat
        /\ \A b : SumFunction(OwedTo(loans, b)) \in Nat
    BY <1>1, BooksTyped
  <1>4. /\ vault.total \in Nat /\ vault.available \in Nat /\ vault.loss \in Nat
        /\ vault.pool \in Nat /\ vault.index \in Nat
    BY <1>1, <1>3 DEF Books, Vault
  <1>5. \A b \in Brokers : brokers[b] # NoBroker =>
          brokers[b] \in LoanBroker /\ brokers[b].debt \in Nat
    BY <1>1, <1>3 DEF Books, BrokersMatch
  <1> QED
    BY <1>1, <1>2, <1>4, <1>5

LEMMA RoundTyped ==
    ASSUME NEW n \in Int, NEW d \in Nat \ {0}
    PROVE  Round(n, d) \in Int
  BY DEF Round

LEMMA CeilingTyped ==
    ASSUME NEW n \in Nat, NEW d \in Nat \ {0}
    PROVE  Ceiling(n, d) \in Nat
  BY DEF Ceiling

LEMMA CoverTyped ==
    ASSUME NEW n \in Nat
    PROVE  minimumCover(n) \in Nat
  <1>1. CoverRateMin \in Nat /\ BpsDenom \in Nat \ {0}
    BY LendingAssumption
  <1>2. n * CoverRateMin \in Nat
    BY <1>1
  <1> HIDE DEF Ceiling
  <1> QED
    BY <1>1, <1>2, CeilingTyped DEF minimumCover

LEMMA DebtTyped ==
    ASSUME LendingInv, NEW l \in Lenders, NEW delta \in Int
    PROVE  /\ mptLiquidationDebt(l, shares[l]) \in Nat
           /\ adjustLiquidationDebtForShareDelta(l, delta) \in Nat \cup {Absent}
  <1>1. shares[l] \in Nat /\ debt[l] \in Nat \cup {Absent} /\ vault.index \in Nat
    BY InvTypes
  <1>2. shares[l] * vault.index \in Nat /\ delta * vault.index \in Int
    BY <1>1
  <1>3. mptLiquidationDebt(l, shares[l]) \in Nat
    BY <1>1, <1>2 DEF mptLiquidationDebt
  <1> QED
    BY <1>2, <1>3 DEF adjustLiquidationDebtForShareDelta, StoredDebt

\* Assets and shares that come with a deposit are whole numbers: a vault that
\* holds assets without shares issues none.
LEMMA DepositTyped ==
    ASSUME LendingInv, NEW amount \in Nat, assetsToSharesDeposit(amount) > 0
    PROVE  /\ assetsToSharesDeposit(amount) \in Nat
           /\ sharesToAssetsDeposit(assetsToSharesDeposit(amount)) \in Int
  <1>1. vault.total \in Nat /\ sharesTotal \in Nat
    BY InvTypes
  <1>2. CASE vault.total = 0
    BY <1>2 DEF assetsToSharesDeposit, sharesToAssetsDeposit
  <1>3. CASE vault.total # 0
    <2> DEFINE created == (sharesTotal * amount) \div vault.total
    <2>1. sharesTotal * amount \in Nat
      BY <1>1
    <2>2. created \in Nat
      BY <1>1, <1>3, <2>1
    <2>3. created > 0
      BY <1>3 DEF assetsToSharesDeposit
    <2>4. sharesTotal # 0
      <3> SUFFICES ASSUME sharesTotal = 0 PROVE FALSE
        OBVIOUS
      <3>1. sharesTotal * amount = 0
        OBVIOUS
      <3>2. created = 0
        BY <1>1, <1>3, <3>1
      <3> QED
        BY <2>3, <3>2
    <2>5. vault.total * created \in Int
      BY <1>1, <2>2
    <2>6. Round(vault.total * created, sharesTotal) \in Int
      BY <1>1, <2>4, <2>5, RoundTyped
    <2> QED
      BY <1>3, <2>2, <2>6 DEF assetsToSharesDeposit, sharesToAssetsDeposit
  <1> QED
    BY <1>2, <1>3

LEMMA DepositKeepsBooks ==
    ASSUME LendingInv, NEW l \in Lenders, NEW amount \in Amounts, VaultDeposit(l, amount)
    PROVE  LendingInv'
  <1> DEFINE created == assetsToSharesDeposit(amount)
             assets == sharesToAssetsDeposit(created)
             d == adjustLiquidationDebtForShareDelta(l, created)
  <1>1. amount \in Nat
    BY LendingAssumption
  <1>2. created > 0 /\ assets > 0
    BY DEF VaultDeposit
  <1>3. created \in Nat /\ assets \in Int
    BY <1>1, <1>2, DepositTyped
  <1>4. d \in Nat \cup {Absent}
    BY <1>3, DebtTyped
  <1>5. /\ vault' = [vault EXCEPT !.total = @ + assets, !.available = @ + assets]
        /\ shares' = [shares EXCEPT ![l] = @ + created]
        /\ debt' = [debt EXCEPT ![l] = d]
        /\ brokers' = brokers /\ loans' = loans
    BY DEF VaultDeposit
  <1> HIDE DEF created, assets, d
  <1>0. /\ vault \in Vault /\ shares \in [Lenders -> Nat]
        /\ debt \in [Lenders -> Nat \cup {Absent}]
    BY InvTypes
  <1>6. LendingTypeOK'
    <2>1. vault' \in Vault
      <3>1. vault.total \in Int /\ vault.available \in Int
        BY <1>0 DEF Vault
      <3>2. vault' = [vault EXCEPT !.total = vault.total + assets,
                                   !.available = vault.available + assets]
        BY <1>5
      <3>3. vault.total + assets \in Int /\ vault.available + assets \in Int
        BY <1>3, <3>1
      <3> QED
        BY <1>0, <3>2, <3>3, VaultWritten
    <2>2. shares' \in [Lenders -> Nat]
      BY <1>0, <1>3, <1>5
    <2>3. debt' \in [Lenders -> Nat \cup {Absent}]
      BY <1>0, <1>4, <1>5
    <2> QED
      BY <1>5, <2>1, <2>2, <2>3 DEF LendingInv, LendingTypeOK
  <1>7. Books(vault', brokers', loans')
    <2>1. vault' \in Vault
      BY <1>6 DEF LendingTypeOK
    <2>2. /\ vault'.available >= 0 /\ vault'.loss = vault.loss /\ vault'.pool = vault.pool
          /\ vault'.total - vault'.available = vault.total - vault.available
      BY <1>2, <1>3, <1>5, InvTypes DEF Vault
    <2>3. BooksTypes(vault, brokers, loans) /\ Books(vault, brokers, loans)
      BY InvTypes
    <2>4. Books(vault', brokers, loans)
      BY <2>1, <2>2, <2>3, VaultMoved
    <2> QED
      BY <1>5, <2>4
  <1> QED
    BY <1>6, <1>7 DEF LendingInv

LEMMA WithdrawKeepsBooks ==
    ASSUME LendingInv, NEW l \in Lenders, NEW n \in 1..MaxShares, VaultWithdraw(l, n)
    PROVE  LendingInv'
  <1> DEFINE assets == sharesToAssetsWithdraw(n)
             d == adjustLiquidationDebtForShareDelta(l, -n)
  <1>1. n \in Int /\ -n \in Int
    BY LendingAssumption
  <1>2. n <= shares[l] /\ assets \in 1..vault.available
    BY <1>1, InvTypes DEF VaultWithdraw
  <1>3. assets \in Nat /\ assets <= vault.available
    BY <1>2, InvTypes
  <1>4. d \in Nat \cup {Absent}
    BY <1>1, DebtTyped
  <1>5. /\ vault' = [vault EXCEPT !.total = @ - assets, !.available = @ - assets]
        /\ shares' = [shares EXCEPT ![l] = @ - n]
        /\ debt' = [debt EXCEPT ![l] = d]
        /\ brokers' = brokers /\ loans' = loans
    BY DEF VaultWithdraw
  <1> HIDE DEF assets, d
  <1>0. /\ vault \in Vault /\ shares \in [Lenders -> Nat]
        /\ debt \in [Lenders -> Nat \cup {Absent}]
    BY InvTypes
  <1>6. LendingTypeOK'
    <2>1. vault' \in Vault
      <3>1. vault.total \in Int /\ vault.available \in Int
        BY <1>0 DEF Vault
      <3>2. vault' = [vault EXCEPT !.total = vault.total - assets,
                                   !.available = vault.available - assets]
        BY <1>5
      <3>3. vault.total - assets \in Int /\ vault.available - assets \in Int
        BY <1>3, <3>1
      <3> QED
        BY <1>0, <3>2, <3>3, VaultWritten
    <2>2. shares' \in [Lenders -> Nat]
      BY <1>0, <1>1, <1>2, <1>5
    <2>3. debt' \in [Lenders -> Nat \cup {Absent}]
      BY <1>0, <1>4, <1>5
    <2> QED
      BY <1>5, <2>1, <2>2, <2>3 DEF LendingInv, LendingTypeOK
  <1>7. Books(vault', brokers', loans')
    <2>1. vault' \in Vault
      BY <1>6 DEF LendingTypeOK
    <2>2. /\ vault'.available >= 0 /\ vault'.loss = vault.loss /\ vault'.pool = vault.pool
          /\ vault'.total - vault'.available = vault.total - vault.available
      BY <1>3, <1>5, InvTypes DEF Vault
    <2>3. BooksTypes(vault, brokers, loans) /\ Books(vault, brokers, loans)
      BY InvTypes
    <2>4. Books(vault', brokers, loans)
      BY <2>1, <2>2, <2>3, VaultMoved
    <2> QED
      BY <1>5, <2>4
  <1> QED
    BY <1>6, <1>7 DEF LendingInv

\* A payment of shares and the end of an empty MPToken touch no book.
LEMMA SendKeepsBooks ==
    ASSUME LendingInv, NEW l \in Lenders, NEW m \in Lenders, NEW n \in 1..MaxShares,
           SendShares(l, m, n)
    PROVE  LendingInv'
  <1>1. l # m /\ n \in 1..shares[l] /\ shares \in [Lenders -> Nat]
    BY InvTypes DEF SendShares
  <1>2. shares[l] - n \in Nat /\ shares[m] + n \in Nat
    BY <1>1
  <1>3. shares' = [shares EXCEPT ![l] = shares[l] - n, ![m] = shares[m] + n]
    BY <1>1 DEF SendShares
  <1>4. shares' \in [Lenders -> Nat]
    BY <1>1, <1>2, <1>3
  <1> QED
    BY <1>4 DEF SendShares, LendingInv, LendingTypeOK

LEMMA UnauthorizeKeepsBooks ==
    ASSUME LendingInv, NEW l \in Lenders, MPTokenUnauthorize(l)
    PROVE  LendingInv'
  BY DEF MPTokenUnauthorize, LendingInv, LendingTypeOK

LEMMA DivBounds ==
    ASSUME NEW n \in Nat, NEW d \in Nat \ {0}
    PROVE  n \div d \in Nat /\ (n \div d) * d <= n /\ d * (n \div d) <= n
  OBVIOUS

LEMMA TimesOrdered ==
    ASSUME NEW p \in Nat, NEW q \in Nat, NEW d \in Nat \ {0}, p * d <= q * d
    PROVE  p <= q
  OBVIOUS

\* What a claim pays is promised to the lender and is in the pool.
LEMMA ClaimBounded ==
    ASSUME LendingInv, NEW l \in Lenders
    PROVE  /\ claimable(l) \in Nat /\ claimable(l) <= vault.pool
           /\ Unpaid(l) \in Int
           /\ claimable(l) > 0 => claimable(l) * IndexScale <= Unpaid(l)
  <1> DEFINE p == liquidationPendingFalcon(l)
  <1>1. /\ shares[l] \in Nat /\ vault.index \in Nat /\ vault.pool \in Nat
        /\ mptLiquidationDebt(l, shares[l]) \in Nat /\ IndexScale \in Nat \ {0}
    BY InvTypes, DebtTyped, LendingAssumption
  <1>2. shares[l] * vault.index \in Nat /\ vault.pool * IndexScale \in Nat
    BY <1>1
  <1>3. Unpaid(l) \in Int
    BY <1>1, <1>2 DEF Unpaid
  <1>4. p \in Nat /\ p <= vault.pool * IndexScale /\ (p > 0 => p <= Unpaid(l))
    BY <1>2, <1>3 DEF liquidationPendingFalcon, Least
  <1> HIDE DEF p
  <1>5. claimable(l) = p \div IndexScale
    BY DEF claimable, p
  <1>6. claimable(l) \in Nat /\ claimable(l) * IndexScale <= p
    BY <1>1, <1>4, <1>5, DivBounds
  <1>7. claimable(l) * IndexScale <= vault.pool * IndexScale
    BY <1>1, <1>2, <1>4, <1>6
  <1>8. claimable(l) <= vault.pool
    BY <1>1, <1>6, <1>7, TimesOrdered
  <1>9. ASSUME claimable(l) > 0 PROVE claimable(l) * IndexScale <= Unpaid(l)
    <2>1. claimable(l) * IndexScale \in Nat
      BY <1>1, <1>6
    <2>2. p # 0
      BY <1>1, <1>5, <1>9
    <2> QED
      BY <1>3, <1>4, <1>6, <2>1, <2>2
  <1> QED
    BY <1>3, <1>6, <1>8, <1>9

\* Writing one broker, its debt and its number of loans as they were.
LEMMA BrokerMoved ==
    ASSUME NEW v, NEW bs, NEW ls, BooksTypes(v, bs, ls), Books(v, bs, ls),
           NEW w \in Vault, NEW cs, NEW b \in Brokers, NEW y \in LoanBroker,
           bs[b] # NoBroker, cs = [bs EXCEPT ![b] = y],
           y.debt = bs[b].debt, y.loans = bs[b].loans,
           w.available >= 0, w.total - w.available = v.total - v.available,
           w.loss = v.loss, y.drops + v.pool >= bs[b].drops + w.pool
    PROVE  BooksTypes(w, cs, ls) /\ Books(w, cs, ls)
  <1>1. /\ bs \in [Brokers -> LoanBroker \cup {NoBroker}]
        /\ cs \in [Brokers -> LoanBroker \cup {NoBroker}]
        /\ ls \in [Loans -> Loan \cup {NoLoan}] /\ v \in Vault
    BY DEF BooksTypes
  <1>2. cs[b] = y /\ y # NoBroker /\ \A c \in Brokers : c # b => cs[c] = bs[c]
    BY <1>1, ObjectsAssumption
  <1>3. SumFunction(DropsAll(cs))
          = SumFunction(DropsAll(bs)) - DropsIn(bs[b]) + DropsIn(cs[b])
    BY <1>1, <1>2, BrokerWritten
  <1>4. /\ SumFunction(DropsAll(bs)) \in Nat /\ v.pool \in Nat /\ w.pool \in Nat
        /\ DropsIn(bs[b]) = bs[b].drops /\ DropsIn(cs[b]) = y.drops
        /\ bs[b].drops \in Nat /\ y.drops \in Nat
    BY <1>1, <1>2, BooksTyped DEF DropsIn, LoanBroker, Vault
  <1>5. SumFunction(DropsAll(cs)) + v.pool >= SumFunction(DropsAll(bs)) + w.pool
    BY <1>3, <1>4
  <1>6. \A c \in Brokers :
          /\ cs[c] = NoBroker <=> bs[c] = NoBroker
          /\ cs[c] # NoBroker => cs[c].debt = bs[c].debt /\ cs[c].loans = bs[c].loans
    BY <1>2
  <1>7. BooksTypes(w, cs, ls)
    BY <1>1 DEF BooksTypes
  <1> QED
    BY <1>5, <1>6, <1>7, BooksMoved

\* The fields of a broker that steps write.
LEMMA DropsField ==
    ASSUME NEW y \in LoanBroker, NEW p \in Nat
    PROVE  /\ [y EXCEPT !.drops = p] \in LoanBroker
           /\ [y EXCEPT !.drops = p].debt = y.debt
           /\ [y EXCEPT !.drops = p].loans = y.loans
           /\ [y EXCEPT !.drops = p].drops = p
  BY DEF LoanBroker

LEMMA CoverField ==
    ASSUME NEW y \in LoanBroker, NEW c \in Nat
    PROVE  /\ [y EXCEPT !.cover = c] \in LoanBroker
           /\ [y EXCEPT !.cover = c].debt = y.debt
           /\ [y EXCEPT !.cover = c].loans = y.loans
           /\ [y EXCEPT !.cover = c].drops = y.drops
  BY DEF LoanBroker

\* A claim keeps the books, also the one that the invariant checker refuses.
LEMMA ClaimKeepsBooks ==
    ASSUME LendingInv, NEW l \in Lenders, NEW b \in Brokers, VaultClaimCollateral(l, b)
    PROVE  LendingInv'
  <1> DEFINE paid == claimable(l)
             y == [brokers[b] EXCEPT !.drops = brokers[b].drops - paid]
             d == StoredDebt(mptLiquidationDebt(l, shares[l]) + paid * IndexScale)
  <1>1. CASE ~ claimSucceeds(l, b)
    <2>1. UNCHANGED <<vault, brokers, debt, shares, loans>>
      BY <1>1 DEF VaultClaimCollateral
    <2> QED
      BY <2>1 DEF LendingInv, LendingTypeOK
  <1>2. CASE claimSucceeds(l, b)
    <2>1. /\ vault' = [vault EXCEPT !.pool = vault.pool - paid]
          /\ brokers' = [brokers EXCEPT ![b] = y]
          /\ debt' = [debt EXCEPT ![l] = d]
          /\ shares' = shares /\ loans' = loans
      BY <1>2 DEF VaultClaimCollateral, claimLiquidationFalcon
    <2>2. brokers[b] # NoBroker /\ brokers[b].drops >= paid
      BY <1>2 DEF claimSucceeds
    <2>3. paid \in Nat /\ paid <= vault.pool /\ vault.pool \in Nat
      BY ClaimBounded, InvTypes
    <2>4. /\ mptLiquidationDebt(l, shares[l]) \in Nat /\ IndexScale \in Nat
      BY DebtTyped, LendingAssumption
    <2> HIDE DEF paid
    <2>5. d \in Nat \cup {Absent}
      <3>1. paid * IndexScale \in Nat
        BY <2>3, <2>4
      <3> QED
        BY <2>4, <3>1 DEF StoredDebt
    <2>6. /\ vault \in Vault /\ brokers[b] \in LoanBroker /\ brokers[b].drops \in Nat
          /\ vault.available \in Nat
      BY <2>2, InvTypes DEF LoanBroker
    <2>7. vault.pool - paid \in Nat /\ brokers[b].drops - paid \in Nat
      BY <2>2, <2>3, <2>6
    <2>8. /\ vault' \in Vault /\ vault'.available = vault.available
          /\ vault'.total = vault.total /\ vault'.loss = vault.loss
          /\ vault'.pool = vault.pool - paid
      <3> DEFINE q == vault.pool - paid
      <3>1. q \in Nat /\ vault' = [vault EXCEPT !.pool = q]
        BY <2>1, <2>7
      <3> HIDE DEF q
      <3>2. /\ vault' \in Vault /\ vault'.available = vault.available
            /\ vault'.total = vault.total /\ vault'.loss = vault.loss /\ vault'.pool = q
        BY <2>6, <3>1 DEF Vault
      <3> QED
        BY <3>2 DEF q
    <2>9. /\ y \in LoanBroker /\ y.debt = brokers[b].debt /\ y.loans = brokers[b].loans
          /\ y.drops = brokers[b].drops - paid
      BY <2>6, <2>7, DropsField
    <2>10. y.drops + vault.pool >= brokers[b].drops + vault'.pool
      BY <2>3, <2>6, <2>8, <2>9
    <2>11. BooksTypes(vault, brokers, loans) /\ Books(vault, brokers, loans)
      BY InvTypes
    <2> HIDE DEF y, d
    <2>12. BooksTypes(vault', brokers', loans) /\ Books(vault', brokers', loans)
      <3>1. vault'.available >= 0 /\ vault'.total - vault'.available = vault.total - vault.available
        BY <2>6, <2>8
      <3> QED
        BY <2>1, <2>2, <2>8, <2>9, <2>10, <2>11, <3>1, BrokerMoved
    <2>13. debt' \in [Lenders -> Nat \cup {Absent}] /\ shares' \in [Lenders -> Nat]
      BY <2>1, <2>5, InvTypes
    <2> QED
      BY <2>1, <2>12, <2>13 DEF LendingInv, LendingTypeOK, BooksTypes
  <1> QED
    BY <1>1, <1>2

\* A broker comes, or goes once it has no loan and holds nothing.
LEMMA BrokerReplaced ==
    ASSUME NEW v, NEW bs, NEW ls, BooksTypes(v, bs, ls), Books(v, bs, ls),
           NEW cs, NEW b \in Brokers, NEW y \in LoanBroker \cup {NoBroker},
           cs = [bs EXCEPT ![b] = y], LoansOf(ls, b) = {},
           DropsIn(bs[b]) = 0, DropsIn(y) = 0,
           y # NoBroker => y.debt = 0 /\ y.loans = 0
    PROVE  BooksTypes(v, cs, ls) /\ Books(v, cs, ls)
  <1>1. /\ bs \in [Brokers -> LoanBroker \cup {NoBroker}]
        /\ cs \in [Brokers -> LoanBroker \cup {NoBroker}]
        /\ ls \in [Loans -> Loan \cup {NoLoan}] /\ v \in Vault
    BY DEF BooksTypes
  <1>2. cs[b] = y /\ \A c \in Brokers : c # b => cs[c] = bs[c]
    BY <1>1
  <1>3. SumFunction(DropsAll(cs)) = SumFunction(DropsAll(bs))
    <2>1. SumFunction(DropsAll(cs))
            = SumFunction(DropsAll(bs)) - DropsIn(bs[b]) + DropsIn(cs[b])
      BY <1>1, <1>2, BrokerWritten
    <2>2. SumFunction(DropsAll(bs)) \in Nat
      BY <1>1, BooksTyped
    <2> QED
      BY <1>2, <2>1, <2>2
  <1>4. SumFunction(OwedTo(ls, b)) = 0 /\ Cardinality(LoansOf(ls, b)) = 0
    BY <1>1, NoLoansNoDebt
  <1>5. BrokersMatch(cs, ls)
    BY <1>2, <1>4 DEF BrokersMatch, Books
  <1>6. LoansShaped(cs, ls)
    <2> SUFFICES ASSUME NEW i \in Loans, ls[i] # NoLoan
                 PROVE  cs[ls[i].broker] # NoBroker /\ (ls[i].remaining = 0 => ls[i].owed = 0)
      BY DEF LoansShaped
    <2>1. ls[i].broker \in Brokers /\ ls[i].broker # b
      BY <1>1 DEF LoansOf, Loan
    <2> QED
      BY <1>2, <2>1 DEF Books, LoansShaped
  <1>7. BooksTypes(v, cs, ls)
    BY <1>1 DEF BooksTypes
  <1> QED
    BY <1>3, <1>5, <1>6, <1>7 DEF Books

LEMMA BrokerKeepsBooks ==
    ASSUME LendingInv, NEW b \in Brokers, BrokerStep(b)
    PROVE  LendingInv'
  <1> USE InvTypes
  <1>1. UNCHANGED <<vault, shares, debt, loans>>
    BY DEF BrokerStep, LoanBrokerSet, LoanBrokerDelete, LoanBrokerCoverDeposit,
           LoanBrokerCoverWithdraw
  <1>2. CASE LoanBrokerSet(b)
    <2> DEFINE y == [debt |-> 0, cover |-> 0, drops |-> 0, loans |-> 0]
    <2>1. brokers[b] = NoBroker /\ brokers' = [brokers EXCEPT ![b] = y]
      BY <1>2 DEF LoanBrokerSet
    <2>2. y \in LoanBroker /\ DropsIn(y) = 0 /\ y.debt = 0 /\ y.loans = 0
      BY DEF LoanBroker, DropsIn
    <2>3. LoansOf(loans, b) = {} /\ DropsIn(brokers[b]) = 0
      BY <2>1 DEF LoansOf, Books, LoansShaped, DropsIn
    <2> HIDE DEF y
    <2>4. BooksTypes(vault, brokers', loans) /\ Books(vault, brokers', loans)
      BY <2>1, <2>2, <2>3, BrokerReplaced
    <2> QED
      BY <1>1, <2>4 DEF LendingInv, LendingTypeOK, BooksTypes
  <1>3. CASE LoanBrokerDelete(b)
    <2>1. /\ brokers[b] # NoBroker /\ brokers[b].loans = 0 /\ brokers[b].drops = 0
          /\ brokers' = [brokers EXCEPT ![b] = NoBroker]
      BY <1>3 DEF LoanBrokerDelete
    <2>2. LoansOf(loans, b) = {}
      <3>1. Cardinality(LoansOf(loans, b)) = 0
        BY <2>1 DEF Books, BrokersMatch
      <3>2. IsFiniteSet(LoansOf(loans, b))
        BY ObjectsAssumption, FS_Subset DEF LoansOf
      <3> QED
        BY <3>1, <3>2, FS_EmptySet
    <2>3. DropsIn(brokers[b]) = 0 /\ DropsIn(NoBroker) = 0
      BY <2>1 DEF DropsIn
    <2>4. BooksTypes(vault, brokers', loans) /\ Books(vault, brokers', loans)
      BY <2>1, <2>2, <2>3, BrokerReplaced
    <2> QED
      BY <1>1, <2>4 DEF LendingInv, LendingTypeOK, BooksTypes
  <1>4. CASE LoanBrokerCoverDeposit(b) \/ LoanBrokerCoverWithdraw(b)
    <2>1. brokers[b] # NoBroker /\ brokers[b] \in LoanBroker /\ brokers[b].cover \in Nat
      BY <1>4 DEF LoanBrokerCoverDeposit, LoanBrokerCoverWithdraw, LoanBroker
    <2>2. PICK c \in Nat : brokers' = [brokers EXCEPT ![b] = [brokers[b] EXCEPT !.cover = c]]
      <3>1. CASE LoanBrokerCoverDeposit(b)
        <4>1. brokers' = [brokers EXCEPT ![b] = [brokers[b] EXCEPT !.cover = brokers[b].cover + 1]]
          BY <3>1 DEF LoanBrokerCoverDeposit
        <4>2. brokers[b].cover + 1 \in Nat
          BY <2>1
        <4> QED
          BY <4>1, <4>2
      <3>2. CASE LoanBrokerCoverWithdraw(b)
        <4>1. brokers' = [brokers EXCEPT ![b] = [brokers[b] EXCEPT !.cover = brokers[b].cover - 1]]
          BY <3>2 DEF LoanBrokerCoverWithdraw
        <4>2. brokers[b].cover > 0
          BY <3>2 DEF LoanBrokerCoverWithdraw
        <4>3. brokers[b].cover - 1 \in Nat
          BY <2>1, <4>2
        <4> QED
          BY <4>1, <4>3
      <3> QED
        BY <1>4, <3>1, <3>2
    <2> DEFINE y == [brokers[b] EXCEPT !.cover = c]
    <2>3. /\ y \in LoanBroker /\ y.debt = brokers[b].debt /\ y.loans = brokers[b].loans
          /\ y.drops = brokers[b].drops /\ brokers[b].drops \in Nat
      BY <2>1, CoverField DEF LoanBroker
    <2>4. y.drops + vault.pool >= brokers[b].drops + vault.pool
      BY <2>3
    <2> HIDE DEF y
    <2>5. BooksTypes(vault, brokers', loans) /\ Books(vault, brokers', loans)
      <3>1. brokers' = [brokers EXCEPT ![b] = y]
        BY <2>2 DEF y
      <3>2. vault.available >= 0
        OBVIOUS
      <3> QED
        BY <2>1, <2>3, <2>4, <3>1, <3>2, BrokerMoved
    <2> QED
      BY <1>1, <2>5 DEF LendingInv, LendingTypeOK, BooksTypes
  <1> QED
    BY <1>2, <1>3, <1>4 DEF BrokerStep

-----------------------------------------------------------------------------
(* Steps of a loan                                                         *)

\* The step that writes loan i, its broker b and the vault.
LEMMA LoanKeepsBooks ==
    ASSUME LendingInv, NEW i \in Loans, NEW b \in Brokers,
           NEW x \in Loan \cup {NoLoan}, NEW y \in LoanBroker, vault' \in Vault,
           loans' = [loans EXCEPT ![i] = x], brokers' = [brokers EXCEPT ![b] = y],
           shares' = shares, debt' = debt, brokers[b] # NoBroker,
           loans[i] # NoLoan => loans[i].broker = b,
           x # NoLoan => x.broker = b /\ (x.remaining = 0 => x.owed = 0),
           y.debt = brokers[b].debt - OwedIn(loans[i]) + OwedIn(x),
           y.loans = brokers[b].loans - Count(loans[i]) + Count(x),
           vault'.available >= 0,
           vault'.total - vault'.available
             = vault.total - vault.available - OwedIn(loans[i]) + OwedIn(x),
           vault'.loss = vault.loss - LossIn(loans[i]) + LossIn(x),
           y.drops + PledgedIn(loans[i]) + vault.pool
             >= brokers[b].drops + PledgedIn(x) + vault'.pool
    PROVE  LendingInv'
  <1>1. BooksTypes(vault, brokers, loans) /\ Books(vault, brokers, loans)
    BY InvTypes
  <1>2. /\ loans' \in [Loans -> Loan \cup {NoLoan}] /\ loans'[i] = x
        /\ \A j \in Loans : j # i => loans'[j] = loans[j]
    BY <1>1 DEF BooksTypes
  <1>3. /\ brokers' \in [Brokers -> LoanBroker \cup {NoBroker}]
        /\ brokers'[b] = y /\ y # NoBroker
        /\ \A c \in Brokers : c # b => brokers'[c] = brokers[c]
    BY <1>1, ObjectsAssumption DEF BooksTypes
  <1>4. BooksTypes(vault', brokers', loans')
    BY <1>2, <1>3 DEF BooksTypes
  <1> DEFINE v == vault
             w == vault'
             bs == brokers
             cs == brokers'
             ls == loans
             ms == loans'
  <1>5. /\ \A j \in Loans : j # i => ms[j] = ls[j]
        /\ \A c \in Brokers : c # b => cs[c] = bs[c]
        /\ bs[b] # NoBroker /\ cs[b] # NoBroker
        /\ ls[i] # NoLoan => ls[i].broker = b
        /\ ms[i] # NoLoan => ms[i].broker = b
        /\ ms[i] # NoLoan /\ ms[i].remaining = 0 => ms[i].owed = 0
        /\ cs[b].debt = bs[b].debt - OwedIn(ls[i]) + OwedIn(ms[i])
        /\ cs[b].loans = bs[b].loans - Count(ls[i]) + Count(ms[i])
        /\ w.available >= 0
        /\ w.total - w.available = v.total - v.available - OwedIn(ls[i]) + OwedIn(ms[i])
        /\ w.loss = v.loss - LossIn(ls[i]) + LossIn(ms[i])
        /\ cs[b].drops + PledgedIn(ls[i]) + v.pool >= bs[b].drops + PledgedIn(ms[i]) + w.pool
    BY <1>2, <1>3
  <1>6. /\ BooksTypes(v, bs, ls) /\ Books(v, bs, ls) /\ BooksTypes(w, cs, ms)
    BY <1>1, <1>4
  <1> HIDE DEF v, w, bs, cs, ls, ms
  <1>7. Books(w, cs, ms)
    BY <1>5, <1>6, BooksKept
  <1>8. Books(vault', brokers', loans')
    BY <1>7 DEF w, cs, ms
  <1>9. shares' \in [Lenders -> Nat] /\ debt' \in [Lenders -> Nat \cup {Absent}]
    BY InvTypes
  <1> QED
    BY <1>2, <1>3, <1>8, <1>9 DEF LendingInv, LendingTypeOK

\* The loan that a step concerns, and its broker.
LEMMA LoanOf ==
    ASSUME LendingInv, NEW i \in Loans, Exists(i)
    PROVE  /\ loans[i] \in Loan /\ loans[i].broker \in Brokers
           /\ loans[i].owed \in Nat /\ loans[i].remaining \in Nat
           /\ loans[i].collateral \in Nat /\ loans[i].impaired \in BOOLEAN
           /\ loans[i].permissionless \in BOOLEAN /\ loans[i].overdue \in 0..2
           /\ brokers[loans[i].broker] # NoBroker
           /\ brokers[loans[i].broker] \in LoanBroker
           /\ brokers[loans[i].broker].debt \in Nat
           /\ brokers[loans[i].broker].cover \in Nat
           /\ brokers[loans[i].broker].drops \in Nat
           /\ brokers[loans[i].broker].loans \in Int
           /\ loans[i].remaining = 0 => loans[i].owed = 0
           /\ OwedIn(loans[i]) = loans[i].owed /\ Count(loans[i]) = 1
           /\ PledgedIn(loans[i]) = loans[i].collateral
           /\ LossIn(loans[i])
                = (IF loans[i].remaining > 0 /\ loans[i].impaired THEN loans[i].owed ELSE 0)
  <1>1. loans[i] \in Loan
    BY InvTypes DEF Exists
  <1>2. /\ loans[i].broker \in Brokers
        /\ loans[i].owed \in Nat /\ loans[i].remaining \in Nat
        /\ loans[i].collateral \in Nat /\ loans[i].impaired \in BOOLEAN
        /\ loans[i].permissionless \in BOOLEAN /\ loans[i].overdue \in 0..2
    BY <1>1 DEF Loan
  <1>3. brokers[loans[i].broker] # NoBroker /\ (loans[i].remaining = 0 => loans[i].owed = 0)
    BY InvTypes DEF Books, LoansShaped, Exists
  <1>4. /\ brokers[loans[i].broker] \in LoanBroker
        /\ brokers[loans[i].broker].debt \in Nat
    BY <1>2, <1>3, InvTypes
  <1>5. /\ brokers[loans[i].broker].cover \in Nat /\ brokers[loans[i].broker].drops \in Nat
        /\ brokers[loans[i].broker].loans \in Int
    BY <1>4 DEF LoanBroker
  <1>6. /\ OwedIn(loans[i]) = loans[i].owed /\ Count(loans[i]) = 1
        /\ PledgedIn(loans[i]) = loans[i].collateral
        /\ LossIn(loans[i])
             = (IF loans[i].remaining > 0 /\ loans[i].impaired THEN loans[i].owed ELSE 0)
    BY DEF OwedIn, Count, PledgedIn, LossIn, Exists
  <1> QED
    BY <1>1, <1>2, <1>3, <1>4, <1>5, <1>6

\* The vault, brokers and loans with fields written.
VaultOf(t, a, s, p, n) == [total |-> t, available |-> a, loss |-> s, pool |-> p, index |-> n]

LEMMA SetKeepsBooks ==
    ASSUME LendingInv, NEW i \in Loans, NEW b \in Brokers, NEW c \in Collaterals,
           NEW p \in BOOLEAN, LoanSet(i, b, c, p)
    PROVE  LendingInv'
  <1> DEFINE owed == Principal + Interest
             x == [broker |-> b, owed |-> owed, remaining |-> Payments,
                   collateral |-> c, permissionless |-> p,
                   impaired |-> FALSE, overdue |-> 0]
             y == [brokers[b] EXCEPT !.debt = @ + owed, !.drops = @ + c, !.loans = @ + 1]
             w == VaultOf(vault.total + Interest, vault.available - Principal,
                          vault.loss, vault.pool, vault.index)
  <1>1. /\ Principal \in Nat /\ Interest \in Nat /\ c \in Nat /\ Payments \in Nat \ {0}
    BY LendingAssumption
  <1>2. /\ vault \in Vault /\ vault.total \in Nat /\ vault.available \in Nat
        /\ vault.loss \in Nat /\ vault.pool \in Nat /\ vault.index \in Nat
    BY InvTypes
  <1>3. brokers[b] # NoBroker /\ loans[i] = NoLoan /\ vault.available >= Principal
    BY DEF LoanSet, Exists
  <1>4. brokers[b] \in LoanBroker
    BY <1>3, InvTypes
  <1>5. /\ brokers[b].debt \in Int /\ brokers[b].cover \in Nat
        /\ brokers[b].drops \in Nat /\ brokers[b].loans \in Int
    BY <1>4 DEF LoanBroker
  <1>6. vault' = w
    BY <1>2 DEF LoanSet, Vault, VaultOf
  <1>7. brokers' = [brokers EXCEPT ![b] = y]
    <2>1. brokers' = [brokers EXCEPT ![b].debt = @ + owed, ![b].drops = @ + c,
                                     ![b].loans = @ + 1]
      BY DEF LoanSet
    <2>2. brokers \in [Brokers -> LoanBroker \cup {NoBroker}] /\ owed \in Int /\ c \in Int
      BY <1>1, InvTypes
    <2> HIDE DEF owed
    <2> QED
      BY <1>4, <2>1, <2>2 DEF LoanBroker
  <1>8. loans' = [loans EXCEPT ![i] = x] /\ shares' = shares /\ debt' = debt
    BY DEF LoanSet
  <1>9. /\ x \in Loan /\ x # NoLoan /\ OwedIn(x) = owed /\ LossIn(x) = 0
        /\ PledgedIn(x) = c /\ Count(x) = 1
        /\ OwedIn(loans[i]) = 0 /\ LossIn(loans[i]) = 0 /\ PledgedIn(loans[i]) = 0
        /\ Count(loans[i]) = 0
    <2>1. owed \in Nat /\ x \in Loan
      BY <1>1 DEF Loan
    <2>2. x # NoLoan
      BY <2>1, ObjectsAssumption
    <2> QED
      BY <1>3, <2>1, <2>2 DEF OwedIn, LossIn, PledgedIn, Count
  <1>10. /\ x.broker = b /\ x.remaining # 0
    BY <1>1
  <1>11. /\ y \in LoanBroker /\ y.debt = brokers[b].debt + owed
         /\ y.drops = brokers[b].drops + c /\ y.loans = brokers[b].loans + 1
    <2>1. owed \in Nat /\ c \in Nat
      BY <1>1
    <2> HIDE DEF owed
    <2>2. /\ brokers[b].debt + owed \in Int /\ brokers[b].drops + c \in Nat
          /\ brokers[b].loans + 1 \in Int
      BY <1>5, <2>1
    <2> QED
      BY <1>4, <2>2 DEF LoanBroker
  <1>12. /\ w \in Vault /\ w.total = vault.total + Interest
         /\ w.available = vault.available - Principal /\ w.loss = vault.loss
         /\ w.pool = vault.pool
    BY <1>1, <1>2 DEF VaultOf, Vault
  <1> HIDE DEF x, y, w
  <1>13. /\ y.debt = brokers[b].debt - OwedIn(loans[i]) + OwedIn(x)
         /\ y.loans = brokers[b].loans - Count(loans[i]) + Count(x)
         /\ y.drops + PledgedIn(loans[i]) + vault.pool
              >= brokers[b].drops + PledgedIn(x) + vault'.pool
    BY <1>1, <1>2, <1>5, <1>6, <1>9, <1>11, <1>12
  <1>14. /\ vault'.available >= 0 /\ vault' \in Vault
         /\ vault'.total - vault'.available
              = vault.total - vault.available - OwedIn(loans[i]) + OwedIn(x)
         /\ vault'.loss = vault.loss - LossIn(loans[i]) + LossIn(x)
    BY <1>1, <1>2, <1>3, <1>6, <1>9, <1>12
  <1> QED
    BY <1>3, <1>7, <1>8, <1>9, <1>10, <1>11, <1>13, <1>14, LoanKeepsBooks

LEMMA CollateralKeepsBooks ==
    ASSUME LendingInv, NEW i \in Loans, NEW c \in Collaterals, LoanCollateralDeposit(i, c)
    PROVE  LendingInv'
  <1> DEFINE loan == loans[i]
             b == loan.broker
             x == [loan EXCEPT !.collateral = @ + c]
             y == [brokers[b] EXCEPT !.drops = @ + c]
  <1>1. Exists(i) /\ c \in Nat
    BY LendingAssumption DEF LoanCollateralDeposit, Active
  <1>2. /\ loan \in Loan /\ b \in Brokers /\ loan.owed \in Nat /\ loan.remaining \in Nat
        /\ loan.collateral \in Nat /\ brokers[b] # NoBroker /\ brokers[b] \in LoanBroker
        /\ brokers[b].drops \in Nat /\ brokers[b].debt \in Nat /\ brokers[b].loans \in Int
        /\ (loan.remaining = 0 => loan.owed = 0)
    BY <1>1, LoanOf
  <1>3. /\ loans \in [Loans -> Loan \cup {NoLoan}] /\ vault \in Vault
        /\ brokers \in [Brokers -> LoanBroker \cup {NoBroker}]
        /\ vault.total \in Nat /\ vault.available \in Nat
        /\ vault.loss \in Nat /\ vault.pool \in Nat
    BY InvTypes
  <1>4. /\ loans' = [loans EXCEPT ![i] = x] /\ brokers' = [brokers EXCEPT ![b] = y]
        /\ vault' = vault /\ shares' = shares /\ debt' = debt
    BY DEF LoanCollateralDeposit
  <1>5. /\ x \in Loan /\ x.collateral = loan.collateral + c /\ x.owed = loan.owed
        /\ x.remaining = loan.remaining /\ x.impaired = loan.impaired /\ x.broker = b
    BY <1>1, <1>2 DEF Loan
  <1>6. /\ y \in LoanBroker /\ y.drops = brokers[b].drops + c
        /\ y.debt = brokers[b].debt /\ y.loans = brokers[b].loans
    BY <1>1, <1>2 DEF LoanBroker
  <1> HIDE DEF x, y
  <1>7. /\ x # NoLoan /\ loan # NoLoan
    BY <1>2, <1>5, ObjectsAssumption
  <1>8. /\ OwedIn(x) = OwedIn(loan) /\ LossIn(x) = LossIn(loan) /\ Count(x) = Count(loan)
        /\ PledgedIn(x) = PledgedIn(loan) + c
        /\ OwedIn(loan) \in Nat /\ LossIn(loan) \in Nat /\ Count(loan) \in Nat
        /\ PledgedIn(loan) \in Nat
    BY <1>2, <1>5, <1>7 DEF OwedIn, LossIn, PledgedIn, Count
  <1> HIDE DEF b
  <1>9. /\ y.debt = brokers[b].debt - OwedIn(loans[i]) + OwedIn(x)
        /\ y.loans = brokers[b].loans - Count(loans[i]) + Count(x)
        /\ y.drops + PledgedIn(loans[i]) + vault.pool
             >= brokers[b].drops + PledgedIn(x) + vault'.pool
    BY <1>1, <1>2, <1>3, <1>4, <1>6, <1>8
  <1>10. /\ vault'.available >= 0 /\ vault' \in Vault
         /\ vault'.total - vault'.available
              = vault.total - vault.available - OwedIn(loans[i]) + OwedIn(x)
         /\ vault'.loss = vault.loss - LossIn(loans[i]) + LossIn(x)
    BY <1>3, <1>4, <1>8
  <1>11. x.broker = b /\ loans[i].broker = b /\ (x.remaining = 0 => x.owed = 0)
    BY <1>2, <1>5 DEF b
  <1> QED
    BY <1>2, <1>4, <1>5, <1>6, <1>9, <1>10, <1>11, LoanKeepsBooks

LEMMA DeleteKeepsBooks ==
    ASSUME LendingInv, NEW i \in Loans, LoanDelete(i)
    PROVE  LendingInv'
  <1> DEFINE loan == loans[i]
             b == loan.broker
             y == [brokers[b] EXCEPT !.loans = @ - 1]
  <1>1. Exists(i) /\ loan.remaining = 0
    BY DEF LoanDelete
  <1>2. /\ loan \in Loan /\ b \in Brokers /\ loan.owed = 0
        /\ loan.collateral \in Nat /\ brokers[b] # NoBroker /\ brokers[b] \in LoanBroker
        /\ brokers[b].drops \in Nat /\ brokers[b].debt \in Nat /\ brokers[b].loans \in Int
    BY <1>1, LoanOf
  <1>3. /\ loans \in [Loans -> Loan \cup {NoLoan}] /\ vault \in Vault
        /\ brokers \in [Brokers -> LoanBroker \cup {NoBroker}]
        /\ vault.total \in Nat /\ vault.available \in Nat
        /\ vault.loss \in Nat /\ vault.pool \in Nat
    BY InvTypes
  <1>4. /\ loans' = [loans EXCEPT ![i] = NoLoan] /\ brokers' = [brokers EXCEPT ![b] = y]
        /\ vault' = vault /\ shares' = shares /\ debt' = debt
    BY DEF LoanDelete
  <1>5. /\ y \in LoanBroker /\ y.drops = brokers[b].drops
        /\ y.debt = brokers[b].debt /\ y.loans = brokers[b].loans - 1
    BY <1>2 DEF LoanBroker
  <1> HIDE DEF y
  <1>6. /\ OwedIn(loan) = 0 /\ LossIn(loan) = 0 /\ Count(loan) = 1
        /\ PledgedIn(loan) \in Nat
        /\ OwedIn(NoLoan) = 0 /\ LossIn(NoLoan) = 0 /\ Count(NoLoan) = 0
        /\ PledgedIn(NoLoan) = 0
    BY <1>1, <1>2 DEF OwedIn, LossIn, PledgedIn, Count, Exists
  <1> HIDE DEF b
  <1>7. /\ y.debt = brokers[b].debt - OwedIn(loans[i]) + OwedIn(NoLoan)
        /\ y.loans = brokers[b].loans - Count(loans[i]) + Count(NoLoan)
        /\ y.drops + PledgedIn(loans[i]) + vault.pool
             >= brokers[b].drops + PledgedIn(NoLoan) + vault'.pool
    BY <1>2, <1>3, <1>4, <1>5, <1>6
  <1>8. /\ vault'.available >= 0 /\ vault' \in Vault
        /\ vault'.total - vault'.available
             = vault.total - vault.available - OwedIn(loans[i]) + OwedIn(NoLoan)
        /\ vault'.loss = vault.loss - LossIn(loans[i]) + LossIn(NoLoan)
    BY <1>3, <1>4, <1>6
  <1>9. loans[i].broker = b
    BY DEF b
  <1> QED
    BY <1>2, <1>4, <1>5, <1>7, <1>8, <1>9, LoanKeepsBooks

\* A step that only impairs a loan, ends its impairment or lets time pass.
LEMMA RestatedKeepsBooks ==
    ASSUME LendingInv, NEW i \in Loans, Exists(i), NEW x \in Loan,
           x.broker = loans[i].broker, x.owed = loans[i].owed,
           x.remaining = loans[i].remaining, x.collateral = loans[i].collateral,
           loans' = [loans EXCEPT ![i] = x], vault' \in Vault,
           brokers' = brokers, shares' = shares, debt' = debt,
           vault'.total = vault.total, vault'.available = vault.available,
           vault'.pool = vault.pool,
           vault'.loss = vault.loss - LossIn(loans[i]) + LossIn(x)
    PROVE  LendingInv'
  <1> DEFINE b == loans[i].broker
             y == brokers[b]
  <1>1. /\ b \in Brokers /\ loans[i].owed \in Nat /\ loans[i].collateral \in Nat
        /\ y # NoBroker /\ y \in LoanBroker
        /\ y.drops \in Nat /\ y.debt \in Nat /\ y.loans \in Int
        /\ (loans[i].remaining = 0 => loans[i].owed = 0)
    BY LoanOf
  <1>2. /\ brokers \in [Brokers -> LoanBroker \cup {NoBroker}]
        /\ vault.total \in Nat /\ vault.available \in Nat /\ vault.pool \in Nat
    BY InvTypes
  <1>3. brokers' = [brokers EXCEPT ![b] = y]
    BY <1>2
  <1>4. x # NoLoan
    BY ObjectsAssumption
  <1>5. /\ OwedIn(x) = OwedIn(loans[i]) /\ Count(x) = Count(loans[i])
        /\ PledgedIn(x) = PledgedIn(loans[i])
        /\ OwedIn(loans[i]) \in Nat /\ Count(loans[i]) \in Nat
        /\ PledgedIn(loans[i]) \in Nat
    BY <1>1, <1>4 DEF OwedIn, PledgedIn, Count, Exists
  <1>6. /\ y.debt = brokers[b].debt - OwedIn(loans[i]) + OwedIn(x)
        /\ y.loans = brokers[b].loans - Count(loans[i]) + Count(x)
        /\ y.drops + PledgedIn(loans[i]) + vault.pool
             >= brokers[b].drops + PledgedIn(x) + vault'.pool
    BY <1>1, <1>2, <1>5
  <1>7. /\ vault'.available >= 0
        /\ vault'.total - vault'.available
             = vault.total - vault.available - OwedIn(loans[i]) + OwedIn(x)
    BY <1>2, <1>5
  <1>8. x.broker = b /\ loans[i].broker = b /\ (x.remaining = 0 => x.owed = 0)
    BY <1>1
  <1>9. brokers[b] # NoBroker
    BY <1>1
  <1> HIDE DEF b, y
  <1> QED
    BY <1>1, <1>3, <1>6, <1>7, <1>8, <1>9, LoanKeepsBooks

LEMMA OverdueKeepsBooks ==
    ASSUME LendingInv, NEW i \in Loans, PaymentOverdue(i)
    PROVE  LendingInv'
  <1> DEFINE x == [loans[i] EXCEPT !.overdue = @ + 1]
  <1>1. Exists(i) /\ loans[i].overdue < 2
    BY DEF PaymentOverdue, Active
  <1>2. loans[i] \in Loan /\ loans[i].overdue \in 0..2 /\ loans[i].owed \in Nat
    BY <1>1, LoanOf
  <1>3. loans[i].overdue + 1 \in 0..2
    BY <1>1, <1>2
  <1>4. /\ x \in Loan /\ x.broker = loans[i].broker /\ x.owed = loans[i].owed
        /\ x.remaining = loans[i].remaining /\ x.collateral = loans[i].collateral
        /\ x.impaired = loans[i].impaired
    BY <1>2, <1>3 DEF Loan
  <1>5. /\ loans' = [loans EXCEPT ![i] = x] /\ vault' = vault /\ brokers' = brokers
        /\ shares' = shares /\ debt' = debt
    BY DEF PaymentOverdue
  <1>6. vault \in Vault /\ vault.loss \in Nat
    BY InvTypes
  <1> HIDE DEF x
  <1>7. x # NoLoan /\ loans[i] # NoLoan
    BY <1>1, <1>4, ObjectsAssumption DEF Exists
  <1>8. LossIn(x) = LossIn(loans[i]) /\ LossIn(x) \in Nat
    BY <1>2, <1>4, <1>7 DEF LossIn
  <1>9. vault'.loss = vault.loss - LossIn(loans[i]) + LossIn(x)
    BY <1>5, <1>6, <1>8
  <1>10. vault' \in Vault /\ vault'.total = vault.total /\ vault'.available = vault.available
         /\ vault'.pool = vault.pool
    BY <1>5, <1>6
  <1> QED
    BY <1>1, <1>4, <1>5, <1>9, <1>10, RestatedKeepsBooks

\* The vault without the impairment of a loan.
LEMMA Unimpaired ==
    ASSUME LendingInv, NEW i \in Loans, Active(i)
    PROVE  /\ unimpairLoan(vault, loans[i]) \in Vault
           /\ unimpairLoan(vault, loans[i]).loss = vault.loss - LossIn(loans[i])
           /\ unimpairLoan(vault, loans[i]).total = vault.total
           /\ unimpairLoan(vault, loans[i]).available = vault.available
           /\ unimpairLoan(vault, loans[i]).pool = vault.pool
           /\ unimpairLoan(vault, loans[i]).index = vault.index
  <1> DEFINE s == vault.loss - loans[i].owed
  <1>1. /\ loans[i].owed \in Nat /\ loans[i].impaired \in BOOLEAN
        /\ LossIn(loans[i]) = (IF loans[i].impaired THEN loans[i].owed ELSE 0)
    BY LoanOf DEF Active
  <1>2. vault \in Vault /\ vault.loss \in Nat
    BY InvTypes
  <1>3. CASE loans[i].impaired
    <2>1. unimpairLoan(vault, loans[i]) = [vault EXCEPT !.loss = s]
      BY <1>3 DEF unimpairLoan
    <2>2. s \in Int /\ s = vault.loss - LossIn(loans[i])
      BY <1>1, <1>2, <1>3
    <2> HIDE DEF s
    <2> QED
      BY <1>2, <2>1, <2>2 DEF Vault
  <1>4. CASE ~ loans[i].impaired
    BY <1>1, <1>2, <1>4 DEF unimpairLoan
  <1> QED
    BY <1>3, <1>4

LEMMA ImpairKeepsBooks ==
    ASSUME LendingInv, NEW i \in Loans, Active(i), ~ loans[i].impaired, impairLoan(i),
           shares' = shares, debt' = debt
    PROVE  LendingInv'
  <1> DEFINE o == IF loans[i].overdue = 0 THEN 1 ELSE loans[i].overdue
             x == [loans[i] EXCEPT !.impaired = TRUE, !.overdue = o]
             s == vault.loss + loans[i].owed
  <1>1. Exists(i) /\ loans[i].remaining > 0
    BY DEF Active
  <1>2. loans[i] \in Loan /\ loans[i].overdue \in 0..2 /\ loans[i].owed \in Nat
    BY <1>1, LoanOf
  <1>3. o \in 0..2
    BY <1>2
  <1>4. loans \in [Loans -> Loan \cup {NoLoan}] /\ vault \in Vault /\ vault.loss \in Nat
    BY InvTypes
  <1>5. /\ loans' = [loans EXCEPT ![i] = x] /\ vault' = [vault EXCEPT !.loss = s]
        /\ brokers' = brokers
    <2>1. /\ loans' = [loans EXCEPT ![i].impaired = TRUE, ![i].overdue = IF @ = 0 THEN 1 ELSE @]
          /\ vault' = [vault EXCEPT !.loss = s] /\ brokers' = brokers
      BY DEF impairLoan
    <2> QED
      BY <1>2, <1>4, <2>1 DEF Loan
  <1>6. s \in Int
    BY <1>2, <1>4
  <1> HIDE DEF s, o
  <1>7. /\ x \in Loan /\ x.broker = loans[i].broker /\ x.owed = loans[i].owed
        /\ x.remaining = loans[i].remaining /\ x.collateral = loans[i].collateral
        /\ x.impaired = TRUE
    BY <1>2, <1>3 DEF Loan
  <1>8. /\ vault' \in Vault /\ vault'.loss = s /\ vault'.total = vault.total
        /\ vault'.available = vault.available /\ vault'.pool = vault.pool
    BY <1>4, <1>5, <1>6 DEF Vault
  <1> HIDE DEF x
  <1>9. x # NoLoan /\ loans[i] # NoLoan
    BY <1>1, <1>7, ObjectsAssumption DEF Exists
  <1>10. LossIn(x) = loans[i].owed /\ LossIn(loans[i]) = 0
    BY <1>1, <1>7, <1>9 DEF LossIn
  <1>11. vault'.loss = vault.loss - LossIn(loans[i]) + LossIn(x)
    BY <1>2, <1>4, <1>8, <1>10 DEF s
  <1> QED
    BY <1>1, <1>5, <1>7, <1>8, <1>11, RestatedKeepsBooks

LEMMA UnimpairKeepsBooks ==
    ASSUME LendingInv, NEW i \in Loans, Active(i),
           vault' = unimpairLoan(vault, loans[i]),
           loans' = [loans EXCEPT ![i].impaired = FALSE, ![i].overdue = 0],
           brokers' = brokers, shares' = shares, debt' = debt
    PROVE  LendingInv'
  <1> DEFINE x == [loans[i] EXCEPT !.impaired = FALSE, !.overdue = 0]
  <1>1. Exists(i) /\ loans[i] \in Loan /\ loans[i].owed \in Nat
    BY LoanOf DEF Active
  <1>2. loans \in [Loans -> Loan \cup {NoLoan}] /\ vault.loss \in Nat
    BY InvTypes
  <1>3. loans' = [loans EXCEPT ![i] = x]
    BY <1>1, <1>2 DEF Loan
  <1>4. /\ x \in Loan /\ x.broker = loans[i].broker /\ x.owed = loans[i].owed
        /\ x.remaining = loans[i].remaining /\ x.collateral = loans[i].collateral
        /\ ~ x.impaired
    <2>1. 0 \in 0..2 /\ FALSE \in BOOLEAN
      OBVIOUS
    <2> QED
      BY <1>1, <2>1 DEF Loan
  <1> HIDE DEF x
  <1>5. LossIn(x) = 0 /\ LossIn(loans[i]) \in Nat
    BY <1>1, <1>4 DEF LossIn
  <1>6. /\ vault' \in Vault /\ vault'.loss = vault.loss - LossIn(loans[i])
        /\ vault'.total = vault.total /\ vault'.available = vault.available
        /\ vault'.pool = vault.pool
    BY Unimpaired
  <1>7. vault'.loss = vault.loss - LossIn(loans[i]) + LossIn(x)
    BY <1>2, <1>5, <1>6
  <1> QED
    BY <1>1, <1>3, <1>4, <1>6, <1>7, RestatedKeepsBooks

\* A payment of due, of which change was not scheduled, that takes what is owed
\* down to no less than nothing, and to nothing when no payment remains.
LEMMA PaymentKeepsBooks ==
    ASSUME LendingInv, NEW i \in Loans, Active(i), NEW due \in Nat, NEW change \in Int,
           NEW remaining \in Nat, due - change <= loans[i].owed,
           remaining = 0 => due - change = loans[i].owed,
           payLoan(i, due, change, remaining)
    PROVE  LendingInv'
  <1> DEFINE loan == loans[i]
             b == loan.broker
             v == unimpairLoan(vault, loan)
             returned == IF remaining = 0 THEN loan.collateral ELSE 0
             toCover == IF brokers[b].cover >= minimumCover(brokers[b].debt)
                        THEN 0 ELSE ServiceFee
             o == loan.owed - (due - change)
             c == loan.collateral - returned
             d == brokers[b].debt - (due - change)
             p == brokers[b].drops - returned
             k == brokers[b].cover + toCover
             x == [loan EXCEPT !.owed = o, !.remaining = remaining, !.collateral = c,
                               !.impaired = FALSE, !.overdue = 0]
             y == [brokers[b] EXCEPT !.debt = d, !.drops = p, !.cover = k]
  <1>1. Exists(i)
    BY DEF Active
  <1>2. /\ loan \in Loan /\ b \in Brokers /\ loan.owed \in Nat /\ loan.remaining \in Nat
        /\ loan.collateral \in Nat /\ brokers[b] # NoBroker /\ brokers[b] \in LoanBroker
        /\ brokers[b].drops \in Nat /\ brokers[b].debt \in Nat /\ brokers[b].loans \in Int
        /\ brokers[b].cover \in Nat
        /\ OwedIn(loan) = loan.owed /\ Count(loan) = 1 /\ PledgedIn(loan) = loan.collateral
    BY <1>1, LoanOf
  <1>3. /\ loans \in [Loans -> Loan \cup {NoLoan}]
        /\ brokers \in [Brokers -> LoanBroker \cup {NoBroker}]
        /\ vault.total \in Nat /\ vault.available \in Nat
        /\ vault.loss \in Nat /\ vault.pool \in Nat
    BY InvTypes
  <1>4. /\ v \in Vault /\ v.loss = vault.loss - LossIn(loan) /\ v.total = vault.total
        /\ v.available = vault.available /\ v.pool = vault.pool
    BY Unimpaired
  <1>5. /\ brokers[b].drops >= returned
        /\ loans' = [loans EXCEPT ![i] = x]
        /\ vault' = [v EXCEPT !.available = @ + due, !.total = @ + change]
        /\ brokers' = [brokers EXCEPT ![b].debt = @ - (due - change),
                                      ![b].drops = @ - returned, ![b].cover = @ + toCover]
        /\ shares' = shares /\ debt' = debt
    BY DEF payLoan, settleLoan
  <1>6. toCover \in Nat /\ returned \in Nat /\ returned <= loan.collateral
    BY <1>2, LendingAssumption
  <1>7. due - change \in Int
    OBVIOUS
  <1>8. o \in Nat /\ c \in Nat /\ d \in Int /\ p \in Nat /\ k \in Nat
    <2> HIDE DEF toCover, returned
    <2>1. o \in Nat
      BY <1>2
    <2>2. c \in Nat /\ p \in Nat
      BY <1>2, <1>5, <1>6
    <2>3. d \in Int /\ k \in Nat
      BY <1>2, <1>6
    <2> QED
      BY <2>1, <2>2, <2>3
  <1>9. brokers' = [brokers EXCEPT ![b] = y]
    <2> DEFINE q == due - change
    <2>1. q \in Int /\ returned \in Int /\ toCover \in Int
      BY <1>6, <1>7
    <2>2. /\ brokers' = [brokers EXCEPT ![b].debt = @ - q,
                                        ![b].drops = @ - returned, ![b].cover = @ + toCover]
          /\ y = [brokers[b] EXCEPT !.debt = @ - q, !.drops = @ - returned,
                                    !.cover = @ + toCover]
      BY <1>5
    <2> HIDE DEF q, returned, toCover, y
    <2> QED
      BY <1>2, <1>3, <2>1, <2>2 DEF LoanBroker
  <1> HIDE DEF o, c, d, p, k
  <1>10. /\ x \in Loan /\ x.broker = b /\ x.owed = o /\ x.remaining = remaining
         /\ x.collateral = c /\ ~ x.impaired
    <2>1. 0 \in 0..2 /\ FALSE \in BOOLEAN
      OBVIOUS
    <2> QED
      BY <1>2, <1>8, <2>1 DEF Loan
  <1>11. /\ y \in LoanBroker /\ y.debt = d /\ y.drops = p /\ y.loans = brokers[b].loans
    BY <1>2, <1>8 DEF LoanBroker
  <1>12. /\ vault' \in Vault /\ vault'.available = vault.available + due
         /\ vault'.total = vault.total + change /\ vault'.loss = vault.loss - LossIn(loan)
         /\ vault'.pool = vault.pool
    <2> DEFINE a == vault.available + due
               t == vault.total + change
    <2>1. a \in Int /\ t \in Int /\ vault' = [v EXCEPT !.available = a, !.total = t]
      BY <1>3, <1>4, <1>5
    <2> HIDE DEF a, t, v
    <2>2. /\ vault' \in Vault /\ vault'.available = a /\ vault'.total = t
          /\ vault'.loss = v.loss /\ vault'.pool = v.pool
      BY <1>4, <2>1 DEF Vault
    <2> QED
      BY <1>4, <2>2 DEF a, t
  <1> HIDE DEF x, y
  <1>13. x # NoLoan
    BY <1>10, ObjectsAssumption
  <1>14. OwedIn(x) = o /\ LossIn(x) = 0 /\ PledgedIn(x) = c /\ Count(x) = 1
    BY <1>10, <1>13 DEF OwedIn, LossIn, PledgedIn, Count
  <1>15. LossIn(loan) \in Nat
    BY <1>2, LoanTyped
  <1>16. y.debt = brokers[b].debt - OwedIn(loans[i]) + OwedIn(x)
    BY <1>2, <1>11, <1>14 DEF o, d
  <1>17. y.loans = brokers[b].loans - Count(loans[i]) + Count(x)
    BY <1>2, <1>11, <1>14
  <1>18. y.drops + PledgedIn(loans[i]) + vault.pool
           >= brokers[b].drops + PledgedIn(x) + vault'.pool
    <2> HIDE DEF returned
    <2> QED
      BY <1>2, <1>3, <1>6, <1>11, <1>12, <1>14 DEF c, p
  <1>19. /\ vault'.available >= 0
         /\ vault'.total - vault'.available
              = vault.total - vault.available - OwedIn(loans[i]) + OwedIn(x)
    BY <1>2, <1>3, <1>12, <1>14 DEF o
  <1>20. vault'.loss = vault.loss - LossIn(loans[i]) + LossIn(x)
    BY <1>3, <1>12, <1>14, <1>15
  <1>21. x.remaining = 0 => x.owed = 0
    BY <1>2, <1>10 DEF o
  <1>22. x.broker = b /\ loans[i].broker = b
    BY <1>10
  <1> HIDE DEF b
  <1> QED
    BY <1>2, <1>5, <1>9, <1>10, <1>11, <1>12, <1>16, <1>17, <1>18, <1>19, <1>20,
       <1>21, <1>22, LoanKeepsBooks

LEMMA PayKeepsBooks ==
    ASSUME LendingInv, NEW i \in Loans, LoanPay(i)
    PROVE  LendingInv'
  <1> DEFINE loan == loans[i]
             due == periodicPayment(loan)
             late == loan.overdue > 0 /\ ~ loan.impaired
             dropped == Least(Penalty, loan.owed)
             r == loan.remaining - 1
  <1>1. Active(i)
    BY DEF LoanPay
  <1>2. loan.owed \in Nat /\ loan.remaining \in Nat /\ loan.remaining > 0
    BY <1>1, LoanOf DEF Active
  <1>3. Penalty \in Nat
    BY LendingAssumption
  <1>4. /\ due \in Nat /\ due <= loan.owed /\ (loan.remaining = 1 => due = loan.owed)
    <2>1. CASE loan.remaining = 1
      BY <1>2, <2>1 DEF periodicPayment
    <2>2. CASE loan.remaining # 1
      <3> DEFINE q == loan.owed \div loan.remaining
      <3>1. q \in Nat /\ q * loan.remaining <= loan.owed
        BY <1>2, DivBounds
      <3> HIDE DEF q
      <3>2. q <= q * loan.remaining
        BY <1>2, <3>1
      <3>3. q * loan.remaining \in Nat
        BY <1>2, <3>1
      <3>4. due = q
        BY <2>2 DEF periodicPayment, q
      <3> QED
        BY <1>2, <2>2, <3>1, <3>2, <3>3, <3>4
    <2> QED
      BY <2>1, <2>2
  <1>5. dropped \in Nat /\ dropped <= loan.owed
    BY <1>2, <1>3 DEF Least
  <1>6. \/ payLoan(i, due, 0, r)
        \/ payLoan(i, due + Penalty, Penalty, r)
        \/ payLoan(i, loan.owed - dropped, -dropped, 0)
    BY DEF LoanPay
  <1>7. r \in Nat /\ (r = 0 => loan.remaining = 1)
    BY <1>2
  <1> HIDE DEF due, dropped, r
  <1>8. CASE payLoan(i, due, 0, r)
    <2> DEFINE change == 0
    <2>1. /\ change \in Int /\ due - change <= loan.owed
          /\ (r = 0 => due - change = loan.owed)
      BY <1>2, <1>4, <1>7
    <2>2. payLoan(i, due, change, r)
      BY <1>8
    <2> HIDE DEF change
    <2> QED
      BY <1>1, <1>4, <1>7, <2>1, <2>2, PaymentKeepsBooks
  <1>9. CASE payLoan(i, due + Penalty, Penalty, r)
    <2> DEFINE all == due + Penalty
    <2>1. /\ all \in Nat /\ all - Penalty <= loan.owed
          /\ (r = 0 => all - Penalty = loan.owed)
      BY <1>2, <1>3, <1>4, <1>7
    <2>2. payLoan(i, all, Penalty, r)
      BY <1>9
    <2> HIDE DEF all
    <2> QED
      BY <1>1, <1>3, <1>7, <2>1, <2>2, PaymentKeepsBooks
  <1>10. CASE payLoan(i, loan.owed - dropped, -dropped, 0)
    <2> DEFINE all == loan.owed - dropped
               change == -dropped
    <2>1. all \in Nat /\ change \in Int /\ all - change = loan.owed
      BY <1>2, <1>5
    <2>2. payLoan(i, all, change, 0)
      BY <1>10
    <2> HIDE DEF all, change
    <2>3. all - change <= loan.owed
      BY <1>2, <2>1
    <2> QED
      BY <1>1, <2>1, <2>2, <2>3, PaymentKeepsBooks
  <1> QED
    BY <1>6, <1>8, <1>9, <1>10

\* What the index grows by when so much is forfeited.
Grown(forfeited) ==
    IF sharesTotal = 0 THEN 0 ELSE (forfeited * IndexScale) \div sharesTotal

\* The vault after a forfeiture: the debt is written off, the collateral is in
\* the pool, and the index grew.
LEMMA Forfeited ==
    ASSUME LendingInv, NEW i \in Loans, Active(i), defaultPermissionlessLoan(i)
    PROVE  /\ vault' \in Vault /\ vault'.total = vault.total - loans[i].owed
           /\ vault'.available = vault.available
           /\ vault'.loss = vault.loss - LossIn(loans[i])
           /\ vault'.pool = vault.pool + loans[i].collateral
           /\ vault'.index = vault.index + Grown(loans[i].collateral)
           /\ Grown(loans[i].collateral) \in Nat
           /\ sharesTotal * Grown(loans[i].collateral) <= loans[i].collateral * IndexScale
  <1> DEFINE c == loans[i].collateral
             g == Grown(c)
             v == unimpairLoan(vault, loans[i])
             t == vault.total - loans[i].owed
             u == [v EXCEPT !.total = t]
             p == vault.pool + c
             n == vault.index + g
  <1>1. loans[i].owed \in Nat /\ c \in Nat
    BY LoanOf DEF Active
  <1>2. /\ vault.total \in Nat /\ vault.pool \in Nat /\ vault.index \in Nat
        /\ sharesTotal \in Nat /\ IndexScale \in Nat
    BY InvTypes, LendingAssumption
  <1>3. /\ v \in Vault /\ v.loss = vault.loss - LossIn(loans[i]) /\ v.total = vault.total
        /\ v.available = vault.available /\ v.pool = vault.pool /\ v.index = vault.index
    BY Unimpaired
  <1>4. g \in Nat /\ sharesTotal * g <= c * IndexScale
    <2>1. c * IndexScale \in Nat
      BY <1>1, <1>2
    <2>2. CASE sharesTotal = 0
      BY <2>1, <2>2 DEF Grown
    <2>3. CASE sharesTotal # 0
      <3>1. g = (c * IndexScale) \div sharesTotal
        BY <2>3 DEF Grown
      <3> QED
        BY <1>2, <2>1, <2>3, <3>1, DivBounds
    <2> QED
      BY <2>2, <2>3
  <1>5. vault' = [u EXCEPT !.pool = @ + c, !.index = @ + g]
    BY <1>3 DEF defaultPermissionlessLoan, forfeitLoan, creditLiquidationToLPs, Grown
  <1>6. t \in Int /\ p \in Nat /\ n \in Nat
    BY <1>1, <1>2, <1>4
  <1> HIDE DEF t, v, g, c
  <1>7. /\ u \in Vault /\ u.total = t /\ u.available = v.available /\ u.loss = v.loss
        /\ u.pool = v.pool /\ u.index = v.index
    BY <1>3, <1>6 DEF Vault
  <1>8. vault' = [u EXCEPT !.pool = p, !.index = n]
    BY <1>3, <1>5, <1>7
  <1> HIDE DEF u, p, n
  <1>9. /\ vault' \in Vault /\ vault'.total = u.total /\ vault'.available = u.available
        /\ vault'.loss = u.loss /\ vault'.pool = p /\ vault'.index = n
    BY <1>6, <1>7, <1>8 DEF Vault
  <1> QED
    BY <1>3, <1>4, <1>7, <1>9 DEF t, c, g, p, n

\* A loan that is in default, with the debt of its broker written off.
LEMMA DefaultKeepsBooks ==
    ASSUME LendingInv, NEW i \in Loans, Active(i), vault' \in Vault,
           NEW c \in Nat, c <= loans[i].collateral,
           NEW k \in Nat, NEW x, x = [defaulted(loans[i]) EXCEPT !.collateral = c],
           NEW b, b = loans[i].broker, NEW d, d = brokers[b].debt - loans[i].owed,
           NEW y, y = [brokers[b] EXCEPT !.debt = d, !.cover = k],
           loans' = [loans EXCEPT ![i] = x], brokers' = [brokers EXCEPT ![b] = y],
           vault'.available >= 0,
           vault'.total - vault'.available = vault.total - vault.available - loans[i].owed,
           vault'.loss = vault.loss - LossIn(loans[i]),
           vault'.pool + c <= vault.pool + loans[i].collateral,
           shares' = shares, debt' = debt
    PROVE  LendingInv'
  <1> DEFINE loan == loans[i]
  <1>1. Exists(i)
    BY DEF Active
  <1>2. /\ loan \in Loan /\ b \in Brokers /\ loan.owed \in Nat
        /\ loan.collateral \in Nat /\ brokers[b] # NoBroker /\ brokers[b] \in LoanBroker
        /\ brokers[b].drops \in Nat /\ brokers[b].debt \in Nat /\ brokers[b].loans \in Int
        /\ OwedIn(loan) = loan.owed /\ Count(loan) = 1 /\ PledgedIn(loan) = loan.collateral
    BY <1>1, LoanOf
  <1>3. /\ vault.total \in Nat /\ vault.available \in Nat
        /\ vault.loss \in Nat /\ vault.pool \in Nat /\ vault'.pool \in Nat
        /\ vault'.total \in Int /\ vault'.available \in Int
    BY InvTypes DEF Vault
  <1>4. /\ x \in Loan /\ x.broker = b /\ x.owed = 0 /\ x.remaining = 0 /\ x.collateral = c
    <2> DEFINE u == [loan EXCEPT !.owed = 0, !.remaining = 0, !.overdue = 0]
    <2>1. 0 \in 0..2 /\ 0 \in Nat
      OBVIOUS
    <2>2. u \in Loan /\ u.broker = b /\ u.owed = 0 /\ u.remaining = 0
      BY <1>2, <2>1 DEF Loan
    <2>3. x = [u EXCEPT !.collateral = c]
      BY DEF defaulted
    <2> HIDE DEF u
    <2> QED
      BY <2>2, <2>3 DEF Loan
  <1>5. d \in Int
    BY <1>2
  <1>7. /\ y \in LoanBroker /\ y.debt = d /\ y.drops = brokers[b].drops
        /\ y.loans = brokers[b].loans
    BY <1>2, <1>5 DEF LoanBroker
  <1>8. x # NoLoan
    BY <1>4, ObjectsAssumption
  <1>9. OwedIn(x) = 0 /\ LossIn(x) = 0 /\ PledgedIn(x) = c /\ Count(x) = 1
    BY <1>4, <1>8 DEF OwedIn, LossIn, PledgedIn, Count
  <1>10. LossIn(loan) \in Nat
    BY <1>2, LoanTyped
  <1>11. y.debt = brokers[b].debt - OwedIn(loans[i]) + OwedIn(x)
    BY <1>2, <1>7, <1>9
  <1>12. y.loans = brokers[b].loans - Count(loans[i]) + Count(x)
    BY <1>2, <1>7, <1>9
  <1>13. y.drops + PledgedIn(loans[i]) + vault.pool
           >= brokers[b].drops + PledgedIn(x) + vault'.pool
    BY <1>2, <1>3, <1>7, <1>9
  <1>14. vault'.total - vault'.available
           = vault.total - vault.available - OwedIn(loans[i]) + OwedIn(x)
    BY <1>2, <1>3, <1>9
  <1>15. vault'.loss = vault.loss - LossIn(loans[i]) + LossIn(x)
    BY <1>3, <1>9, <1>10
  <1>16. x.broker = b /\ loans[i].broker = b /\ x.owed = 0
    BY <1>4
  <1> QED
    BY <1>2, <1>4, <1>7, <1>11, <1>12, <1>13, <1>14, <1>15, <1>16, LoanKeepsBooks

LEMMA ForfeitKeepsBooks ==
    ASSUME LendingInv, NEW i \in Loans, Active(i), defaultPermissionlessLoan(i),
           shares' = shares, debt' = debt
    PROVE  LendingInv'
  <1> DEFINE b == loans[i].broker
             d == brokers[b].debt - loans[i].owed
             c == 0
             k == brokers[b].cover
             x == [defaulted(loans[i]) EXCEPT !.collateral = c]
             y == [brokers[b] EXCEPT !.debt = d, !.cover = k]
  <1>1. /\ loans[i].owed \in Nat /\ loans[i].collateral \in Nat /\ b \in Brokers
        /\ brokers[b] \in LoanBroker /\ k \in Nat /\ brokers[b].debt \in Nat
    BY LoanOf DEF Active
  <1>2. brokers \in [Brokers -> LoanBroker \cup {NoBroker}]
    BY InvTypes
  <1>3. loans' = [loans EXCEPT ![i] = x]
    BY DEF defaultPermissionlessLoan, forfeitLoan
  <1>4. brokers' = [brokers EXCEPT ![b] = y]
    <2>1. brokers' = [brokers EXCEPT ![b] = [brokers[b] EXCEPT !.debt = d]]
      BY DEF defaultPermissionlessLoan, forfeitLoan
    <2>2. y = [brokers[b] EXCEPT !.debt = d]
      BY <1>1 DEF LoanBroker
    <2> QED
      BY <2>1, <2>2
  <1>5. /\ vault' \in Vault /\ vault'.total = vault.total - loans[i].owed
        /\ vault'.available = vault.available
        /\ vault'.loss = vault.loss - LossIn(loans[i])
        /\ vault'.pool = vault.pool + loans[i].collateral
    BY Forfeited
  <1>6. /\ vault.total \in Nat /\ vault.available \in Nat /\ vault.pool \in Nat
    BY InvTypes
  <1>7. /\ vault'.available >= 0
        /\ vault'.total - vault'.available = vault.total - vault.available - loans[i].owed
        /\ c \in Nat /\ c <= loans[i].collateral
        /\ vault'.pool + c <= vault.pool + loans[i].collateral
    BY <1>1, <1>5, <1>6
  <1> HIDE DEF c, k
  <1>8. /\ x = [defaulted(loans[i]) EXCEPT !.collateral = c]
        /\ b = loans[i].broker /\ d = brokers[b].debt - loans[i].owed
        /\ y = [brokers[b] EXCEPT !.debt = d, !.cover = k]
    OBVIOUS
  <1> HIDE DEF x, y, b, d
  <1> QED
    BY <1>1, <1>3, <1>4, <1>5, <1>7, <1>8, DefaultKeepsBooks

LEMMA CoveredKeepsBooks ==
    ASSUME LendingInv, NEW i \in Loans, Active(i), defaultLoan(i),
           shares' = shares, debt' = debt
    PROVE  LendingInv'
  <1> DEFINE loan == loans[i]
             b == loan.broker
             v == unimpairLoan(vault, loan)
             least == Ceiling(minimumCover(brokers[b].debt) * CoverRateLiq, BpsDenom)
             covered == Least(brokers[b].cover, Least(loan.owed, least))
             d == brokers[b].debt - loan.owed
             c == loan.collateral
             k == brokers[b].cover - covered
             x == [defaulted(loan) EXCEPT !.collateral = c]
             y == [brokers[b] EXCEPT !.debt = d, !.cover = k]
  <1>1. /\ loan \in Loan /\ loan.owed \in Nat /\ c \in Nat /\ b \in Brokers
        /\ brokers[b] \in LoanBroker /\ brokers[b].cover \in Nat /\ brokers[b].debt \in Nat
    BY LoanOf DEF Active
  <1>2. /\ brokers \in [Brokers -> LoanBroker \cup {NoBroker}]
        /\ loans \in [Loans -> Loan \cup {NoLoan}]
        /\ vault.total \in Nat /\ vault.available \in Nat /\ vault.pool \in Nat
    BY InvTypes
  <1>3. covered \in Nat /\ covered <= brokers[b].cover
    <2>1. minimumCover(brokers[b].debt) \in Nat
      BY <1>1, CoverTyped
    <2>2. CoverRateLiq \in Nat /\ BpsDenom \in Nat \ {0}
      BY LendingAssumption
    <2>3. minimumCover(brokers[b].debt) * CoverRateLiq \in Nat
      BY <2>1, <2>2
    <2>4. least \in Nat
      BY <2>2, <2>3, CeilingTyped
    <2> HIDE DEF least
    <2> QED
      BY <1>1, <2>4 DEF Least
  <1>4. k \in Nat
    BY <1>1, <1>3
  <1>5. /\ vault' = [v EXCEPT !.total = @ - (loan.owed - covered), !.available = @ + covered]
        /\ loans' = [loans EXCEPT ![i] = defaulted(loan)]
        /\ brokers' = [brokers EXCEPT ![b].debt = @ - loan.owed, ![b].cover = @ - covered]
    BY DEF defaultLoan, writtenOff
  <1> HIDE DEF covered
  <1>6. loans' = [loans EXCEPT ![i] = x]
    <2>1. x = defaulted(loan)
      BY <1>1 DEF defaulted, Loan
    <2> QED
      BY <1>5, <2>1
  <1>7. brokers' = [brokers EXCEPT ![b] = y]
    BY <1>1, <1>2, <1>3, <1>5 DEF LoanBroker
  <1>8. /\ v \in Vault /\ v.loss = vault.loss - LossIn(loan) /\ v.total = vault.total
        /\ v.available = vault.available /\ v.pool = vault.pool
    BY Unimpaired
  <1>9. /\ vault' \in Vault /\ vault'.total = vault.total - (loan.owed - covered)
        /\ vault'.available = vault.available + covered
        /\ vault'.loss = v.loss /\ vault'.pool = v.pool
    <2> DEFINE t == vault.total - (loan.owed - covered)
               a == vault.available + covered
    <2>1. t \in Int /\ a \in Int /\ vault' = [v EXCEPT !.total = t, !.available = a]
      BY <1>1, <1>2, <1>3, <1>5, <1>8
    <2> HIDE DEF t, a, v
    <2>2. /\ vault' \in Vault /\ vault'.total = t /\ vault'.available = a
          /\ vault'.loss = v.loss /\ vault'.pool = v.pool
      BY <1>8, <2>1 DEF Vault
    <2> QED
      BY <2>2 DEF t, a
  <1> HIDE DEF v
  <1>10. /\ vault'.available >= 0
         /\ vault'.total - vault'.available = vault.total - vault.available - loans[i].owed
         /\ vault'.loss = vault.loss - LossIn(loans[i])
         /\ c <= loans[i].collateral
         /\ vault'.pool + c <= vault.pool + loans[i].collateral
    BY <1>1, <1>2, <1>3, <1>8, <1>9
  <1>11. /\ x = [defaulted(loans[i]) EXCEPT !.collateral = c]
         /\ b = loans[i].broker /\ d = brokers[b].debt - loans[i].owed
         /\ y = [brokers[b] EXCEPT !.debt = d, !.cover = k]
    OBVIOUS
  <1> HIDE DEF x, y, b, c, d, k
  <1> QED
    BY <1>1, <1>4, <1>6, <1>7, <1>9, <1>10, <1>11, DefaultKeepsBooks

LEMMA ManageKeepsBooks ==
    ASSUME LendingInv, NEW i \in Loans, LoanManage(i)
    PROVE  LendingInv'
  <1>1. Active(i) /\ shares' = shares /\ debt' = debt
    BY DEF LoanManage
  <1>2. \/ ~ loans[i].impaired /\ impairLoan(i)
        \/ /\ vault' = unimpairLoan(vault, loans[i])
           /\ loans' = [loans EXCEPT ![i].impaired = FALSE, ![i].overdue = 0]
           /\ brokers' = brokers
        \/ defaultPermissionlessLoan(i)
        \/ defaultLoan(i)
    BY DEF LoanManage
  <1> QED
    BY <1>1, <1>2, ImpairKeepsBooks, UnimpairKeepsBooks, ForfeitKeepsBooks, CoveredKeepsBooks

LEMMA BooksInitially ==
    ASSUME LendingInit
    PROVE  LendingInv
  <1>1. /\ vault = [total |-> 0, available |-> 0, loss |-> 0, pool |-> 0, index |-> 0]
        /\ brokers = [b \in Brokers |-> NoBroker] /\ loans = [i \in Loans |-> NoLoan]
        /\ shares = [l \in Lenders |-> 0] /\ debt = [l \in Lenders |-> Absent]
    BY DEF LendingInit
  <1>2. LendingTypeOK
    BY <1>1 DEF LendingTypeOK, Vault
  <1>3. /\ OwedAll(loans) = [i \in Loans |-> 0] /\ LossAll(loans) = [i \in Loans |-> 0]
        /\ PledgedAll(loans) = [i \in Loans |-> 0]
    BY <1>1 DEF OwedAll, LossAll, PledgedAll, OwedIn, LossIn, PledgedIn
  <1>4. /\ IsFiniteSet(Loans) /\ Cardinality(Loans) \in Nat
    BY ObjectsAssumption, FS_CardinalityType
  <1>5. \A f : f = [i \in Loans |-> 0] => SumFunction(f) = Cardinality(Loans) * 0
    BY <1>4, SumOfConstant
  <1>6. /\ SumFunction(OwedAll(loans)) = 0 /\ SumFunction(LossAll(loans)) = 0
        /\ SumFunction(PledgedAll(loans)) = 0
    BY <1>3, <1>4, <1>5
  <1>7. SumFunction(DropsAll(brokers)) \in Nat
    BY <1>2, BooksTyped DEF LendingTypeOK
  <1>8. BrokersMatch(brokers, loans) /\ LoansShaped(brokers, loans)
    BY <1>1 DEF BrokersMatch, LoansShaped
  <1> QED
    BY <1>1, <1>2, <1>6, <1>7, <1>8 DEF LendingInv, Books

LEMMA StepKeepsBooks ==
    ASSUME LendingInv, [LendingNext]_lendingVars
    PROVE  LendingInv'
  <1>1. CASE UNCHANGED lendingVars
    BY <1>1 DEF lendingVars, LendingInv, LendingTypeOK
  <1>2. ASSUME NEW l \in Lenders, LenderStep(l) PROVE LendingInv'
    BY <1>2, DepositKeepsBooks, WithdrawKeepsBooks, ClaimKeepsBooks, SendKeepsBooks,
       UnauthorizeKeepsBooks DEF LenderStep
  <1>3. ASSUME NEW b \in Brokers, BrokerStep(b) PROVE LendingInv'
    BY <1>3, BrokerKeepsBooks
  <1>4. ASSUME NEW i \in Loans, LoanStep(i) PROVE LendingInv'
    BY <1>4, SetKeepsBooks, CollateralKeepsBooks, PayKeepsBooks, ManageKeepsBooks,
       DeleteKeepsBooks, OverdueKeepsBooks DEF LoanStep
  <1>5. ASSUME NEW p \in Prices, AMMTrade(p) PROVE LendingInv'
    BY <1>5 DEF AMMTrade, LendingInv, LendingTypeOK
  <1> QED
    BY <1>1, <1>2, <1>3, <1>4, <1>5 DEF LendingNext

-----------------------------------------------------------------------------
(* What the lenders are promised                                           *)

\* The promise of s shares with debt d at index n.
Due(s, d, n) == IF d = Absent THEN 0 ELSE s * n - d
Promise(s, d, n) == IF Due(s, d, n) < 0 THEN 0 ELSE Due(s, d, n)
PromisedAll(ss, ds, n) == [l \in Lenders |-> Promise(ss[l], ds[l], n)]

PromisesKept ==
    SumFunction(PromisedAll(shares, debt, vault.index)) <= vault.pool * IndexScale

LEMMA TimesPlus ==
    ASSUME NEW s \in Int, NEW t \in Int, NEW n \in Int
    PROVE  (s + t) * n = s * n + t * n /\ s * n \in Int /\ t * n \in Int
  OBVIOUS

LEMMA PromiseTyped ==
    ASSUME NEW s \in Nat, NEW d \in Nat \cup {Absent}, NEW n \in Nat
    PROVE  Due(s, d, n) \in Int /\ Promise(s, d, n) \in Nat
  <1>1. s * n \in Nat
    OBVIOUS
  <1>2. Due(s, d, n) \in Int
    BY <1>1 DEF Due
  <1> QED
    BY <1>2 DEF Promise

LEMMA PromisesTyped ==
    ASSUME NEW ss \in [Lenders -> Nat], NEW ds \in [Lenders -> Nat \cup {Absent}],
           NEW n \in Nat
    PROVE  /\ PromisedAll(ss, ds, n) \in [Lenders -> Nat]
           /\ PromisedAll(ss, ds, n) \in [Lenders -> Int]
           /\ \A l \in Lenders : PromisedAll(ss, ds, n)[l] = Promise(ss[l], ds[l], n)
           /\ SumFunction(PromisedAll(ss, ds, n)) \in Int
  <1>1. \A l \in Lenders : Promise(ss[l], ds[l], n) \in Nat
    BY PromiseTyped
  <1>2. /\ PromisedAll(ss, ds, n) \in [Lenders -> Nat]
        /\ PromisedAll(ss, ds, n) \in [Lenders -> Int]
        /\ \A l \in Lenders : PromisedAll(ss, ds, n)[l] = Promise(ss[l], ds[l], n)
    BY <1>1 DEF PromisedAll
  <1> QED
    BY <1>2, SumTyped, ObjectsAssumption

LEMMA UnpaidIsDue ==
    ASSUME LendingInv, NEW l \in Lenders
    PROVE  Unpaid(l) = Due(shares[l], debt[l], vault.index)
  <1>1. shares[l] \in Nat /\ vault.index \in Nat
    BY InvTypes
  <1>2. shares[l] * vault.index \in Nat
    BY <1>1
  <1> QED
    BY <1>2 DEF Unpaid, Due, mptLiquidationDebt

LEMMA PromisesKeptIs ==
    ASSUME LendingInv, ~ transferable => PromisesKept
    PROVE  PromisesWithinPool
  <1> DEFINE value(l) == IF Unpaid(l) < 0 THEN 0 ELSE Unpaid(l)
  <1>1. [l \in Lenders |-> value(l)] = PromisedAll(shares, debt, vault.index)
    BY UnpaidIsDue DEF PromisedAll, Promise
  <1>2. PromisesKept => SumFunction([l \in Lenders |-> value(l)]) <= vault.pool * IndexScale
    BY <1>1 DEF PromisesKept
  <1> QED
    BY <1>2 DEF PromisesWithinPool, SumOver

\* Shares that come or go take no promise along.
LEMMA DeltaPromisesNoMore ==
    ASSUME NEW s \in Nat, NEW d \in Nat \cup {Absent}, NEW n \in Nat, NEW delta \in Int,
           s + delta \in Nat, NEW e,
           e = IF s + delta = 0 THEN Absent
               ELSE LET moved == (IF d = Absent THEN s * n ELSE d) + delta * n
                    IN  StoredDebt(IF moved < 0 THEN 0 ELSE moved)
    PROVE  Promise(s + delta, e, n) <= Promise(s, d, n)
  <1> DEFINE sn == s * n
             dn == delta * n
             moved == (IF d = Absent THEN sn ELSE d) + dn
             r == s + delta
  <1>1. r * n = sn + dn /\ sn \in Int /\ dn \in Int
    BY TimesPlus
  <1>2. Promise(s, d, n) \in Nat
    BY PromiseTyped
  <1>3. Absent \notin Int
    BY ObjectsAssumption
  <1>4. CASE e = Absent
    BY <1>2, <1>4 DEF Promise, Due
  <1>5. CASE e # Absent
    <2>1. r # 0 /\ e = moved /\ moved > 0
      <3> HIDE DEF sn, dn
      <3>1. e = IF r = 0 THEN Absent ELSE StoredDebt(IF moved < 0 THEN 0 ELSE moved)
        BY DEF sn, dn
      <3>2. moved \in Int
        BY <1>1
      <3> QED
        BY <1>5, <3>1, <3>2 DEF StoredDebt
    <2>2. Due(r, e, n) = sn + dn - moved
      BY <1>1, <1>5, <2>1 DEF Due
    <2> HIDE DEF sn, dn
    <2>3. CASE d = Absent
      <3>1. Due(r, e, n) = 0
        BY <1>1, <2>2, <2>3
      <3> QED
        BY <1>2, <3>1 DEF Promise
    <2>4. CASE d # Absent
      <3>1. Due(r, e, n) = sn - d
        BY <1>1, <2>2, <2>4
      <3>2. Due(s, d, n) = sn - d
        BY <2>4 DEF Due, sn
      <3>3. Promise(r, e, n) = Promise(s, d, n)
        BY <3>1, <3>2 DEF Promise
      <3> QED
        BY <1>2, <3>3
    <2> QED
      BY <2>3, <2>4
  <1> QED
    BY <1>4, <1>5

\* Promises that do not grow, out of the same pool.
LEMMA PromisesFewer ==
    ASSUME LendingInv, LendingInv', PromisesKept,
           vault'.pool = vault.pool, vault'.index = vault.index,
           \A l \in Lenders : Promise(shares'[l], debt'[l], vault.index)
                                <= Promise(shares[l], debt[l], vault.index)
    PROVE  PromisesKept'
  <1> DEFINE n == vault.index
             f == PromisedAll(shares, debt, n)
             g == PromisedAll(shares', debt', n)
  <1>1. /\ shares \in [Lenders -> Nat] /\ debt \in [Lenders -> Nat \cup {Absent}]
        /\ n \in Nat /\ vault.pool \in Nat
    BY InvTypes
  <1>2. shares' \in [Lenders -> Nat] /\ debt' \in [Lenders -> Nat \cup {Absent}]
    BY DEF LendingInv, LendingTypeOK
  <1>3. /\ f \in [Lenders -> Int] /\ g \in [Lenders -> Int]
        /\ SumFunction(f) \in Int /\ SumFunction(g) \in Int
        /\ \A l \in Lenders : g[l] <= f[l]
    <2>1. /\ f \in [Lenders -> Int] /\ SumFunction(f) \in Int
          /\ \A l \in Lenders : f[l] = Promise(shares[l], debt[l], n)
      BY <1>1, PromisesTyped
    <2>2. /\ g \in [Lenders -> Int] /\ SumFunction(g) \in Int
          /\ \A l \in Lenders : g[l] = Promise(shares'[l], debt'[l], n)
      BY <1>1, <1>2, PromisesTyped
    <2> QED
      BY <2>1, <2>2
  <1>4. IsFiniteSet(Lenders)
    BY ObjectsAssumption
  <1>5. SumFunction(f) <= vault.pool * IndexScale /\ vault.pool * IndexScale \in Int
    BY <1>1, LendingAssumption DEF PromisesKept
  <1>6. PromisesKept' <=> SumFunction(g) <= vault.pool * IndexScale
    BY DEF PromisesKept
  <1> HIDE DEF f, g
  <1>7. SumFunction(g) <= SumFunction(f)
    BY <1>3, <1>4, SumOrdered
  <1> QED
    BY <1>3, <1>5, <1>6, <1>7

LEMMA DeltaKeepsPromises ==
    ASSUME LendingInv, LendingInv', PromisesKept, NEW l \in Lenders, NEW delta \in Int,
           vault'.pool = vault.pool, vault'.index = vault.index,
           shares[l] + delta \in Nat,
           shares' = [shares EXCEPT ![l] = shares[l] + delta],
           debt' = [debt EXCEPT ![l] = adjustLiquidationDebtForShareDelta(l, delta)]
    PROVE  PromisesKept'
  <1> DEFINE n == vault.index
             e == adjustLiquidationDebtForShareDelta(l, delta)
  <1>1. /\ shares \in [Lenders -> Nat] /\ debt \in [Lenders -> Nat \cup {Absent}]
        /\ n \in Nat
    BY InvTypes
  <1>2. e = IF shares[l] + delta = 0 THEN Absent
            ELSE LET moved == (IF debt[l] = Absent THEN shares[l] * n ELSE debt[l]) + delta * n
                 IN  StoredDebt(IF moved < 0 THEN 0 ELSE moved)
    BY DEF adjustLiquidationDebtForShareDelta, mptLiquidationDebt
  <1>3. shares'[l] = shares[l] + delta /\ debt'[l] = e
    BY <1>1
  <1> HIDE DEF e
  <1>4. Promise(shares[l] + delta, e, n) <= Promise(shares[l], debt[l], n)
    BY <1>1, <1>2, DeltaPromisesNoMore
  <1>5. ASSUME NEW m \in Lenders
        PROVE  Promise(shares'[m], debt'[m], n) <= Promise(shares[m], debt[m], n)
    <2>1. CASE m = l
      BY <1>3, <1>4, <2>1
    <2>2. CASE m # l
      <3>1. shares'[m] = shares[m] /\ debt'[m] = debt[m]
        BY <1>1, <2>2
      <3>2. Promise(shares[m], debt[m], n) \in Nat
        BY <1>1, PromiseTyped
      <3> QED
        BY <3>1, <3>2
    <2> QED
      BY <2>1, <2>2
  <1> QED
    BY <1>5, PromisesFewer

\* A claim takes from the pool what it takes from the promise.
LEMMA ClaimKeepsPromises ==
    ASSUME LendingInv, PromisesKept, NEW l \in Lenders, NEW b \in Brokers,
           VaultClaimCollateral(l, b)
    PROVE  PromisesKept'
  <1>1. CASE ~ claimSucceeds(l, b)
    <2>1. UNCHANGED <<vault, debt, shares>>
      BY <1>1 DEF VaultClaimCollateral
    <2> QED
      BY <2>1 DEF PromisesKept
  <1>2. CASE claimSucceeds(l, b)
    <2> DEFINE paid == claimable(l)
               units == paid * IndexScale
               n == vault.index
               d == StoredDebt(mptLiquidationDebt(l, shares[l]) + units)
               f == PromisedAll(shares, debt, n)
               g == PromisedAll(shares, debt', n)
    <2>1. /\ vault' = [vault EXCEPT !.pool = @ - paid]
          /\ debt' = [debt EXCEPT ![l] = d] /\ shares' = shares
      BY <1>2 DEF VaultClaimCollateral, claimLiquidationFalcon
    <2>2. /\ vault \in Vault /\ vault.pool \in Nat /\ n \in Nat
          /\ shares \in [Lenders -> Nat] /\ debt \in [Lenders -> Nat \cup {Absent}]
      BY InvTypes
    <2>3. paid \in Nat /\ paid > 0 /\ paid <= vault.pool /\ units <= Unpaid(l) /\ Unpaid(l) \in Int
      BY <1>2, ClaimBounded DEF claimSucceeds
    <2>4. IndexScale \in Nat \ {0}
      BY LendingAssumption
    <2>5. units \in Nat /\ units > 0
      BY <2>3, <2>4
    <2>6. vault'.pool = vault.pool - paid /\ vault'.index = n
      BY <2>1, <2>2 DEF Vault
    <2>7. Unpaid(l) = Due(shares[l], debt[l], n)
      BY UnpaidIsDue
    <2>8. debt[l] # Absent /\ debt[l] \in Nat
      BY <2>2, <2>3, <2>5, <2>7 DEF Due
    <2> HIDE DEF units, paid
    <2>9. d = debt[l] + units /\ d \in Nat /\ d # Absent
      BY <2>5, <2>8, ObjectsAssumption DEF mptLiquidationDebt, StoredDebt
    <2>10. debt' \in [Lenders -> Nat \cup {Absent}] /\ debt'[l] = d
           /\ \A m \in Lenders : m # l => debt'[m] = debt[m]
      BY <2>1, <2>2, <2>9
    <2> HIDE DEF d
    <2>11. Promise(shares[l], d, n) = Promise(shares[l], debt[l], n) - units
      <3> DEFINE sn == shares[l] * n
      <3>1. sn \in Nat
        BY <2>2
      <3>2. Due(shares[l], d, n) = sn - d /\ Due(shares[l], debt[l], n) = sn - debt[l]
        BY <2>8, <2>9 DEF Due
      <3> HIDE DEF sn
      <3> QED
        BY <2>3, <2>5, <2>7, <2>8, <2>9, <3>1, <3>2 DEF Promise
    <2>12. /\ f \in [Lenders -> Int] /\ g \in [Lenders -> Int] /\ SumFunction(f) \in Int
           /\ \A m \in Lenders : f[m] = Promise(shares[m], debt[m], n)
           /\ \A m \in Lenders : g[m] = Promise(shares[m], debt'[m], n)
      BY <2>2, <2>10, PromisesTyped
    <2>13. g[l] = f[l] - units /\ f[l] \in Int /\ \A m \in Lenders : m # l => f[m] = g[m]
      BY <2>10, <2>11, <2>12
    <2>14. IsFiniteSet(Lenders)
      BY ObjectsAssumption
    <2>15. SumFunction(f) <= vault.pool * IndexScale
      BY DEF PromisesKept
    <2>16. PromisesKept' <=> SumFunction(g) <= (vault.pool - paid) * IndexScale
      BY <2>1, <2>6 DEF PromisesKept
    <2>17. /\ (vault.pool - paid) * IndexScale = vault.pool * IndexScale - units
           /\ vault.pool * IndexScale \in Int
      BY <2>2, <2>3, <2>4 DEF units
    <2> HIDE DEF f, g
    <2>18. SumFunction(g) = SumFunction(f) - f[l] + g[l]
      BY <2>12, <2>13, <2>14, SumUpdate
    <2> QED
      BY <2>5, <2>12, <2>13, <2>15, <2>16, <2>17, <2>18
  <1> QED
    BY <1>1, <1>2

\* Adding the same multiple of every lender's shares to every promise.
LEMMA LendersSum ==
    ASSUME NEW f \in [Lenders -> Int], NEW s \in [Lenders -> Int], NEW k \in Int,
           NEW h \in [Lenders -> Int], \A l \in Lenders : h[l] = f[l] + k * s[l]
    PROVE  SumFunction(h) = SumFunction(f) + k * SumFunction(s)
  <1>1. IsFiniteSet(Lenders)
    BY ObjectsAssumption
  <1> QED
    BY <1>1, SumLinear

\* The index grows by no more for all shares than the pool was credited with.
LEMMA ForfeitKeepsPromises ==
    ASSUME LendingInv, PromisesKept, NEW i \in Loans, Active(i),
           defaultPermissionlessLoan(i), shares' = shares, debt' = debt
    PROVE  PromisesKept'
  <1> DEFINE c == loans[i].collateral
             n == vault.index
             k == Grown(c)
             m == n + k
             f == PromisedAll(shares, debt, n)
             g == PromisedAll(shares, debt, m)
             h == [l \in Lenders |-> f[l] + k * shares[l]]
  <1>1. /\ vault.pool \in Nat /\ n \in Nat /\ shares \in [Lenders -> Nat]
        /\ debt \in [Lenders -> Nat \cup {Absent}] /\ sharesTotal \in Nat
    BY InvTypes
  <1>2. c \in Nat /\ IndexScale \in Nat
    BY LoanOf, LendingAssumption DEF Active
  <1>3. /\ vault'.pool = vault.pool + c /\ vault'.index = m
        /\ k \in Nat /\ sharesTotal * k <= c * IndexScale
    BY Forfeited
  <1> HIDE DEF k, c
  <1>4. m \in Nat
    BY <1>1, <1>3
  <1> HIDE DEF m
  <1>5. /\ f \in [Lenders -> Int] /\ g \in [Lenders -> Int]
        /\ SumFunction(f) \in Int /\ SumFunction(g) \in Int
        /\ \A l \in Lenders : f[l] = Promise(shares[l], debt[l], n)
        /\ \A l \in Lenders : g[l] = Promise(shares[l], debt[l], m)
    BY <1>1, <1>4, PromisesTyped
  <1>6. ASSUME NEW l \in Lenders
        PROVE  Promise(shares[l], debt[l], m) <= Promise(shares[l], debt[l], n) + k * shares[l]
    <2> DEFINE s == shares[l]
               d == debt[l]
               sn == s * n
               sk == k * s
    <2>1. s \in Nat /\ d \in Nat \cup {Absent} /\ sn \in Nat /\ sk \in Nat
      BY <1>1, <1>3
    <2>2. s * m = sn + sk
      BY <1>1, <1>3, <2>1 DEF m
    <2>3. Promise(s, d, n) \in Nat
      BY <1>1, <2>1, PromiseTyped
    <2>4. CASE d = Absent
      <3>1. Promise(s, d, m) = 0
        BY <2>4 DEF Promise, Due
      <3> HIDE DEF sk, s, d
      <3>2. Promise(s, d, m) <= Promise(s, d, n) + sk
        BY <2>1, <2>3, <3>1
      <3> QED
        BY <3>2 DEF sk, s, d
    <2>5. CASE d # Absent
      <3>1. Due(s, d, n) = sn - d /\ Due(s, d, m) = sn + sk - d /\ d \in Nat
        BY <2>1, <2>2, <2>5 DEF Due
      <3> HIDE DEF sn, sk, s, d
      <3>2. Promise(s, d, m) <= Promise(s, d, n) + sk
        BY <2>1, <3>1 DEF Promise
      <3> QED
        BY <3>2 DEF sk, s, d
    <2> QED
      BY <2>4, <2>5
  <1>7. IsFiniteSet(Lenders) /\ shares \in [Lenders -> Int] /\ k \in Int
    BY <1>1, <1>3, ObjectsAssumption
  <1>8. h \in [Lenders -> Int] /\ \A l \in Lenders : h[l] = f[l] + k * shares[l]
    <2> HIDE DEF f
    <2> QED
      BY <1>5, <1>7
  <1>9. \A l \in Lenders : g[l] <= h[l]
    BY <1>5, <1>6
  <1>10. SumFunction(f) <= vault.pool * IndexScale
    BY DEF PromisesKept
  <1>11. PromisesKept' <=> SumFunction(g) <= (vault.pool + c) * IndexScale
    BY <1>3 DEF PromisesKept
  <1> HIDE DEF f, g, h
  <1>12. SumFunction(h) = SumFunction(f) + k * SumFunction(shares)
    BY <1>5, <1>7, <1>8, LendersSum
  <1>13. SumFunction(g) <= SumFunction(h)
    BY <1>5, <1>7, <1>8, <1>9, SumOrdered
  <1>14. SumFunction(shares) = sharesTotal
    BY DEF sharesTotal
  <1>15. k * sharesTotal \in Int /\ k * sharesTotal <= c * IndexScale
    BY <1>1, <1>3
  <1>16. /\ (vault.pool + c) * IndexScale = vault.pool * IndexScale + c * IndexScale
         /\ vault.pool * IndexScale \in Int /\ c * IndexScale \in Int
    BY <1>1, <1>2, TimesPlus
  <1> QED
    BY <1>5, <1>10, <1>11, <1>12, <1>13, <1>14, <1>15, <1>16

\* Every other step of a loan leaves pool, index, shares and debts alone.
LEMMA LoanTouchesNoPromise ==
    ASSUME LendingInv, NEW i \in Loans, LoanStep(i),
           ~ (Active(i) /\ defaultPermissionlessLoan(i))
    PROVE  /\ vault'.pool = vault.pool /\ vault'.index = vault.index
           /\ shares' = shares /\ debt' = debt
  <1>1. vault \in Vault
    BY InvTypes
  <1>2. ASSUME NEW b \in Brokers, NEW c \in Collaterals, NEW p \in BOOLEAN,
               LoanSet(i, b, c, p)
        PROVE  /\ vault'.pool = vault.pool /\ vault'.index = vault.index
               /\ shares' = shares /\ debt' = debt
    <2>1. vault' = [vault EXCEPT !.available = @ - Principal, !.total = @ + Interest]
      BY <1>2 DEF LoanSet
    <2>2. shares' = shares /\ debt' = debt
      BY <1>2 DEF LoanSet
    <2> QED
      BY <1>1, <2>1, <2>2 DEF Vault
  <1>3. ASSUME NEW c \in Collaterals, LoanCollateralDeposit(i, c)
        PROVE  /\ vault'.pool = vault.pool /\ vault'.index = vault.index
               /\ shares' = shares /\ debt' = debt
    BY <1>3 DEF LoanCollateralDeposit
  <1>4. CASE LoanDelete(i) \/ PaymentOverdue(i)
    BY <1>4 DEF LoanDelete, PaymentOverdue
  <1> DEFINE v == unimpairLoan(vault, loans[i])
  <1>5. Active(i) => v \in Vault /\ v.pool = vault.pool /\ v.index = vault.index
    BY Unimpaired
  <1> HIDE DEF v
  <1>6. CASE LoanPay(i)
    <2>1. Active(i)
      BY <1>6 DEF LoanPay
    <2>2. ASSUME NEW due, NEW change, NEW remaining, payLoan(i, due, change, remaining)
          PROVE  /\ vault'.pool = vault.pool /\ vault'.index = vault.index
                 /\ shares' = shares /\ debt' = debt
      <3>1. vault' = [v EXCEPT !.available = v.available + due, !.total = v.total + change]
        BY <2>2 DEF payLoan, settleLoan, v
      <3>2. shares' = shares /\ debt' = debt
        BY <2>2 DEF payLoan, settleLoan
      <3> DEFINE a == v.available + due
                 t == v.total + change
      <3> HIDE DEF a, t
      <3>3. vault' = [v EXCEPT !.available = a, !.total = t]
        BY <3>1 DEF a, t
      <3>4. vault'.pool = v.pool /\ vault'.index = v.index
        BY <1>5, <2>1, <3>3 DEF Vault
      <3> QED
        BY <1>5, <2>1, <3>2, <3>4
    <2> QED
      BY <1>6, <2>2 DEF LoanPay
  <1>7. CASE LoanManage(i)
    <2>1. Active(i) /\ shares' = shares /\ debt' = debt
      BY <1>7 DEF LoanManage
    <2>2. CASE impairLoan(i)
      <3>1. vault' = [vault EXCEPT !.loss = @ + loans[i].owed]
        BY <2>2 DEF impairLoan
      <3> QED
        BY <1>1, <2>1, <3>1 DEF Vault
    <2>3. CASE vault' = unimpairLoan(vault, loans[i])
      BY <1>5, <2>1, <2>3 DEF v
    <2>4. CASE defaultLoan(i)
      <3>1. PICK t, a : vault' = [v EXCEPT !.total = t, !.available = a]
        BY <2>4 DEF defaultLoan, v
      <3>2. vault'.pool = v.pool /\ vault'.index = v.index
        BY <1>5, <2>1, <3>1 DEF Vault
      <3> QED
        BY <1>5, <2>1, <3>2
    <2> QED
      BY <1>7, <2>1, <2>2, <2>3, <2>4 DEF LoanManage
  <1> QED
    BY <1>2, <1>3, <1>4, <1>6, <1>7 DEF LoanStep

LEMMA StepKeepsPromises ==
    ASSUME ~ transferable,
           LendingInv, LendingInv', PromisesKept, [LendingNext]_lendingVars
    PROVE  PromisesKept'
  <1>1. ASSUME vault'.pool = vault.pool, vault'.index = vault.index,
               shares' = shares, debt' = debt
        PROVE  PromisesKept'
    BY <1>1 DEF PromisesKept
  <1>2. CASE UNCHANGED lendingVars
    BY <1>1, <1>2 DEF lendingVars
  <1>3. ASSUME NEW l \in Lenders, LenderStep(l) PROVE PromisesKept'
    <2>0. vault \in Vault /\ shares \in [Lenders -> Nat]
      BY InvTypes
    <2>1. ASSUME NEW amount \in Amounts, VaultDeposit(l, amount) PROVE PromisesKept'
      <3> DEFINE created == assetsToSharesDeposit(amount)
      <3>1. amount \in Nat /\ created > 0
        BY <2>1, LendingAssumption DEF VaultDeposit
      <3>2. created \in Nat
        BY <3>1, DepositTyped
      <3>3. /\ shares' = [shares EXCEPT ![l] = shares[l] + created]
            /\ debt' = [debt EXCEPT ![l] = adjustLiquidationDebtForShareDelta(l, created)]
        BY <2>1 DEF VaultDeposit
      <3>4. PICK t, a : vault' = [vault EXCEPT !.total = t, !.available = a]
        BY <2>1 DEF VaultDeposit
      <3>5. vault'.pool = vault.pool /\ vault'.index = vault.index
        BY <2>0, <3>4 DEF Vault
      <3> HIDE DEF created
      <3>6. shares[l] + created \in Nat /\ created \in Int
        BY <2>0, <3>2
      <3> QED
        BY <3>3, <3>5, <3>6, DeltaKeepsPromises
    <2>2. ASSUME NEW n \in 1..MaxShares, VaultWithdraw(l, n) PROVE PromisesKept'
      <3> DEFINE delta == -n
      <3>1. n \in Nat /\ n <= shares[l] /\ shares[l] \in Nat
        BY <2>0, <2>2, LendingAssumption DEF VaultWithdraw
      <3>2. shares[l] - n = shares[l] + delta /\ delta \in Int /\ shares[l] + delta \in Nat
        BY <3>1
      <3>3. /\ shares' = [shares EXCEPT ![l] = shares[l] - n]
            /\ debt' = [debt EXCEPT ![l] = adjustLiquidationDebtForShareDelta(l, delta)]
        BY <2>2 DEF VaultWithdraw
      <3>4. PICK t, a : vault' = [vault EXCEPT !.total = t, !.available = a]
        BY <2>2 DEF VaultWithdraw
      <3>5. vault'.pool = vault.pool /\ vault'.index = vault.index
        BY <2>0, <3>4 DEF Vault
      <3> HIDE DEF delta
      <3>6. shares' = [shares EXCEPT ![l] = shares[l] + delta]
        BY <3>2, <3>3
      <3> QED
        BY <3>2, <3>3, <3>5, <3>6, DeltaKeepsPromises
    <2>3. ASSUME NEW b \in Brokers, VaultClaimCollateral(l, b) PROVE PromisesKept'
      BY <2>3, ClaimKeepsPromises
    <2>4. ASSUME MPTokenUnauthorize(l) PROVE PromisesKept'
      <3>1. /\ vault' = vault /\ shares' = shares
            /\ debt' = [debt EXCEPT ![l] = Absent]
            /\ debt \in [Lenders -> Nat \cup {Absent}] /\ vault.index \in Nat
        BY <2>4, InvTypes DEF MPTokenUnauthorize
      <3>2. \A m \in Lenders : Promise(shares[m], debt[m], vault.index) \in Nat
        BY <2>0, <3>1, PromiseTyped
      <3>3. ASSUME NEW m \in Lenders
            PROVE  Promise(shares'[m], debt'[m], vault.index)
                     <= Promise(shares[m], debt[m], vault.index)
        <4>1. CASE m = l
          <5>1. Promise(shares'[m], debt'[m], vault.index) = 0
            BY <3>1, <4>1 DEF Promise, Due
          <5> QED
            BY <3>2, <5>1
        <4>2. CASE m # l
          BY <3>1, <3>2, <4>2
        <4> QED
          BY <4>1, <4>2
      <3> QED
        BY <3>1, <3>3, PromisesFewer
    <2>5. ~ \E m \in Lenders, n \in 1..MaxShares : SendShares(l, m, n)
      BY DEF SendShares
    <2> QED
      BY <1>3, <2>1, <2>2, <2>3, <2>4, <2>5 DEF LenderStep
  <1>4. ASSUME NEW b \in Brokers, BrokerStep(b) PROVE PromisesKept'
    BY <1>1, <1>4 DEF BrokerStep, LoanBrokerSet, LoanBrokerDelete,
                      LoanBrokerCoverDeposit, LoanBrokerCoverWithdraw
  <1>5. ASSUME NEW i \in Loans, LoanStep(i) PROVE PromisesKept'
    <2>1. CASE Active(i) /\ defaultPermissionlessLoan(i)
      <3>1. shares' = shares /\ debt' = debt
        BY <1>5 DEF LoanStep, LoanSet, LoanCollateralDeposit, LoanPay, payLoan, settleLoan,
                    LoanManage, LoanDelete, PaymentOverdue
      <3> QED
        BY <2>1, <3>1, ForfeitKeepsPromises
    <2>2. CASE ~ (Active(i) /\ defaultPermissionlessLoan(i))
      BY <1>1, <1>5, <2>2, LoanTouchesNoPromise
    <2> QED
      BY <2>1, <2>2
  <1>6. ASSUME NEW p \in Prices, AMMTrade(p) PROVE PromisesKept'
    BY <1>1, <1>6 DEF AMMTrade
  <1> QED
    BY <1>2, <1>3, <1>4, <1>5, <1>6 DEF LendingNext

LEMMA PromisesInitially ==
    ASSUME LendingInit
    PROVE  PromisesKept
  <1>1. /\ vault.index = 0 /\ vault.pool = 0 /\ debt = [l \in Lenders |-> Absent]
    BY DEF LendingInit
  <1>2. PromisedAll(shares, debt, vault.index) = [l \in Lenders |-> 0]
    BY <1>1 DEF PromisedAll, Promise, Due
  <1>3. IsFiniteSet(Lenders) /\ Cardinality(Lenders) \in Nat
    BY ObjectsAssumption, FS_CardinalityType
  <1>4. SumFunction(PromisedAll(shares, debt, vault.index)) = Cardinality(Lenders) * 0
    BY <1>2, <1>3, SumOfConstant
  <1>5. IndexScale \in Nat
    BY LendingAssumption
  <1> QED
    BY <1>1, <1>3, <1>4, <1>5 DEF PromisesKept

-----------------------------------------------------------------------------
(* The theorems                                                            *)

LEMMA BooksAlways == LendingSpec => []LendingInv
  <1>1. LendingInit => LendingInv
    BY BooksInitially
  <1>2. LendingInv /\ [LendingNext]_lendingVars => LendingInv'
    BY StepKeepsBooks
  <1> QED
    BY <1>1, <1>2, PTL DEF LendingSpec

LEMMA PromisesAlways == LendingSpec => [](~ transferable => PromisesKept)
  <1>1. LendingInit => (~ transferable => PromisesKept)
    BY PromisesInitially
  <1>2. LendingInv /\ LendingInv' /\ (~ transferable => PromisesKept)
          /\ [LendingNext]_lendingVars => (~ transferable => PromisesKept)'
    <2> SUFFICES ASSUME LendingInv, LendingInv', ~ transferable => PromisesKept,
                        [LendingNext]_lendingVars, ~ transferable'
                 PROVE  PromisesKept'
      OBVIOUS
    <2>1. transferable' = transferable
      BY DEF LendingNext, lendingVars
    <2> QED
      BY <2>1, StepKeepsPromises
  <1> QED
    BY <1>1, <1>2, BooksAlways, PTL DEF LendingSpec

\* sfAssetsTotal is sfAssetsAvailable and what the loans of the vault owe,
\* after any deposits, withdrawals, payments on time, late or early, and
\* defaults covered or not: no LoanPay or LoanManage adds or loses an asset.
THEOREM VaultAlwaysBalanced == LendingSpec => []VaultBalanced
  <1>1. LendingInv => VaultBalanced
    BY VaultBalancedIs DEF LendingInv, Books
  <1> QED
    BY <1>1, BooksAlways, PTL

\* sfLossUnrealized is what the impaired loans owe, so that the end of every
\* impairment, by LoanManage, a payment or a default, takes it back exactly.
THEOREM LossAlwaysMatches == LendingSpec => []LossMatchesImpaired
  <1>1. LendingInv => LossMatchesImpaired
    BY LossMatchesIs DEF LendingInv, Books
  <1> QED
    BY <1>1, BooksAlways, PTL

\* sfDebtTotal and the number of loans of every broker are those of its loans:
\* LoanBrokerDelete never removes a broker that a loan refers to.
THEOREM DebtAlwaysMatches == LendingSpec => []DebtMatchesLoans
  <1>1. LendingInv => DebtMatchesLoans
    BY DebtMatchesIs DEF LendingInv, Books, BrokersMatch
  <1> QED
    BY <1>1, BooksAlways, PTL

\* The accounts of the brokers hold the collateral of all loans and the whole
\* liquidation pool, whichever of them a claim is paid by.
THEOREM CustodyAlwaysCovers == LendingSpec => []CustodyCovers
  <1>1. LendingInv => CustodyCovers
    BY CustodyIs DEF LendingInv, Books
  <1> QED
    BY <1>1, BooksAlways, PTL

\* In a vault made with tfVaultShareNonTransferable, the index of
\* creditLiquidationToLPs, the debts that deposits and withdrawals adjust and
\* the claims never promise the lenders more than is in sfLiquidationCollateral:
\* a debt that is not stored, and one that adjustLiquidationDebtForShareDelta
\* cuts off at zero, err on the side of the pool. The restriction is needed: a
\* payment of shares moves no debt, and VaultCreate allows it by default. The
\* index is exact here, as in the model; Number rounds it.
THEOREM PromisesAlwaysWithinPool == LendingSpec => []PromisesWithinPool
  <1>1. LendingInv /\ (~ transferable => PromisesKept) => PromisesWithinPool
    BY PromisesKeptIs
  <1> QED
    BY <1>1, BooksAlways, PromisesAlways, PTL

=============================================================================
