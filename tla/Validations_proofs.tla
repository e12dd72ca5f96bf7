------------------------- MODULE Validations_proofs -------------------------
(***************************************************************************)
(* Theorems about the container of validations of one server, for every    *)
(* number of validators and ledgers, every trusted list and any number of  *)
(* restarts.                                                               *)
(*                                                                         *)
(* The lemmas named ...Effect say what a method of the container leaves    *)
(* of its tables, field by field; where the method walks a set, by         *)
(* induction over the part of the set that has been walked.                *)
(***************************************************************************)
EXTENDS Validations, Sums_proofs

-----------------------------------------------------------------------------
(* Types                                                                   *)

ValidationRecord ==
    [node : Nodes, ledger : Ledgers, sign : Int, seen : Nat, trusted : BOOLEAN]
Entry == ValidationRecord \cup {None}
LedgerSet == [since : Nat, of : [Nodes -> Entry]]
Enforcer == [seq : Nat, when : Nat]

Tables ==
    [current   : [Nodes -> Entry],
     byLedger  : [Ledgers -> LedgerSet],
     enforcers : [Nodes -> Enforcer],
     acquiring : [Ledgers -> SUBSET Nodes],
     last      : [Nodes -> Ledgers \cup {NoLedger}],
     trie      : [Ledgers -> Int]]

\* A validation names a ledger, the absent one does not.
LEMMA EntryIs ==
    ASSUME NEW v \in Entry
    PROVE  /\ v # None => v \in ValidationRecord
           /\ v \in ValidationRecord <=> v.ledger \in Ledgers
           /\ v = None <=> v.ledger = NoLedger
           /\ v # None <=> v.ledger \in Ledgers
  <1>1. None.ledger = NoLedger
    BY DEF None
  <1>2. NoLedger \notin Ledgers
    BY TablesAssumption
  <1>3. v \in ValidationRecord => v.ledger \in Ledgers
    BY DEF ValidationRecord
  <1> QED
    BY <1>1, <1>2, <1>3 DEF Entry

-----------------------------------------------------------------------------
(* The support of ledgers                                                  *)

Supporters(last, l) == {n \in Nodes : last[n] = l}

\* The trie counts who supports a ledger.
TrieExact(t) ==
    \A l \in Ledgers : t.trie[l] = Cardinality(Supporters(t.last, l))

\* 1 if x is y
One(x, y) == IF x = y THEN 1 ELSE 0

\* When a node moves its support, one set of supporters shrinks and one grows.
LEMMA SupportMoves ==
    ASSUME NEW last \in [Nodes -> Ledgers \cup {NoLedger}], NEW n \in Nodes,
           NEW l \in Ledgers \cup {NoLedger}, NEW m \in Ledgers
    PROVE  /\ Cardinality(Supporters(last, m)) \in Nat
           /\ Cardinality(Supporters([last EXCEPT ![n] = l], m))
                = Cardinality(Supporters(last, m)) - One(last[n], m) + One(l, m)
  <1> DEFINE S == Supporters(last, m)
             R == Supporters([last EXCEPT ![n] = l], m)
             B == S \ {n}
  <1>1. S \subseteq Nodes /\ R \subseteq Nodes /\ B \subseteq Nodes
    BY DEF Supporters
  <1>2. IsFiniteSet(S) /\ IsFiniteSet(R) /\ IsFiniteSet(B)
    BY <1>1, TablesAssumption, FS_Subset
  <1>3. Cardinality(S) \in Nat /\ Cardinality(B) \in Nat
    BY <1>2, FS_CardinalityType
  <1>4. S = IF last[n] = m THEN B \cup {n} ELSE B
    BY DEF Supporters
  <1>5. R = IF l = m THEN B \cup {n} ELSE B
    BY DEF Supporters
  <1>6. n \notin B
    OBVIOUS
  <1> HIDE DEF S, R, B
  <1>7. Cardinality(B \cup {n}) = Cardinality(B) + 1
    BY <1>2, <1>6, FS_AddElement
  <1>8. Cardinality(S) = Cardinality(B) + One(last[n], m)
    BY <1>3, <1>4, <1>7 DEF One
  <1>9. Cardinality(R) = Cardinality(B) + One(l, m)
    BY <1>3, <1>5, <1>7 DEF One
  <1>10. One(last[n], m) \in Nat /\ One(l, m) \in Nat
    BY DEF One
  <1> QED
    BY <1>3, <1>8, <1>9, <1>10 DEF S, R

\* What reading and walking the trie leaves alone.
SameRecords(t, u) ==
    u.current = t.current /\ u.byLedger = t.byLedger /\ u.enforcers = t.enforcers

\* u is t with the support of n moved to l.
SupportMoved(t, n, l, u) ==
    /\ u \in Tables /\ SameRecords(t, u) /\ u.acquiring = t.acquiring
    /\ u.last = [t.last EXCEPT ![n] = l]
    /\ TrieExact(t) => TrieExact(u)

\* updateTrie moves the support of one node.
LEMMA UpdateTrieEffect ==
    ASSUME NEW t \in Tables, NEW n \in Nodes, NEW l \in Ledgers
    PROVE  SupportMoved(t, n, l, updateTrie(t, n, l))
  <1> DEFINE u == updateTrie(t, n, l)
             old == t.last[n]
             without == IF old = NoLedger THEN t.trie ELSE [t.trie EXCEPT ![old] = @ - 1]
             trie == [without EXCEPT ![l] = @ + 1]
             last == [t.last EXCEPT ![n] = l]
  <1>1. /\ t.last \in [Nodes -> Ledgers \cup {NoLedger}] /\ t.trie \in [Ledgers -> Int]
        /\ t.current \in [Nodes -> Entry] /\ t.byLedger \in [Ledgers -> LedgerSet]
        /\ t.enforcers \in [Nodes -> Enforcer] /\ t.acquiring \in [Ledgers -> SUBSET Nodes]
    BY DEF Tables
  <1>2. old \in Ledgers \cup {NoLedger} /\ NoLedger \notin Ledgers
    BY <1>1, TablesAssumption
  <1>3. \A m \in Ledgers : trie[m] = t.trie[m] - One(old, m) + One(l, m)
    BY <1>1, <1>2 DEF One
  <1>4. trie \in [Ledgers -> Int] /\ last \in [Nodes -> Ledgers \cup {NoLedger}]
    BY <1>1, <1>2
  <1>5. u = [t EXCEPT !.last = last, !.trie = trie]
    BY DEF updateTrie, Tables
  <1> HIDE DEF trie, last, without, u
  <1>6. /\ u.last = last /\ u.trie = trie /\ u.acquiring = t.acquiring /\ SameRecords(t, u)
        /\ u \in Tables
    BY <1>1, <1>4, <1>5 DEF Tables, SameRecords
  <1>7. ASSUME TrieExact(t) PROVE TrieExact(u)
    <2> SUFFICES ASSUME NEW m \in Ledgers
                 PROVE  u.trie[m] = Cardinality(Supporters(u.last, m))
      BY DEF TrieExact
    <2>1. Cardinality(Supporters(last, m))
            = Cardinality(Supporters(t.last, m)) - One(old, m) + One(l, m)
      BY <1>1, SupportMoves DEF last
    <2>2. t.trie[m] = Cardinality(Supporters(t.last, m))
      BY <1>7 DEF TrieExact
    <2> QED
      BY <1>3, <1>6, <2>1, <2>2
  <1> QED
    BY <1>6, <1>7 DEF last, u, SupportMoved

\* u is t without the support of n for l.
SupportRemoved(t, n, l, u) ==
    /\ u \in Tables /\ SameRecords(t, u) /\ l \in Ledgers
    /\ u.acquiring = [t.acquiring EXCEPT ![l] = @ \ {n}]
    /\ u.last = [t.last EXCEPT ![n] = IF t.last[n] = l THEN NoLedger ELSE @]
    /\ TrieExact(t) => TrieExact(u)

\* removeTrie takes the support of one node out, if it is for the ledger of its
\* current validation, and no longer waits for that ledger on its behalf.
LEMMA RemoveTrieEffect ==
    ASSUME NEW t \in Tables, NEW n \in Nodes, t.current[n] # None
    PROVE  SupportRemoved(t, n, t.current[n].ledger, removeTrie(t, n))
  <1> DEFINE u == removeTrie(t, n)
             l == t.current[n].ledger
             supports == t.last[n] = l
             acquiring == [t.acquiring EXCEPT ![l] = @ \ {n}]
             last == [t.last EXCEPT ![n] = IF supports THEN NoLedger ELSE @]
             trie == [t.trie EXCEPT ![l] = IF supports THEN @ - 1 ELSE @]
  <1>1. /\ t.last \in [Nodes -> Ledgers \cup {NoLedger}] /\ t.trie \in [Ledgers -> Int]
        /\ t.current \in [Nodes -> Entry] /\ t.byLedger \in [Ledgers -> LedgerSet]
        /\ t.enforcers \in [Nodes -> Enforcer] /\ t.acquiring \in [Ledgers -> SUBSET Nodes]
    BY DEF Tables
  <1>2. l \in Ledgers /\ NoLedger \notin Ledgers
    BY <1>1, EntryIs, TablesAssumption
  <1>3. u = [t EXCEPT !.acquiring = acquiring, !.last = last, !.trie = trie]
    BY DEF removeTrie, Tables
  <1>4. /\ acquiring \in [Ledgers -> SUBSET Nodes] /\ trie \in [Ledgers -> Int]
        /\ last \in [Nodes -> Ledgers \cup {NoLedger}]
    BY <1>1, <1>2
  <1>5. \A m \in Ledgers : trie[m] = t.trie[m] - (IF supports THEN One(l, m) ELSE 0)
    BY <1>1, <1>2 DEF One
  <1> HIDE DEF acquiring, trie, last, l, u
  <1>6. /\ u.last = last /\ u.trie = trie /\ u.acquiring = acquiring /\ SameRecords(t, u)
        /\ u \in Tables
    BY <1>1, <1>3, <1>4 DEF Tables, SameRecords
  <1>7. ASSUME TrieExact(t) PROVE TrieExact(u)
    <2> SUFFICES ASSUME NEW m \in Ledgers
                 PROVE  u.trie[m] = Cardinality(Supporters(u.last, m))
      BY DEF TrieExact
    <2>1. t.trie[m] = Cardinality(Supporters(t.last, m))
      BY <1>7 DEF TrieExact
    <2>2. CASE supports
      <3>1. last = [t.last EXCEPT ![n] = NoLedger]
        BY <2>2 DEF last
      <3>2. Cardinality(Supporters(last, m))
              = Cardinality(Supporters(t.last, m)) - One(t.last[n], m) + One(NoLedger, m)
        <4>1. NoLedger \in Ledgers \cup {NoLedger}
          OBVIOUS
        <4> QED
          BY <1>1, <3>1, <4>1, SupportMoves
      <3>3. One(NoLedger, m) = 0 /\ One(t.last[n], m) = (IF supports THEN One(l, m) ELSE 0)
        BY <1>2, <2>2 DEF One
      <3>4. (IF supports THEN One(l, m) ELSE 0) \in Int /\ t.trie[m] \in Int
        BY <1>1 DEF One
      <3> QED
        BY <1>5, <1>6, <2>1, <3>2, <3>3, <3>4
    <2>3. CASE ~supports
      <3>1. last = t.last
        BY <1>1, <2>3 DEF last
      <3>2. trie[m] = t.trie[m]
        BY <1>1, <1>5, <2>3 DEF One
      <3> QED
        BY <1>6, <2>1, <3>1, <3>2
    <2> QED
      BY <2>2, <2>3
  <1> QED
    BY <1>2, <1>6, <1>7 DEF acquiring, last, l, u, SupportRemoved

-----------------------------------------------------------------------------
(* Fetched ledgers                                                         *)

\* The nodes that wait for one of the ledgers of have.
Waiting(t, h) == {n \in Nodes : \E l \in h : n \in t.acquiring[l]}

\* The tables u after W have moved their support to the ledgers f names.
Moved(t, f, W, u) ==
    /\ u \in Tables /\ SameRecords(t, u) /\ u.acquiring = t.acquiring
    /\ \A n \in Nodes : u.last[n] = IF n \in W THEN f[n] ELSE t.last[n]
    /\ TrieExact(t) => TrieExact(u)

\* The fold of updateTrie over W moves the support of all of W.
LEMMA FoldUpdates ==
    ASSUME NEW t \in Tables, NEW W \in SUBSET Nodes, NEW f \in [W -> Ledgers]
    PROVE  Moved(t, f, W, FoldSet(LAMBDA n, x : updateTrie(x, n, f[n]), t, W))
  <1> DEFINE Table(g) ==
        g = [s \in SUBSET W |->
               IF s = {} THEN t
               ELSE updateTrie(g[s \ {Pick(s)}], Pick(s), f[Pick(s)])]
  <1>1. FoldSet(LAMBDA n, x : updateTrie(x, n, f[n]), t, W) = (CHOOSE g : Table(g))[W]
    BY DEF FoldSet, MapThenFoldSet, Pick
  <1>2. IsFiniteSet(W)
    BY TablesAssumption, FS_Subset
  <1>3. \E g : Table(g)
    <2> DEFINE op == [p \in W \X Tables |-> updateTrie(p[2], p[1], f[p[1]])]
    <2>1. op \in [W \X Tables -> Tables]
      <3>1. ASSUME NEW p \in W \X Tables
            PROVE  updateTrie(p[2], p[1], f[p[1]]) \in Tables
        BY UpdateTrieEffect DEF SupportMoved
      <3> QED
        BY <3>1
    <2>2. \A n \in W, x \in Tables : op[<<n, x>>] = updateTrie(x, n, f[n])
      OBVIOUS
    <2> HIDE DEF op
    <2>3. PICK g \in [SUBSET W -> Tables] : Folded(op, t, W, g)
      BY <1>2, <2>1, FoldExists
    <2>4. ASSUME NEW s \in SUBSET W, s # {}
          PROVE  op[<<Pick(s), g[s \ {Pick(s)}]>>]
                   = updateTrie(g[s \ {Pick(s)}], Pick(s), f[Pick(s)])
      <3>1. Pick(s) \in W /\ s \ {Pick(s)} \in SUBSET W
        BY <2>4, PickIn
      <3> QED
        BY <2>2, <3>1
    <2>5. Table(g)
      BY <2>3, <2>4 DEF Folded
    <2> QED
      BY <2>5
  <1> DEFINE g == CHOOSE x : Table(x)
  <1>4. Table(g)
    BY <1>3
  <1> HIDE DEF g
  <1>5. g[{}] = t
    BY <1>4
  <1>6. ASSUME NEW s \in SUBSET W, s # {}
        PROVE  g[s] = updateTrie(g[s \ {Pick(s)}], Pick(s), f[Pick(s)])
    BY <1>4, <1>6
  <1> HIDE DEF Table
  <1> DEFINE P == {s \in SUBSET W : Moved(t, f, s, g[s])}
  <1>7. {} \in P
    BY <1>5 DEF Moved, SameRecords
  <1>8. ASSUME NEW s \in SUBSET W, s # {}, s \ {Pick(s)} \in P
        PROVE  s \in P
    <2> DEFINE n == Pick(s)
               r == s \ {n}
    <2>1. n \in s /\ n \in Nodes /\ f[n] \in Ledgers
      BY <1>8, PickIn
    <2>2. Moved(t, f, r, g[r]) /\ g[s] = updateTrie(g[r], n, f[n])
      BY <1>6, <1>8
    <2> HIDE DEF n
    <2>3. g[r] \in Tables
      BY <2>2 DEF Moved
    <2> DEFINE a == g[r]
               b == g[s]
    <2>a. a \in Tables /\ b = updateTrie(a, n, f[n])
      BY <2>2, <2>3
    <2> HIDE DEF a, b
    <2>4. SupportMoved(a, n, f[n], b)
      BY <2>1, <2>a, UpdateTrieEffect
    <2>5. Moved(t, f, r, a)
      BY <2>2 DEF a
    <2>6. a.last \in [Nodes -> Ledgers \cup {NoLedger}]
      BY <2>3 DEF a, Tables
    <2>7. Moved(t, f, s, b)
      BY <2>1, <2>4, <2>5, <2>6 DEF Moved, SupportMoved, SameRecords
    <2> QED
      BY <2>7 DEF b
  <1> HIDE DEF P
  <1>9. \A s \in SUBSET W : s \in P
    BY <1>2, <1>7, <1>8, FiniteInduction
  <1>10. Moved(t, f, W, g[W])
    BY <1>9 DEF P
  <1> QED
    BY <1>1, <1>10 DEF g

\* The tables u after the support for the fetched ledgers h came into the trie.
Acquired(t, h, u) ==
    /\ u \in Tables /\ SameRecords(t, u)
    /\ u.acquiring = [l \in Ledgers |-> IF l \in h THEN {} ELSE t.acquiring[l]]
    /\ \A n \in Nodes : \/ n \notin Waiting(t, h) /\ u.last[n] = t.last[n]
                        \/ u.last[n] \in h /\ n \in t.acquiring[u.last[n]]
    /\ TrieExact(t) => TrieExact(u)

\* Whatever order the ledgers are visited in, a node ends with one it waited for.
LEMMA CheckAcquiredEffect ==
    ASSUME NEW t \in Tables, NEW h \in SUBSET Ledgers, NEW u \in checkAcquired(t, h)
    PROVE  Acquired(t, h, u)
  <1> DEFINE W == Waiting(t, h)
             visited == {f \in [W -> h] : \A n \in W : n \in t.acquiring[f[n]]}
             acquiring == [l \in Ledgers |-> IF l \in h THEN {} ELSE t.acquiring[l]]
             cleared == [t EXCEPT !.acquiring = acquiring]
             Fold(f) == FoldSet(LAMBDA n, x : updateTrie(x, n, f[n]), cleared, W)
  <1>1. u \in {Fold(f) : f \in visited}
    BY DEF checkAcquired, Waiting
  <1>2. W \in SUBSET Nodes
    BY DEF Waiting
  <1>3. acquiring \in [Ledgers -> SUBSET Nodes]
    BY DEF Tables
  <1> HIDE DEF acquiring, W
  <1>4. /\ cleared \in Tables /\ SameRecords(t, cleared) /\ cleared.acquiring = acquiring
        /\ cleared.last = t.last /\ cleared.trie = t.trie
    BY <1>3 DEF Tables, SameRecords
  <1> HIDE DEF cleared
  <1>5. PICK f \in visited : u = Fold(f)
    BY <1>1, Zenon
  <1>6. f \in [W -> h] /\ f \in [W -> Ledgers] /\ \A n \in W : n \in t.acquiring[f[n]]
    OBVIOUS
  <1> HIDE DEF visited
  <1>7. Moved(cleared, f, W, u)
    BY <1>2, <1>4, <1>5, <1>6, FoldUpdates, Zenon
  <1>8. TrieExact(t) => TrieExact(cleared)
    BY <1>4 DEF TrieExact
  <1> QED
    BY <1>4, <1>6, <1>7, <1>8 DEF Moved, Acquired, SameRecords, W, acquiring

-----------------------------------------------------------------------------
(* Stale validations                                                       *)

Awaited(t, n) == {l \in Ledgers : n \in t.acquiring[l]}

\* The tables u after the current validations of S were dropped.
Flushed(t, S, u) ==
    /\ u \in Tables /\ u.byLedger = t.byLedger /\ u.enforcers = t.enforcers
    /\ \A n \in Nodes :
         IF n \in S
         THEN u.current[n] = None /\ Awaited(u, n) = Awaited(t, n) \ {t.current[n].ledger}
         ELSE /\ u.current[n] = t.current[n] /\ Awaited(u, n) = Awaited(t, n)
              /\ u.last[n] = t.last[n]
    /\ TrieExact(t) => TrieExact(u)

dropped(t, n) == [removeTrie(t, n) EXCEPT !.current[n] = None]

\* Dropping a validation leaves tables, also where there was none.
LEMMA DropTyped ==
    ASSUME NEW t \in Tables, NEW n \in Nodes
    PROVE  dropped(t, n) \in Tables
  <1>1. /\ t.last \in [Nodes -> Ledgers \cup {NoLedger}] /\ t.trie \in [Ledgers -> Int]
        /\ t.current \in [Nodes -> Entry] /\ t.byLedger \in [Ledgers -> LedgerSet]
        /\ t.enforcers \in [Nodes -> Enforcer] /\ t.acquiring \in [Ledgers -> SUBSET Nodes]
    BY DEF Tables
  <1> DEFINE l == t.current[n].ledger
             supports == t.last[n] = l
             acquiring == [t.acquiring EXCEPT ![l] = @ \ {n}]
             last == [t.last EXCEPT ![n] = IF supports THEN NoLedger ELSE @]
             trie == [t.trie EXCEPT ![l] = IF supports THEN @ - 1 ELSE @]
             current == [t.current EXCEPT ![n] = None]
  <1>2. acquiring \in [Ledgers -> SUBSET Nodes]
    BY <1>1
  <1>3. trie \in [Ledgers -> Int] /\ last \in [Nodes -> Ledgers \cup {NoLedger}]
    <2>1. last \in [Nodes -> Ledgers \cup {NoLedger}]
      BY <1>1
    <2> HIDE DEF l, supports
    <2>2. CASE supports
      <3>1. trie = [t.trie EXCEPT ![l] = @ - 1]
        BY <2>2
      <3>2. \A m \in Ledgers : t.trie[m] \in Int /\ t.trie[m] - 1 \in Int
        BY <1>1
      <3>3. trie \in [Ledgers -> Int]
        BY <1>1, <3>1, <3>2
      <3> QED
        BY <2>1, <3>3
    <2>3. CASE ~supports
      <3>1. trie = t.trie
        BY <1>1, <2>3
      <3> QED
        BY <1>1, <2>1, <3>1
    <2> QED
      BY <2>2, <2>3
  <1>4. current \in [Nodes -> Entry]
    BY <1>1 DEF Entry
  <1>5. dropped(t, n) = [t EXCEPT !.acquiring = acquiring, !.last = last, !.trie = trie,
                                  !.current = current]
    BY DEF dropped, removeTrie, Tables
  <1> HIDE DEF acquiring, last, trie, current
  <1> QED
    BY <1>1, <1>2, <1>3, <1>4, <1>5 DEF Tables

\* Dropping one validation.
LEMMA DropEffect ==
    ASSUME NEW t \in Tables, NEW n \in Nodes, t.current[n] # None
    PROVE  Flushed(t, {n}, dropped(t, n))
  <1> DEFINE r == removeTrie(t, n)
             u == dropped(t, n)
             l == t.current[n].ledger
  <1>1. SupportRemoved(t, n, l, r)
    BY RemoveTrieEffect
  <1>2. u = [r EXCEPT !.current[n] = None] /\ u \in Tables
    BY DropTyped DEF dropped
  <1> HIDE DEF r, u
  <1>3. r \in Tables
    BY <1>1 DEF SupportRemoved
  <1>4. /\ u.byLedger = r.byLedger /\ u.enforcers = r.enforcers /\ u.acquiring = r.acquiring
        /\ u.last = r.last /\ u.trie = r.trie
        /\ u.current = [r.current EXCEPT ![n] = None]
    BY <1>2, <1>3 DEF Tables
  <1>5. TrieExact(t) => TrieExact(u)
    BY <1>1, <1>4 DEF SupportRemoved, TrieExact
  <1>6. /\ t.last \in [Nodes -> Ledgers \cup {NoLedger}]
        /\ t.current \in [Nodes -> Entry] /\ t.acquiring \in [Ledgers -> SUBSET Nodes]
    BY DEF Tables
  <1>7. /\ u.acquiring = [t.acquiring EXCEPT ![l] = @ \ {n}] /\ l \in Ledgers
        /\ u.last = [t.last EXCEPT ![n] = IF t.last[n] = l THEN NoLedger ELSE @]
        /\ u.byLedger = t.byLedger /\ u.enforcers = t.enforcers
        /\ u.current = [t.current EXCEPT ![n] = None]
    BY <1>1, <1>4 DEF SupportRemoved, SameRecords
  <1> HIDE DEF l
  <1>8. \A m \in Nodes :
          Awaited(u, m) = IF m = n THEN Awaited(t, m) \ {l} ELSE Awaited(t, m)
    BY <1>6, <1>7 DEF Awaited
  <1> QED
    BY <1>2, <1>5, <1>6, <1>7, <1>8 DEF Flushed, u, l

\* The fold that drops the validations of S drops each of them.
LEMMA FoldDrops ==
    ASSUME NEW t \in Tables, NEW S \in SUBSET Nodes, \A n \in S : t.current[n] # None
    PROVE  Flushed(t, S, FoldSet(LAMBDA n, x : [removeTrie(x, n) EXCEPT !.current[n] = None],
                                 t, S))
  <1> DEFINE Table(g) ==
        g = [s \in SUBSET S |->
               IF s = {} THEN t ELSE dropped(g[s \ {Pick(s)}], Pick(s))]
  <1>1. FoldSet(LAMBDA n, x : [removeTrie(x, n) EXCEPT !.current[n] = None], t, S)
          = (CHOOSE g : Table(g))[S]
    BY DEF FoldSet, MapThenFoldSet, Pick, dropped
  <1>2. IsFiniteSet(S)
    BY TablesAssumption, FS_Subset
  <1>3. \E g : Table(g)
    <2> DEFINE op == [p \in S \X Tables |-> dropped(p[2], p[1])]
    <2>1. op \in [S \X Tables -> Tables]
      <3>1. ASSUME NEW p \in S \X Tables
            PROVE  dropped(p[2], p[1]) \in Tables
        BY DropTyped
      <3> QED
        BY <3>1
    <2>2. \A n \in S, x \in Tables : op[<<n, x>>] = dropped(x, n)
      OBVIOUS
    <2> HIDE DEF op
    <2>3. PICK g \in [SUBSET S -> Tables] : Folded(op, t, S, g)
      BY <1>2, <2>1, FoldExists
    <2>4. ASSUME NEW s \in SUBSET S, s # {}
          PROVE  op[<<Pick(s), g[s \ {Pick(s)}]>>] = dropped(g[s \ {Pick(s)}], Pick(s))
      <3>1. Pick(s) \in S /\ s \ {Pick(s)} \in SUBSET S
        BY <2>4, PickIn
      <3> QED
        BY <2>2, <3>1
    <2>5. Table(g)
      BY <2>3, <2>4 DEF Folded
    <2> QED
      BY <2>5
  <1> DEFINE g == CHOOSE x : Table(x)
  <1>4. Table(g)
    BY <1>3
  <1> HIDE DEF g
  <1>5. g[{}] = t
    BY <1>4
  <1>6. ASSUME NEW s \in SUBSET S, s # {}
        PROVE  g[s] = dropped(g[s \ {Pick(s)}], Pick(s))
    BY <1>4, <1>6
  <1> HIDE DEF Table
  <1> DEFINE P == {s \in SUBSET S : Flushed(t, s, g[s])}
  <1>7. {} \in P
    BY <1>5 DEF Flushed
  <1>8. ASSUME NEW s \in SUBSET S, s # {}, s \ {Pick(s)} \in P
        PROVE  s \in P
    <2> DEFINE n == Pick(s)
               r == s \ {n}
    <2>1. n \in s /\ n \in Nodes /\ n \notin r /\ t.current[n] # None
      BY <1>8, PickIn
    <2>2. Flushed(t, r, g[r]) /\ g[s] = dropped(g[r], n)
      BY <1>6, <1>8
    <2> HIDE DEF n
    <2> DEFINE a == g[r]
               b == g[s]
    <2>3. a \in Tables /\ a.current[n] = t.current[n] /\ b = dropped(a, n)
      BY <2>1, <2>2 DEF Flushed
    <2>4. Flushed(t, r, a)
      BY <2>2
    <2> HIDE DEF a, b
    <2>5. Flushed(a, {n}, b)
      BY <2>1, <2>3, DropEffect
    <2>6. Flushed(t, s, b)
      BY <2>1, <2>3, <2>4, <2>5 DEF Flushed
    <2> QED
      BY <2>6 DEF b
  <1> HIDE DEF P
  <1>9. \A s \in SUBSET S : s \in P
    BY <1>2, <1>7, <1>8, FiniteInduction
  <1>10. Flushed(t, S, g[S])
    BY <1>9 DEF P
  <1> QED
    BY <1>1, <1>10 DEF g

Stale(t, time) == {n \in Nodes : t.current[n] # None /\ ~isCurrent(t.current[n], time)}

\* flushStale drops the stale validations and nothing else.
LEMMA FlushStaleEffect ==
    ASSUME NEW t \in Tables, NEW time
    PROVE  Flushed(t, Stale(t, time), flushStale(t, time))
  <1> DEFINE S == Stale(t, time)
  <1>1. S \in SUBSET Nodes /\ \A n \in S : t.current[n] # None
    BY DEF Stale
  <1>2. flushStale(t, time)
          = FoldSet(LAMBDA n, x : [removeTrie(x, n) EXCEPT !.current[n] = None], t, S)
    BY DEF flushStale, Stale
  <1> HIDE DEF S
  <1>3. Flushed(t, S, FoldSet(LAMBDA n, x : [removeTrie(x, n) EXCEPT !.current[n] = None],
                              t, S))
    BY <1>1, FoldDrops, Zenon
  <1> QED
    BY <1>2, <1>3, Zenon DEF S

-----------------------------------------------------------------------------
(* Votes                                                                   *)

\* The vote of n is in the trie or waits for its ledger, and for no other.
Tracked(t, n) ==
    LET v == t.current[n]
    IN  IF v # None /\ v.trusted
        THEN Awaited(t, n) = {v.ledger} \/ (Awaited(t, n) = {} /\ t.last[n] = v.ledger)
        ELSE Awaited(t, n) = {}

\* u has the records of t, and every vote that was tracked is.
VotesKept(t, u) ==
    /\ u \in Tables /\ SameRecords(t, u)
    /\ \A n \in Nodes : Tracked(t, n) => Tracked(u, n)
    /\ TrieExact(t) => TrieExact(u)

\* Fetched ledgers lose no vote.
LEMMA AcquiredKeepsVotes ==
    ASSUME NEW t \in Tables, NEW h \in SUBSET Ledgers, NEW u \in checkAcquired(t, h)
    PROVE  VotesKept(t, u)
  <1>1. Acquired(t, h, u)
    BY CheckAcquiredEffect
  <1>2. ASSUME NEW n \in Nodes, Tracked(t, n)
        PROVE  Tracked(u, n)
    <2>1. u.current[n] = t.current[n]
      BY <1>1 DEF Acquired, SameRecords
    <2>2. Awaited(u, n) = Awaited(t, n) \ h
      BY <1>1 DEF Acquired, Awaited
    <2>3. CASE Awaited(t, n) = {}
      <3>1. n \notin Waiting(t, h) /\ \A l \in h : n \notin t.acquiring[l]
        BY <2>3 DEF Waiting, Awaited
      <3>2. u.last[n] = t.last[n]
        BY <1>1, <3>1 DEF Acquired
      <3> QED
        BY <1>2, <2>1, <2>2, <2>3, <3>2 DEF Tracked
    <2>4. CASE Awaited(t, n) # {}
      <3> DEFINE l == t.current[n].ledger
      <3>1. Awaited(t, n) = {l} /\ t.current[n] # None /\ t.current[n].trusted
        BY <1>2, <2>4 DEF Tracked
      <3> HIDE DEF l
      <3>2. CASE l \in h
        <4>1. n \in Waiting(t, h)
          BY <3>1, <3>2 DEF Waiting, Awaited
        <4>2. u.last[n] \in h /\ n \in t.acquiring[u.last[n]]
          BY <1>1, <4>1 DEF Acquired
        <4>3. u.last[n] = l
          BY <3>1, <4>2 DEF Awaited
        <4>4. Awaited(u, n) = {}
          BY <2>2, <3>1, <3>2
        <4> QED
          BY <2>1, <4>3, <4>4, <3>1 DEF Tracked, l
      <3>3. CASE l \notin h
        BY <2>1, <2>2, <3>1, <3>3 DEF Tracked, l
      <3> QED
        BY <3>2, <3>3
    <2> QED
      BY <2>3, <2>4
  <1> QED
    BY <1>1, <1>2 DEF Acquired, VotesKept

\* The fields of tables have their types.
LEMMA TablesFields ==
    ASSUME NEW t \in Tables
    PROVE  /\ t.current \in [Nodes -> Entry] /\ t.byLedger \in [Ledgers -> LedgerSet]
           /\ t.enforcers \in [Nodes -> Enforcer]
           /\ t.acquiring \in [Ledgers -> SUBSET Nodes]
           /\ t.last \in [Nodes -> Ledgers \cup {NoLedger}]
           /\ t.trie \in [Ledgers -> Int]
  BY DEF Tables

\* Writing the table of awaited ledgers touches nothing else.
LEMMA AcquiringWritten ==
    ASSUME NEW t \in Tables, NEW A \in [Ledgers -> SUBSET Nodes],
           NEW u, u = [t EXCEPT !.acquiring = A]
    PROVE  /\ u \in Tables /\ SameRecords(t, u) /\ u.acquiring = A
           /\ u.last = t.last /\ u.trie = t.trie /\ (TrieExact(t) => TrieExact(u))
  <1>1. /\ u \in Tables /\ SameRecords(t, u) /\ u.acquiring = A
        /\ u.last = t.last /\ u.trie = t.trie
    BY DEF Tables, SameRecords
  <1> QED
    BY <1>1 DEF TrieExact

\* The vote of the validation v is tracked, those of other nodes stay tracked.
Voted(t, v, prior, u) ==
    /\ u \in Tables /\ SameRecords(t, u)
    /\ \A n \in Nodes : n # v.node /\ Tracked(t, n) => Tracked(u, n)
    /\ t.current[v.node] = v /\ v.trusted /\ Awaited(t, v.node) \subseteq {prior}
         => Tracked(u, v.node)
    /\ TrieExact(t) => TrieExact(u)

\* voteTrie gives up the ledger waited for before and no other vote.
LEMMA VoteTrieEffect ==
    ASSUME NEW t \in Tables, NEW h \in SUBSET Ledgers, NEW v \in ValidationRecord,
           NEW prior \in Ledgers \cup {NoLedger}, NEW u \in voteTrie(t, h, v, prior)
    PROVE  Voted(t, v, prior, u)
  <1> DEFINE n == v.node
             l == v.ledger
             r == IF prior = NoLedger THEN t ELSE [t EXCEPT !.acquiring[prior] = @ \ {n}]
  <1>1. n \in Nodes /\ l \in Ledgers /\ NoLedger \notin Ledgers
    BY TablesAssumption DEF ValidationRecord
  <1>2. PICK w \in checkAcquired(r, h) :
          u = IF l \in h THEN updateTrie(w, n, l)
              ELSE [w EXCEPT !.acquiring[l] = @ \cup {n}]
    BY DEF voteTrie
  <1>3. /\ r \in Tables /\ SameRecords(t, r) /\ r.last = t.last
        /\ \A m \in Nodes : Awaited(r, m) = IF m = n THEN Awaited(t, m) \ {prior}
                                            ELSE Awaited(t, m)
        /\ TrieExact(t) => TrieExact(r)
    <2>1. CASE prior = NoLedger
      BY <1>1, <2>1 DEF SameRecords, Awaited
    <2>2. CASE prior # NoLedger
      <3> DEFINE A == [t.acquiring EXCEPT ![prior] = @ \ {n}]
      <3>1. A \in [Ledgers -> SUBSET Nodes] /\ r = [t EXCEPT !.acquiring = A]
        BY <2>2, TablesFields DEF Tables
      <3>2. \A m \in Nodes, k \in Ledgers :
              m \in A[k] <=> m \in t.acquiring[k] /\ ~(m = n /\ k = prior)
        BY <2>2, TablesFields
      <3> HIDE DEF A, r
      <3>3. /\ r \in Tables /\ SameRecords(t, r) /\ r.acquiring = A
            /\ r.last = t.last /\ (TrieExact(t) => TrieExact(r))
        BY <3>1, AcquiringWritten
      <3> QED
        BY <3>2, <3>3 DEF Awaited
    <2> QED
      BY <2>1, <2>2
  <1> HIDE DEF n, l, r
  <1>4. Acquired(r, h, w) /\ VotesKept(r, w)
    BY <1>3, CheckAcquiredEffect, AcquiredKeepsVotes
  <1>5. /\ w \in Tables /\ SameRecords(t, w) /\ (TrieExact(t) => TrieExact(w))
    BY <1>3, <1>4 DEF VotesKept, SameRecords
  <1>6. ASSUME NEW m \in Nodes, m # n, Tracked(t, m)
        PROVE  Tracked(w, m)
    <2>1. Tracked(r, m)
      BY <1>3, <1>6 DEF Tracked, SameRecords
    <2> QED
      BY <1>4, <2>1 DEF VotesKept
  <1>7. Awaited(t, n) \subseteq {prior} => Awaited(w, n) = {}
    BY <1>1, <1>3, <1>4 DEF Acquired, Awaited
  <1>8. CASE l \in h
    <2>1. SupportMoved(w, n, l, u)
      BY <1>1, <1>2, <1>5, <1>8, UpdateTrieEffect
    <2>2. /\ u \in Tables /\ SameRecords(t, u) /\ (TrieExact(t) => TrieExact(u))
          /\ u.acquiring = w.acquiring /\ u.last = [w.last EXCEPT ![n] = l]
      BY <1>5, <2>1 DEF SupportMoved, SameRecords
    <2>3. \A m \in Nodes : m # n => u.last[m] = w.last[m]
      BY <1>5, <2>2, TablesFields
    <2>4. u.last[n] = l
      BY <1>1, <1>5, <2>2, TablesFields
    <2>5. \A m \in Nodes : m # n /\ Tracked(w, m) => Tracked(u, m)
      BY <1>5, <2>2, <2>3 DEF Tracked, Awaited, SameRecords
    <2>6. t.current[n] = v /\ v.trusted /\ Awaited(t, n) \subseteq {prior} => Tracked(u, n)
      BY <1>7, <2>2, <2>4 DEF Tracked, Awaited, SameRecords, l
    <2> QED
      BY <1>6, <2>2, <2>5, <2>6 DEF Voted, n
  <1>9. CASE l \notin h
    <2> DEFINE A == [w.acquiring EXCEPT ![l] = @ \cup {n}]
    <2>1. A \in [Ledgers -> SUBSET Nodes] /\ u = [w EXCEPT !.acquiring = A]
      BY <1>1, <1>2, <1>5, <1>9, TablesFields DEF Tables
    <2>2. \A m \in Nodes, k \in Ledgers :
            m \in A[k] <=> m \in w.acquiring[k] \/ (m = n /\ k = l)
      BY <1>1, <1>5, TablesFields
    <2> HIDE DEF A
    <2>3. /\ u \in Tables /\ SameRecords(w, u) /\ u.acquiring = A
          /\ u.last = w.last /\ (TrieExact(w) => TrieExact(u))
      BY <1>5, <2>1, AcquiringWritten
    <2>4. \A m \in Nodes : m # n => Awaited(u, m) = Awaited(w, m)
      BY <2>2, <2>3 DEF Awaited
    <2>5. Awaited(u, n) = Awaited(w, n) \cup {l}
      BY <1>1, <2>2, <2>3 DEF Awaited
    <2>6. \A m \in Nodes : m # n /\ Tracked(w, m) => Tracked(u, m)
      BY <2>3, <2>4 DEF Tracked, SameRecords
    <2>7. t.current[n] = v /\ v.trusted /\ Awaited(t, n) \subseteq {prior} => Tracked(u, n)
      <3> SUFFICES ASSUME t.current[n] = v, v.trusted, Awaited(t, n) \subseteq {prior}
                   PROVE  Tracked(u, n)
        OBVIOUS
      <3>1. Awaited(u, n) = {l} /\ u.current[n] = v
        BY <1>5, <1>7, <2>3, <2>5 DEF SameRecords
      <3>2. v # None
        BY <1>1, EntryIs DEF l, Entry
      <3> QED
        BY <3>1, <3>2 DEF Tracked, l
    <2> QED
      BY <1>5, <1>6, <2>3, <2>6, <2>7 DEF Voted, n, SameRecords
  <1> QED
    BY <1>8, <1>9

-----------------------------------------------------------------------------
(* A new validation                                                        *)

\* u is t with v, accepted at time, in the set for its ledger.
Accepted(t, v, time, u) ==
    /\ u.enforcers = [t.enforcers EXCEPT ![v.node] = [seq |-> SeqOf[v.ledger], when |-> time]]
    /\ u.byLedger = [t.byLedger EXCEPT ![v.ledger] = Store(@, v, time)]

\* accept writes the enforcer and the set, both of their types.
LEMMA AcceptEffect ==
    ASSUME NEW t \in Tables, NEW v \in ValidationRecord, NEW time \in Nat
    PROVE  LET u == accept(t, v, time)
           IN  /\ u \in Tables /\ Accepted(t, v, time, u)
               /\ u.current = t.current /\ u.acquiring = t.acquiring
               /\ u.last = t.last /\ u.trie = t.trie
  <1> DEFINE n == v.node
             l == v.ledger
             E == [t.enforcers EXCEPT ![n] = [seq |-> SeqOf[l], when |-> time]]
             B == [t.byLedger EXCEPT ![l] = Store(@, v, time)]
  <1>1. n \in Nodes /\ l \in Ledgers
    BY DEF ValidationRecord
  <1>2. SeqOf[l] \in Nat
    BY <1>1, TablesAssumption
  <1>3. E \in [Nodes -> Enforcer]
    BY <1>1, <1>2, TablesFields DEF Enforcer
  <1>4. Store(t.byLedger[l], v, time) \in LedgerSet
    <2> DEFINE set == t.byLedger[l]
    <2>1. set \in LedgerSet
      BY <1>1, TablesFields
    <2> HIDE DEF set
    <2>2. set.since \in Nat /\ set.of \in [Nodes -> Entry]
      BY <2>1 DEF LedgerSet
    <2>3. [set.of EXCEPT ![v.node] = v] \in [Nodes -> Entry]
      BY <1>1, <2>2 DEF Entry
    <2>4. (IF set = EmptySet THEN time ELSE set.since) \in Nat
      BY <2>2
    <2>5. Store(set, v, time) \in LedgerSet
      BY <2>3, <2>4 DEF Store, LedgerSet
    <2> QED
      BY <2>5 DEF set
  <1>5. B \in [Ledgers -> LedgerSet]
    BY <1>1, <1>4, TablesFields
  <1>6. accept(t, v, time) = [t EXCEPT !.enforcers = E, !.byLedger = B]
    BY DEF accept, Tables
  <1> HIDE DEF E, B
  <1>7. LET u == accept(t, v, time)
        IN  /\ u \in Tables /\ u.enforcers = E /\ u.byLedger = B
            /\ u.current = t.current /\ u.acquiring = t.acquiring
            /\ u.last = t.last /\ u.trie = t.trie
    BY <1>3, <1>5, <1>6 DEF Tables
  <1> QED
    BY <1>7 DEF Accepted, E, B

\* Trust in the node of v is what it was when its current validation came.
SteadyTrust(t, v) ==
    t.current[v.node] # None => (t.current[v.node].trusted <=> v.trusted)

\* u is t after v was added.
Added(t, v, time, u) ==
    /\ u \in Tables /\ Accepted(t, v, time, u)
    /\ \A n \in Nodes : n # v.node =>
         u.current[n] = t.current[n] /\ (Tracked(t, n) => Tracked(u, n))
    /\ u.current[v.node] \in {t.current[v.node], v}
    /\ Tracked(t, v.node) /\ SteadyTrust(t, v) => Tracked(u, v.node)
    /\ TrieExact(t) => TrieExact(u)

\* add() loses no vote, and counts the one it adds.
LEMMA AddEffect ==
    ASSUME NEW t \in Tables, NEW h \in SUBSET Ledgers, NEW v \in ValidationRecord,
           NEW time \in Nat, accepts(t, v, time), NEW u \in add(t, v, time, h)
    PROVE  Added(t, v, time, u)
  <1> DEFINE n == v.node
             old == t.current[n]
             taken == accept(t, v, time)
             newest == [taken EXCEPT !.current[n] = v]
  <1>1. n \in Nodes /\ v.ledger \in Ledgers /\ v # None /\ v.trusted \in BOOLEAN
    <2>1. n \in Nodes /\ v.ledger \in Ledgers /\ v.trusted \in BOOLEAN
      BY DEF ValidationRecord
    <2> QED
      BY <2>1, EntryIs DEF Entry
  <1>2. /\ taken \in Tables /\ Accepted(t, v, time, taken)
        /\ taken.current = t.current /\ taken.acquiring = t.acquiring
        /\ taken.last = t.last /\ taken.trie = t.trie
    BY AcceptEffect
  <1>3. old \in Entry
    BY <1>1, TablesFields
  <1>4. \/ u = taken
        \/ ~v.trusted /\ u = newest
        \/ v.trusted /\ u \in voteTrie(newest, h, v, old.ledger)
    BY DEF add
  <1> HIDE DEF taken
  <1>5. TrieExact(t) => TrieExact(taken)
    BY <1>2 DEF TrieExact
  <1>6. \A m \in Nodes : Tracked(t, m) <=> Tracked(taken, m)
    BY <1>2 DEF Tracked, Awaited
  <1>7. CASE u = taken
    BY <1>1, <1>2, <1>5, <1>6, <1>7 DEF Added
  <1>8. /\ newest \in Tables /\ newest.current = [t.current EXCEPT ![n] = v]
        /\ newest.enforcers = taken.enforcers /\ newest.byLedger = taken.byLedger
        /\ newest.acquiring = t.acquiring /\ newest.last = t.last /\ newest.trie = t.trie
    <2>1. [t.current EXCEPT ![n] = v] \in [Nodes -> Entry]
      BY <1>1, TablesFields DEF Entry
    <2> DEFINE C == [t.current EXCEPT ![n] = v]
    <2>2. newest = [taken EXCEPT !.current = C]
      BY <1>2 DEF Tables
    <2> HIDE DEF C
    <2>3. C \in [Nodes -> Entry]
      BY <2>1 DEF C
    <2>4. /\ newest \in Tables /\ newest.current = C
          /\ newest.enforcers = taken.enforcers /\ newest.byLedger = taken.byLedger
          /\ newest.acquiring = taken.acquiring /\ newest.last = taken.last
          /\ newest.trie = taken.trie
      BY <1>2, <2>2, <2>3 DEF Tables
    <2> QED
      BY <1>2, <2>4 DEF C
  <1> HIDE DEF newest
  <1>9. /\ TrieExact(t) => TrieExact(newest)
        /\ newest.current[n] = v /\ Accepted(t, v, time, newest)
        /\ \A m \in Nodes : Awaited(newest, m) = Awaited(t, m)
        /\ \A m \in Nodes : m # n => /\ newest.current[m] = t.current[m]
                                     /\ Tracked(t, m) <=> Tracked(newest, m)
    <2>1. TrieExact(t) => TrieExact(newest)
      BY <1>8 DEF TrieExact
    <2>2. newest.current[n] = v /\ \A m \in Nodes : m # n => newest.current[m] = t.current[m]
      BY <1>1, <1>8, TablesFields
    <2>3. \A m \in Nodes : Awaited(newest, m) = Awaited(t, m)
      BY <1>8 DEF Awaited
    <2>4. \A m \in Nodes : m # n => (Tracked(t, m) <=> Tracked(newest, m))
      BY <1>8, <2>2, <2>3 DEF Tracked
    <2>5. Accepted(t, v, time, newest)
      BY <1>2, <1>8 DEF Accepted
    <2> QED
      BY <2>1, <2>2, <2>3, <2>4, <2>5
  <1>10. CASE ~v.trusted /\ u = newest
    <2>1. Tracked(t, n) /\ SteadyTrust(t, v) => Tracked(newest, n)
      BY <1>1, <1>9, <1>10 DEF Tracked, SteadyTrust
    <2> QED
      BY <1>8, <1>9, <1>10, <2>1 DEF Added
  <1>11. CASE v.trusted /\ u \in voteTrie(newest, h, v, old.ledger)
    <2>1. old.ledger \in Ledgers \cup {NoLedger}
      BY <1>3, EntryIs
    <2>2. Voted(newest, v, old.ledger, u)
      BY <1>8, <1>11, <2>1, VoteTrieEffect
    <2>3. Tracked(t, n) => Awaited(t, n) \subseteq {old.ledger}
      BY DEF Tracked
    <2>4. Tracked(t, n) => Tracked(u, n)
      BY <1>1, <1>9, <1>11, <2>2, <2>3 DEF Voted
    <2>5. u \in Tables /\ Accepted(t, v, time, u) /\ u.current = newest.current
      BY <1>9, <2>2 DEF Voted, SameRecords, Accepted
    <2>6. \A m \in Nodes : m # n => (Tracked(t, m) => Tracked(u, m))
      BY <1>9, <2>2 DEF Voted
    <2>7. TrieExact(t) => TrieExact(u)
      BY <1>9, <2>2 DEF Voted
    <2> QED
      BY <1>9, <2>4, <2>5, <2>6, <2>7 DEF Added
  <1> QED
    BY <1>4, <1>7, <1>10, <1>11

-----------------------------------------------------------------------------
(* Changes of trust                                                        *)

\* Flags change nothing but the flag.
LEMMA FlaggedIs ==
    ASSUME NEW v \in Entry, NEW b \in BOOLEAN
    PROVE  /\ flagged(v, b) \in Entry
           /\ flagged(v, b) = None <=> v = None
           /\ v # None => /\ flagged(v, b) \in ValidationRecord
                          /\ flagged(v, b).seen = v.seen /\ flagged(v, b).node = v.node
  <1>1. CASE v = None
    BY <1>1 DEF flagged
  <1>2. CASE v # None
    <2> DEFINE w == [v EXCEPT !.trusted = b]
    <2>1. v \in ValidationRecord
      BY <1>2 DEF Entry
    <2>2. w \in ValidationRecord /\ w.seen = v.seen /\ w.node = v.node
      BY <2>1 DEF ValidationRecord
    <2> HIDE DEF w
    <2>3. w # None /\ w \in Entry
      BY <2>2, EntryIs DEF Entry, ValidationRecord
    <2>4. flagged(v, b) = w
      BY <1>2 DEF flagged, w
    <2> QED
      BY <1>2, <2>2, <2>3, <2>4
  <1> QED
    BY <1>1, <1>2

\* The sets of t and u hold validations of the same nodes, seen at the same time.
SeenSame(t, u) ==
    \A l \in Ledgers, n \in Nodes :
        LET a == t.byLedger[l].of[n]
            b == u.byLedger[l].of[n]
        IN  (b = None <=> a = None) /\ (a # None => b.seen = a.seen)

\* The current validation of a node is its own.
OwnVotes(t) == \A n \in Nodes : t.current[n] # None => t.current[n].node = n

\* u is t after the container heard of the changes of trust in N.
Retrusted(t, N, u) ==
    /\ u \in Tables /\ u.enforcers = t.enforcers /\ SeenSame(t, u)
    /\ TrieExact(t) => TrieExact(u)
    /\ OwnVotes(t) =>
         /\ OwnVotes(u)
         /\ \A m \in Nodes \ N :
              u.current[m] = t.current[m] /\ (Tracked(t, m) => Tracked(u, m))

reflagged(t, n, trusted) ==
    [t EXCEPT
       !.current[n] = flagged(@, trusted),
       !.byLedger = [l \in Ledgers |-> [t.byLedger[l] EXCEPT !.of[n] = flagged(@, trusted)]]]

\* Setting the flags of a node leaves all votes where they are.
LEMMA ReflagEffect ==
    ASSUME NEW t \in Tables, NEW n \in Nodes, NEW b \in BOOLEAN
    PROVE  LET u == reflagged(t, n, b)
           IN  /\ Retrusted(t, {n}, u) /\ u.current[n] = flagged(t.current[n], b)
               /\ u.current = [t.current EXCEPT ![n] = flagged(@, b)]
               /\ u.acquiring = t.acquiring /\ u.last = t.last
  <1> DEFINE u == reflagged(t, n, b)
             C == [t.current EXCEPT ![n] = flagged(@, b)]
             B == [l \in Ledgers |-> [t.byLedger[l] EXCEPT !.of[n] = flagged(@, b)]]
  <1>1. /\ t.current \in [Nodes -> Entry] /\ t.byLedger \in [Ledgers -> LedgerSet]
    BY TablesFields
  <1>2. C \in [Nodes -> Entry] /\ C[n] = flagged(t.current[n], b)
    BY <1>1, FlaggedIs
  <1>3. ASSUME NEW l \in Ledgers
        PROVE  /\ B[l] \in LedgerSet
               /\ \A m \in Nodes : B[l].of[m] = IF m = n THEN flagged(t.byLedger[l].of[m], b)
                                                ELSE t.byLedger[l].of[m]
    <2> DEFINE set == t.byLedger[l]
               of == [set.of EXCEPT ![n] = flagged(@, b)]
    <2>1. set \in LedgerSet
      BY <1>1
    <2> HIDE DEF set
    <2>2. set.since \in Nat /\ set.of \in [Nodes -> Entry]
      BY <2>1 DEF LedgerSet
    <2>3. of \in [Nodes -> Entry]
      BY <2>2, FlaggedIs
    <2>4. \A m \in Nodes : of[m] = IF m = n THEN flagged(set.of[m], b) ELSE set.of[m]
      BY <2>2
    <2>5. B[l] = [set EXCEPT !.of = of]
      BY <2>1 DEF set, LedgerSet
    <2> HIDE DEF of, B
    <2>6. B[l] \in LedgerSet /\ B[l].of = of
      BY <2>1, <2>3, <2>5 DEF LedgerSet
    <2> QED
      BY <2>4, <2>6 DEF set
  <1>4. B \in [Ledgers -> LedgerSet]
    BY <1>3
  <1>5. u = [t EXCEPT !.current = C, !.byLedger = B]
    <2>1. u = [t EXCEPT !.current[n] = flagged(@, b), !.byLedger = B]
      BY DEF reflagged
    <2> HIDE DEF B, u
    <2> QED
      BY <2>1 DEF Tables
  <1> HIDE DEF u, C, B
  <1>6. /\ u \in Tables /\ u.current = C /\ u.byLedger = B /\ u.enforcers = t.enforcers
        /\ u.acquiring = t.acquiring /\ u.last = t.last /\ u.trie = t.trie
    BY <1>2, <1>4, <1>5 DEF Tables
  <1>7. SeenSame(t, u)
    <2> SUFFICES ASSUME NEW l \in Ledgers, NEW m \in Nodes
                 PROVE  LET x == t.byLedger[l].of[m]
                            y == u.byLedger[l].of[m]
                        IN  (y = None <=> x = None) /\ (x # None => y.seen = x.seen)
      BY DEF SeenSame
    <2>1. t.byLedger[l].of[m] \in Entry
      BY <1>1 DEF LedgerSet
    <2> QED
      BY <1>3, <1>6, <2>1, FlaggedIs
  <1>8. TrieExact(t) => TrieExact(u)
    BY <1>6 DEF TrieExact
  <1>9. \A m \in Nodes \ {n} : u.current[m] = t.current[m]
    BY <1>1, <1>6 DEF C
  <1>10. \A m \in Nodes \ {n} : Tracked(t, m) => Tracked(u, m)
    BY <1>6, <1>9 DEF Tracked, Awaited
  <1>11. OwnVotes(t) => OwnVotes(u)
    <2>1. t.current[n] \in Entry
      BY <1>1
    <2>2. t.current[n].node = n \/ t.current[n] = None
            => u.current[n] = None \/ u.current[n].node = n
      BY <1>2, <1>6, <2>1, FlaggedIs
    <2> QED
      BY <1>9, <2>2 DEF OwnVotes
  <1> QED
    BY <1>2, <1>6, <1>7, <1>8, <1>9, <1>10, <1>11 DEF Retrusted, u, C

\* Reports about one set of nodes and then about another.
LEMMA RetrustedTwice ==
    ASSUME NEW t, NEW N, NEW u, Retrusted(t, N, u), NEW M, NEW w, Retrusted(u, M, w)
    PROVE  Retrusted(t, N \cup M, w)
  <1>1. SeenSame(t, w)
    BY DEF Retrusted, SeenSame
  <1> QED
    BY <1>1 DEF Retrusted

\* A report about one node leaves the votes of the others alone.
LEMMA RetrustEffect ==
    ASSUME NEW t \in Tables, NEW n \in Nodes, NEW b \in BOOLEAN,
           NEW h \in SUBSET Ledgers, NEW w \in retrust(t, n, b, h)
    PROVE  Retrusted(t, {n}, w)
  <1> DEFINE u == reflagged(t, n, b)
             v == u.current[n]
  <1>1. /\ Retrusted(t, {n}, u) /\ v = flagged(t.current[n], b)
    BY ReflagEffect
  <1>2. t.current[n] \in Entry /\ u \in Tables
    BY <1>1, TablesFields DEF Retrusted
  <1>3. \/ w = u
        \/ t.current[n] # None /\ w \in voteTrie(u, h, v, NoLedger)
        \/ t.current[n] # None /\ w = removeTrie(u, n)
    BY DEF retrust, reflagged
  <1> HIDE DEF u
  <1>4. CASE w = u
    BY <1>1, <1>4
  <1>5. CASE t.current[n] # None /\ w \in voteTrie(u, h, v, NoLedger)
    <2>1. v \in ValidationRecord
      BY <1>1, <1>2, <1>5, FlaggedIs
    <2>2. NoLedger \in Ledgers \cup {NoLedger}
      OBVIOUS
    <2>3. Voted(u, v, NoLedger, w)
      BY <1>2, <1>5, <2>1, <2>2, VoteTrieEffect
    <2>4. OwnVotes(u) => v.node = n
      BY <1>1, <1>2, <1>5, FlaggedIs DEF OwnVotes
    <2>5. Retrusted(u, {n}, w)
      BY <2>3, <2>4 DEF Voted, SameRecords, Retrusted, SeenSame, OwnVotes
    <2>6. Retrusted(t, {n} \cup {n}, w)
      BY <1>1, <2>5, RetrustedTwice
    <2> QED
      BY <2>6 DEF Retrusted
  <1>6. CASE t.current[n] # None /\ w = removeTrie(u, n)
    <2>1. u.current[n] # None
      BY <1>1, <1>2, <1>6, FlaggedIs
    <2>2. SupportRemoved(u, n, v.ledger, w)
      BY <1>2, <1>6, <2>1, RemoveTrieEffect
    <2>3. \A m \in Nodes \ {n} : Awaited(w, m) = Awaited(u, m) /\ w.last[m] = u.last[m]
      BY <1>2, <2>2, TablesFields DEF SupportRemoved, Awaited
    <2>4. \A m \in Nodes \ {n} : Tracked(u, m) => Tracked(w, m)
      BY <2>2, <2>3 DEF SupportRemoved, Tracked, SameRecords
    <2>5. Retrusted(u, {n}, w)
      BY <2>2, <2>4 DEF SupportRemoved, SameRecords, Retrusted, SeenSame, OwnVotes
    <2>6. Retrusted(t, {n} \cup {n}, w)
      BY <1>1, <2>5, RetrustedTwice
    <2> QED
      BY <2>6 DEF Retrusted
  <1> QED
    BY <1>3, <1>4, <1>5, <1>6

\* The newest validation of n counts in u, or waits for its ledger to count, if
\* b says that n is trusted, and only then. None of the ledgers h that n may
\* wait for would replace a vote that counts.
Applied(u, n, b, h) ==
    LET l == u.current[n].ledger
    IN  u.current[n] # None =>
          IF b THEN /\ u.last[n] = l \/ n \in u.acquiring[l]
                    /\ \A k \in h : n \notin u.acquiring[k]
          ELSE u.last[n] # l /\ n \notin u.acquiring[l]

\* The ledger of a validation is one.
LEMMA CurrentLedger ==
    ASSUME NEW t \in Tables, NEW n \in Nodes, t.current[n] # None
    PROVE  t.current[n] \in ValidationRecord /\ t.current[n].ledger \in Ledgers
  <1>1. t.current[n] \in Entry
    BY TablesFields
  <1> QED
    BY <1>1 DEF Entry, ValidationRecord

\* Fetched ledgers change nothing about whose newest validation counts.
LEMMA AcquiredApplies ==
    ASSUME NEW t \in Tables, NEW h \in SUBSET Ledgers, NEW u, Acquired(t, h, u),
           NEW n \in Nodes, NEW b \in BOOLEAN, Applied(t, n, b, h)
    PROVE  Applied(u, n, b, h)
  <1> DEFINE l == t.current[n].ledger
  <1> SUFFICES ASSUME t.current[n] # None
               PROVE  Applied(u, n, b, h)
    BY DEF Acquired, SameRecords, Applied
  <1>1. u.current[n] = t.current[n] /\ l \in Ledgers
    BY CurrentLedger DEF Acquired, SameRecords
  <1>2. \A k \in Ledgers : u.acquiring[k] = IF k \in h THEN {} ELSE t.acquiring[k]
    BY DEF Acquired
  <1>3. \/ n \notin Waiting(t, h) /\ u.last[n] = t.last[n]
        \/ u.last[n] \in h /\ n \in t.acquiring[u.last[n]]
    BY DEF Acquired
  <1> HIDE DEF l
  <1>4. CASE b
    <2>1. (t.last[n] = l \/ n \in t.acquiring[l]) /\ \A k \in h : n \notin t.acquiring[k]
      BY <1>4 DEF Applied, l
    <2>2. u.last[n] = t.last[n]
      BY <1>3, <2>1
    <2>3. u.last[n] = l \/ n \in u.acquiring[l]
      BY <1>1, <1>2, <2>1, <2>2
    <2>4. \A k \in h : n \notin u.acquiring[k]
      BY <1>2
    <2> QED
      BY <1>1, <1>4, <2>3, <2>4 DEF Applied, l
  <1>5. CASE ~b
    <2>1. t.last[n] # l /\ n \notin t.acquiring[l]
      BY <1>5 DEF Applied, l
    <2>2. u.last[n] # l /\ n \notin u.acquiring[l]
      BY <1>1, <1>2, <1>3, <2>1
    <2> QED
      BY <1>1, <1>5, <2>2 DEF Applied, l
  <1> QED
    BY <1>4, <1>5

\* What Applied reads of one node.
LEMMA AppliedSame ==
    ASSUME NEW t \in Tables, NEW u \in Tables, NEW n \in Nodes, NEW b \in BOOLEAN,
           NEW h \in SUBSET Ledgers, u.current[n] = t.current[n], u.last[n] = t.last[n],
           \A k \in Ledgers : n \in u.acquiring[k] <=> n \in t.acquiring[k],
           Applied(t, n, b, h)
    PROVE  Applied(u, n, b, h)
  <1>1. CASE t.current[n] = None
    BY <1>1 DEF Applied
  <1>2. CASE t.current[n] # None
    <2>1. t.current[n].ledger \in Ledgers
      BY <1>2, CurrentLedger
    <2> QED
      BY <2>1 DEF Applied
  <1> QED
    BY <1>1, <1>2

\* The vote of a node that has joined the list is counted, or waits.
LEMMA VoteApplies ==
    ASSUME NEW t \in Tables, NEW h \in SUBSET Ledgers, NEW v \in ValidationRecord,
           t.current[v.node] = v, NEW u \in voteTrie(t, h, v, NoLedger)
    PROVE  /\ Applied(u, v.node, TRUE, h)
           /\ \A n \in Nodes, b \in BOOLEAN :
                n # v.node /\ Applied(t, n, b, h) => Applied(u, n, b, h)
  <1> DEFINE m == v.node
             l == v.ledger
  <1>1. m \in Nodes /\ l \in Ledgers
    BY DEF ValidationRecord
  <1>2. PICK w \in checkAcquired(t, h) :
          u = IF l \in h THEN updateTrie(w, m, l)
              ELSE [w EXCEPT !.acquiring[l] = @ \cup {m}]
    BY DEF voteTrie
  <1> HIDE DEF m, l
  <1>3. Acquired(t, h, w)
    BY CheckAcquiredEffect
  <1>4. w \in Tables /\ w.current[m] = v /\ \A k \in h : m \notin w.acquiring[k]
    BY <1>3 DEF Acquired, SameRecords, m
  <1>5. ASSUME NEW n \in Nodes, NEW b \in BOOLEAN, n # m, Applied(t, n, b, h)
        PROVE  Applied(w, n, b, h)
    BY <1>3, <1>5, AcquiredApplies
  <1>6. CASE l \in h
    <2>1. SupportMoved(w, m, l, u)
      BY <1>1, <1>2, <1>4, <1>6, UpdateTrieEffect
    <2>2. /\ u \in Tables /\ u.current = w.current /\ u.acquiring = w.acquiring
          /\ u.last[m] = l /\ \A n \in Nodes : n # m => u.last[n] = w.last[n]
      BY <1>1, <1>4, <2>1, TablesFields DEF SupportMoved, SameRecords
    <2>3. Applied(u, m, TRUE, h)
      BY <1>4, <2>2 DEF Applied, l
    <2>4. ASSUME NEW n \in Nodes, NEW b \in BOOLEAN, n # m, Applied(t, n, b, h)
          PROVE  Applied(u, n, b, h)
      BY <1>4, <1>5, <2>2, <2>4, AppliedSame
    <2> QED
      BY <2>3, <2>4 DEF m
  <1>7. CASE l \notin h
    <2> DEFINE A == [w.acquiring EXCEPT ![l] = @ \cup {m}]
    <2>1. A \in [Ledgers -> SUBSET Nodes] /\ u = [w EXCEPT !.acquiring = A]
      BY <1>1, <1>2, <1>4, <1>7, TablesFields DEF Tables
    <2>2. \A n \in Nodes, k \in Ledgers :
            n \in A[k] <=> n \in w.acquiring[k] \/ (n = m /\ k = l)
      BY <1>1, <1>4, TablesFields
    <2> HIDE DEF A
    <2>3. u \in Tables /\ u.current = w.current /\ u.acquiring = A /\ u.last = w.last
      BY <1>4, <2>1, AcquiringWritten DEF SameRecords
    <2>4. m \in u.acquiring[l] /\ \A k \in h : m \notin u.acquiring[k]
      BY <1>1, <1>4, <1>7, <2>2, <2>3
    <2>5. Applied(u, m, TRUE, h)
      BY <1>4, <2>3, <2>4 DEF Applied, l
    <2>6. ASSUME NEW n \in Nodes, NEW b \in BOOLEAN, n # m, Applied(t, n, b, h)
          PROVE  Applied(u, n, b, h)
      BY <1>4, <1>5, <2>2, <2>3, <2>6, AppliedSame
    <2> QED
      BY <2>5, <2>6 DEF m
  <1> QED
    BY <1>6, <1>7

\* The vote of a node that has left the list is not counted.
LEMMA RemoveApplies ==
    ASSUME NEW t \in Tables, NEW h \in SUBSET Ledgers, NEW m \in Nodes,
           t.current[m] # None
    PROVE  /\ Applied(removeTrie(t, m), m, FALSE, h)
           /\ \A n \in Nodes, b \in BOOLEAN :
                n # m /\ Applied(t, n, b, h) => Applied(removeTrie(t, m), n, b, h)
  <1> DEFINE l == t.current[m].ledger
             u == removeTrie(t, m)
  <1>1. SupportRemoved(t, m, l, u)
    BY RemoveTrieEffect
  <1>2. l \in Ledgers /\ NoLedger # l
    BY CurrentLedger, TablesAssumption
  <1> HIDE DEF l, u
  <1>3. /\ u \in Tables /\ u.current = t.current
        /\ u.last[m] # l /\ m \notin u.acquiring[l]
    BY <1>1, <1>2, TablesFields DEF SupportRemoved, SameRecords
  <1>4. \A n \in Nodes : n # m => /\ u.last[n] = t.last[n]
                                 /\ \A k \in Ledgers : n \in u.acquiring[k]
                                                      <=> n \in t.acquiring[k]
    BY <1>1, <1>2, TablesFields DEF SupportRemoved
  <1>5. Applied(u, m, FALSE, h)
    BY <1>3 DEF Applied, l
  <1>6. ASSUME NEW n \in Nodes, NEW b \in BOOLEAN, n # m, Applied(t, n, b, h)
        PROVE  Applied(u, n, b, h)
    BY <1>3, <1>4, <1>6, AppliedSame
  <1> QED
    BY <1>5, <1>6 DEF u

\* A report about one node is applied to it and stays so for the others.
LEMMA RetrustApplies ==
    ASSUME NEW t \in Tables, OwnVotes(t), NEW m \in Nodes, NEW b \in BOOLEAN,
           NEW h \in SUBSET Ledgers, NEW w \in retrust(t, m, b, h)
    PROVE  /\ Applied(w, m, b, h)
           /\ \A n \in Nodes, c \in BOOLEAN :
                n # m /\ Applied(t, n, c, h) => Applied(w, n, c, h)
  <1> DEFINE u == reflagged(t, m, b)
             v == u.current[m]
  <1>1. /\ Retrusted(t, {m}, u) /\ v = flagged(t.current[m], b)
        /\ u.current = [t.current EXCEPT ![m] = flagged(@, b)]
        /\ u.acquiring = t.acquiring /\ u.last = t.last
    BY ReflagEffect
  <1>2. t.current[m] \in Entry /\ t.current \in [Nodes -> Entry] /\ u \in Tables
    BY <1>1, TablesFields DEF Retrusted
  <1>3. \/ t.current[m] = None /\ w = u
        \/ t.current[m] # None /\ b /\ w \in voteTrie(u, h, v, NoLedger)
        \/ t.current[m] # None /\ ~b /\ w = removeTrie(u, m)
    BY DEF retrust, reflagged
  <1> HIDE DEF u
  <1>4. \A n \in Nodes : n # m => u.current[n] = t.current[n]
    BY <1>1, <1>2
  <1>5. ASSUME NEW n \in Nodes, NEW c \in BOOLEAN, n # m, Applied(t, n, c, h)
        PROVE  Applied(u, n, c, h)
    BY <1>1, <1>2, <1>4, <1>5, AppliedSame
  <1>6. CASE t.current[m] = None /\ w = u
    <2>1. u.current[m] = None
      BY <1>1, <1>2, <1>6, FlaggedIs
    <2> QED
      BY <1>5, <1>6, <2>1 DEF Applied
  <1>7. CASE t.current[m] # None /\ b /\ w \in voteTrie(u, h, v, NoLedger)
    <2>0. t.current[m] # None /\ w \in voteTrie(u, h, v, NoLedger)
      BY <1>7
    <2>1. v \in ValidationRecord /\ v.node = t.current[m].node
      <3>1. v = flagged(t.current[m], b)
        BY <1>1
      <3> QED
        BY <1>2, <2>0, <3>1, FlaggedIs
    <2>2. v.node = m /\ u.current[v.node] = v
      BY <2>0, <2>1 DEF OwnVotes
    <2> HIDE DEF v
    <2>3. /\ Applied(w, v.node, TRUE, h)
          /\ \A n \in Nodes, c \in BOOLEAN :
               n # v.node /\ Applied(u, n, c, h) => Applied(w, n, c, h)
      BY <1>2, <2>0, <2>1, <2>2, VoteApplies DEF v
    <2>4. b = TRUE
      BY <1>7
    <2> QED
      BY <1>5, <2>2, <2>3, <2>4
  <1>8. CASE t.current[m] # None /\ ~b /\ w = removeTrie(u, m)
    <2>1. u.current[m] # None
      BY <1>1, <1>2, <1>8, FlaggedIs
    <2>2. /\ Applied(w, m, FALSE, h)
          /\ \A n \in Nodes, c \in BOOLEAN :
               n # m /\ Applied(u, n, c, h) => Applied(w, n, c, h)
      <3>1. w = removeTrie(u, m)
        BY <1>8
      <3>2. u \in Tables
        BY <1>2
      <3> HIDE DEF v
      <3> QED
        BY <2>1, <3>1, <3>2, RemoveApplies
    <2>3. b = FALSE
      BY <1>8
    <2> QED
      BY <1>5, <2>2, <2>3
  <1> QED
    BY <1>3, <1>6, <1>7, <1>8

\* What the walk over done can end in, given where it ends for smaller sets.
WalkStep(t, trusted, h, done, g) ==
    IF done = {} THEN {t}
    ELSE UNION {UNION {retrust(u, n, n \in trusted, h) : u \in g[done \ {n}]} : n \in done}

\* A walk ends with a report about one node after a walk over the others.
LEMMA WalkStepIs ==
    ASSUME NEW t, NEW trusted, NEW h, NEW done, done # {}, NEW g,
           NEW y \in WalkStep(t, trusted, h, done, g)
    PROVE  \E n \in done : \E x \in g[done \ {n}] : y \in retrust(x, n, n \in trusted, h)
  <1> DEFINE D(n) == {retrust(u, n, n \in trusted, h) : u \in g[done \ {n}]}
             E(n) == UNION D(n)
  <1>1. WalkStep(t, trusted, h, done, g) = UNION {E(n) : n \in done}
    BY DEF WalkStep
  <1>2. PICK n \in done : y \in E(n)
    BY <1>1
  <1>3. PICK S \in D(n) : y \in S
    BY <1>2
  <1>4. PICK x \in g[done \ {n}] : S = retrust(x, n, n \in trusted, h)
    BY <1>3
  <1> QED
    BY <1>3, <1>4

\* The step depends on the values at smaller sets only.
LEMMA WalkStepLocal ==
    ASSUME NEW t, NEW trusted, NEW h, NEW done, NEW g, NEW k,
           \A n \in done : g[done \ {n}] = k[done \ {n}]
    PROVE  WalkStep(t, trusted, h, done, g) = WalkStep(t, trusted, h, done, k)
  <1> DEFINE D(S, n) == UNION {retrust(u, n, n \in trusted, h) : u \in S}
             G(n) == D(g[done \ {n}], n)
             K(n) == D(k[done \ {n}], n)
  <1>1. \A n \in done : G(n) = K(n)
    <2> HIDE DEF D
    <2> QED OBVIOUS
  <1>2. UNION {G(n) : n \in done} = UNION {K(n) : n \in done}
    <2> HIDE DEF G, K
    <2> QED BY <1>1
  <1>3. /\ WalkStep(t, trusted, h, done, g) = IF done = {} THEN {t} ELSE UNION {G(n) : n \in done}
        /\ WalkStep(t, trusted, h, done, k) = IF done = {} THEN {t} ELSE UNION {K(n) : n \in done}
    BY DEF WalkStep
  <1> HIDE DEF G, K
  <1> QED
    BY <1>2, <1>3

\* Walks yield tables.
LEMMA WalkStepTyped ==
    ASSUME NEW t \in Tables, NEW trusted, NEW h \in SUBSET Ledgers,
           NEW s \in SUBSET Nodes, NEW g \in [Below(s) -> SUBSET Tables]
    PROVE  WalkStep(t, trusted, h, s, g) \in SUBSET Tables
  <1>1. CASE s = {}
    BY <1>1 DEF WalkStep
  <1>2. CASE s # {}
    <2> SUFFICES ASSUME NEW y \in WalkStep(t, trusted, h, s, g) PROVE y \in Tables
      OBVIOUS
    <2>1. PICK n \in s : \E x \in g[s \ {n}] : y \in retrust(x, n, n \in trusted, h)
      BY <1>2, WalkStepIs
    <2>2. PICK x \in g[s \ {n}] : y \in retrust(x, n, n \in trusted, h)
      BY <2>1
    <2>3. s \ {n} \in Below(s)
      BY DEF Below
    <2>4. x \in Tables /\ n \in Nodes /\ (n \in trusted) \in BOOLEAN
      BY <2>2, <2>3
    <2> QED
      BY <2>2, <2>4, RetrustEffect DEF Retrusted
  <1> QED
    BY <1>1, <1>2

\* trustChanged, whatever order it walks the nodes in, is applied to the nodes it
\* is told of and leaves the votes of all others alone.
LEMMA TrustChangedEffect ==
    ASSUME NEW t \in Tables, NEW N \in SUBSET Nodes, NEW trusted,
           NEW h \in SUBSET Ledgers, NEW u \in trustChanged(t, N, trusted, h)
    PROVE  /\ Retrusted(t, N, u)
           /\ OwnVotes(t) => \A m \in N : Applied(u, m, m \in trusted, h)
  <1> DEFINE Walk(g) == g = [s \in SUBSET N |-> WalkStep(t, trusted, h, s, g)]
  <1>1. trustChanged(t, N, trusted, h) = (CHOOSE g : Walk(g))[N]
    BY Zenon DEF trustChanged, WalkStep
  <1>2. IsFiniteSet(N)
    BY TablesAssumption, FS_Subset
  <1>3. \E g : Walk(g)
    <2> DEFINE T == SUBSET Tables
               F == [p \in StepsOf(N, T) |-> WalkStep(t, trusted, h, p[1], p[2])]
    <2>1. ASSUME NEW s \in SUBSET N, NEW k \in [Below(s) -> T]
          PROVE  F[<<s, k>>] = WalkStep(t, trusted, h, s, k) /\ F[<<s, k>>] \in T
      <3>1. <<s, k>> \in {s} \X [Below(s) -> T]
        OBVIOUS
      <3>2. <<s, k>> \in StepsOf(N, T)
        BY <3>1 DEF StepsOf
      <3>3. WalkStep(t, trusted, h, s, k) \in T
        BY WalkStepTyped
      <3> QED
        BY <3>2, <3>3
    <2>2. F \in [StepsOf(N, T) -> T]
      <3>1. ASSUME NEW p \in StepsOf(N, T) PROVE F[p] \in T
        <4>1. PICK s \in SUBSET N : p \in {s} \X [Below(s) -> T]
          BY DEF StepsOf
        <4> DEFINE B == [Below(s) -> T]
        <4>2. p \in {s} \X B
          BY <4>1
        <4> HIDE DEF B
        <4>3. p = <<s, p[2]>> /\ p[2] \in B
          BY <4>2
        <4> HIDE DEF F, T
        <4> QED
          BY <2>1, <4>3 DEF B
      <3> QED
        BY <3>1
    <2> HIDE DEF F, T
    <2>3. PICK g \in [SUBSET N -> T] : StepByStep(F, N, T, g)
      BY <1>2, <2>2, RecursionTyped
    <2>4. ASSUME NEW s \in SUBSET N
          PROVE  g[s] = WalkStep(t, trusted, h, s, g)
      <3> DEFINE k == [r \in Below(s) |-> g[r]]
      <3>1. k \in [Below(s) -> T] /\ g[s] = F[<<s, k>>]
        BY <2>3 DEF StepByStep
      <3>2. \A n \in s : k[s \ {n}] = g[s \ {n}]
        BY DEF Below
      <3> HIDE DEF k
      <3>3. WalkStep(t, trusted, h, s, k) = WalkStep(t, trusted, h, s, g)
        BY <3>2, WalkStepLocal
      <3> QED
        BY <2>1, <3>1, <3>3
    <2>5. g = [s \in SUBSET N |-> g[s]]
      OBVIOUS
    <2>6. Walk(g)
      BY <2>4, <2>5
    <2> QED
      BY <2>6
  <1> DEFINE g == CHOOSE x : Walk(x)
  <1>4. Walk(g)
    BY <1>3
  <1> HIDE DEF g
  <1>5. \A s \in SUBSET N : g[s] = WalkStep(t, trusted, h, s, g)
    BY <1>4
  <1> HIDE DEF Walk
  <1> DEFINE Told(s, y) ==
               /\ Retrusted(t, s, y)
               /\ OwnVotes(t) => \A m \in s : Applied(y, m, m \in trusted, h)
             P == {s \in SUBSET N : \A y \in g[s] : Told(s, y)}
  <1>6. ASSUME NEW s \in SUBSET N, \A r \in SUBSET s : r # s => r \in P
        PROVE  s \in P
    <2> SUFFICES ASSUME NEW y \in g[s] PROVE Told(s, y)
      OBVIOUS
    <2>1. CASE s = {}
      <3>1. y = t
        BY <1>5, <2>1 DEF WalkStep
      <3> QED
        BY <2>1, <3>1 DEF Retrusted, SeenSame
    <2>2. CASE s # {}
      <3>1. y \in WalkStep(t, trusted, h, s, g)
        BY <1>5
      <3>2. PICK n \in s : \E x \in g[s \ {n}] : y \in retrust(x, n, n \in trusted, h)
        BY <2>2, <3>1, WalkStepIs
      <3>3. PICK x \in g[s \ {n}] : y \in retrust(x, n, n \in trusted, h)
        BY <3>2
      <3>4. Told(s \ {n}, x)
        <4> HIDE DEF Told
        <4> QED BY <1>6, <3>3
      <3>5. x \in Tables /\ n \in Nodes /\ (n \in trusted) \in BOOLEAN
        BY <3>4 DEF Retrusted
      <3>6. Retrusted(x, {n}, y)
        BY <3>3, <3>5, RetrustEffect
      <3>7. Retrusted(t, (s \ {n}) \cup {n}, y)
        BY <3>4, <3>6, RetrustedTwice
      <3>8. (s \ {n}) \cup {n} = s
        OBVIOUS
      <3>9. ASSUME OwnVotes(t), NEW m \in s PROVE Applied(y, m, m \in trusted, h)
        <4>1. OwnVotes(x)
          BY <3>4, <3>9 DEF Retrusted
        <4>2. /\ Applied(y, n, n \in trusted, h)
              /\ \A k \in Nodes, c \in BOOLEAN :
                   k # n /\ Applied(x, k, c, h) => Applied(y, k, c, h)
          BY <3>3, <3>5, <4>1, RetrustApplies
        <4>3. CASE m # n
          <5>1. Applied(x, m, m \in trusted, h) /\ m \in Nodes /\ (m \in trusted) \in BOOLEAN
            BY <3>4, <3>9, <4>3
          <5> QED
            BY <4>2, <4>3, <5>1
        <4> QED
          BY <4>2, <4>3
      <3> QED
        BY <3>7, <3>8, <3>9
    <2> QED
      BY <2>1, <2>2
  <1> HIDE DEF P
  <1>7. \A s \in SUBSET N : s \in P
    BY <1>2, <1>6, StrongInduction
  <1>8. \A y \in g[N] : Told(N, y)
    BY <1>7 DEF P
  <1> QED
    BY <1>1, <1>8 DEF g

-----------------------------------------------------------------------------
(* Counting for one ledger of a sequence                                   *)

\* The sequence a node is held to has passed every ledger it is counted for,
\* or has been taken up again more than the expiry time after it.
Enforced(t, time) ==
    /\ \A n \in Nodes : t.enforcers[n].when <= time
    /\ \A n \in Nodes, l \in Ledgers :
         LET a == t.byLedger[l].of[n]
             e == t.enforcers[n]
         IN  a # None => /\ a.seen <= e.when
                         /\ SeqOf[l] <= e.seq \/ e.when - a.seen > SET_EXPIRES

\* CountedOnce of the tables t
Once(t) ==
    \A n \in Nodes, l, m \in Ledgers :
        LET a == t.byLedger[l].of[n]
            b == t.byLedger[m].of[n]
        IN  l # m /\ SeqOf[l] = SeqOf[m] /\ a # None /\ b # None =>
              a.seen - b.seen > SET_EXPIRES \/ b.seen - a.seen > SET_EXPIRES

CountsOnce(t, time) == Enforced(t, time) /\ Once(t)

\* Sets that hold the same validations, or fewer, count no more.
LEMMA FewerCounted ==
    ASSUME NEW t, NEW u, NEW time, CountsOnce(t, time), u.enforcers = t.enforcers,
           \A l \in Ledgers, n \in Nodes :
               LET a == t.byLedger[l].of[n]
                   b == u.byLedger[l].of[n]
               IN  b # None => a # None /\ b.seen = a.seen
    PROVE  CountsOnce(u, time)
  <1>1. Enforced(u, time)
    BY DEF CountsOnce, Enforced
  <1>2. Once(u)
    BY DEF CountsOnce, Once
  <1> QED
    BY <1>1, <1>2 DEF CountsOnce

\* The validation that counts n for l
CountedAs(t, l, n) == t.byLedger[l].of[n]

\* What the sets of u hold after v came to those of t.
CountedToo(t, v, u) ==
    \A l \in Ledgers, n \in Nodes :
        CountedAs(u, l, n) = IF l = v.ledger /\ n = v.node THEN v ELSE CountedAs(t, l, n)

\* Accepting v changes one entry of one set and one enforcer.
LEMMA AcceptedEntries ==
    ASSUME NEW t \in Tables, NEW v \in ValidationRecord, NEW time \in Nat, NEW u \in Tables,
           Accepted(t, v, time, u)
    PROVE  /\ CountedToo(t, v, u)
           /\ \A n \in Nodes :
                u.enforcers[n] = IF n = v.node THEN [seq |-> SeqOf[v.ledger], when |-> time]
                                 ELSE t.enforcers[n]
  <1>1. /\ t.byLedger \in [Ledgers -> LedgerSet] /\ t.enforcers \in [Nodes -> Enforcer]
        /\ v.ledger \in Ledgers /\ v.node \in Nodes
    BY TablesFields DEF ValidationRecord
  <1>2. \A n \in Nodes :
          u.enforcers[n] = IF n = v.node THEN [seq |-> SeqOf[v.ledger], when |-> time]
                           ELSE t.enforcers[n]
    BY <1>1 DEF Accepted
  <1> SUFFICES ASSUME NEW l \in Ledgers, NEW n \in Nodes
               PROVE  CountedAs(u, l, n) = IF l = v.ledger /\ n = v.node THEN v
                                           ELSE CountedAs(t, l, n)
    BY <1>2 DEF CountedToo
  <1>3. u.byLedger[l] = IF l = v.ledger THEN Store(t.byLedger[l], v, time) ELSE t.byLedger[l]
    BY <1>1 DEF Accepted
  <1>4. t.byLedger[l].of \in [Nodes -> Entry]
    BY <1>1 DEF LedgerSet
  <1>5. Store(t.byLedger[l], v, time).of = [t.byLedger[l].of EXCEPT ![v.node] = v]
    BY DEF Store
  <1> QED
    BY <1>1, <1>3, <1>4, <1>5 DEF CountedAs

\* A validation the enforcer accepts is not the second one of its sequence.
LEMMA AcceptedCounts ==
    ASSUME NEW t \in Tables, NEW v \in ValidationRecord, NEW time \in Nat, NEW u \in Tables,
           v.seen = time, accepts(t, v, time), Accepted(t, v, time, u), CountsOnce(t, time)
    PROVE  CountsOnce(u, time)
  <1> DEFINE a(l, n) == CountedAs(t, l, n)
             b(l, n) == CountedAs(u, l, n)
             e(n) == t.enforcers[n]
             f(n) == u.enforcers[n]
             p == v.node
             s == SeqOf[v.ledger]
  <1>1. p \in Nodes /\ v.ledger \in Ledgers /\ v # None /\ SET_EXPIRES \in Nat
        /\ \A l \in Ledgers : SeqOf[l] \in Nat
    BY TablesAssumption, EntryIs DEF ValidationRecord, Entry
  <1>2. \A l \in Ledgers, n \in Nodes : b(l, n) = IF l = v.ledger /\ n = p THEN v ELSE a(l, n)
    <2>1. CountedToo(t, v, u)
      BY AcceptedEntries
    <2> QED
      BY <2>1 DEF CountedToo
  <1>3. \A n \in Nodes : f(n) = IF n = p THEN [seq |-> s, when |-> time] ELSE e(n)
    BY <1>1, AcceptedEntries
  <1>4. ASSUME NEW l \in Ledgers, NEW n \in Nodes
        PROVE  e(n).when \in Nat /\ e(n).seq \in Nat /\ (a(l, n) # None => a(l, n).seen \in Nat)
    <2>1. e(n) \in Enforcer /\ t.byLedger[l] \in LedgerSet
      BY TablesFields
    <2>2. a(l, n) \in Entry
      BY <2>1 DEF LedgerSet, CountedAs
    <2>3. a(l, n) # None => a(l, n) \in ValidationRecord
      BY <2>2, EntryIs
    <2> QED
      BY <2>1, <2>3 DEF Enforcer, ValidationRecord
  <1>5. time > e(p).when + SET_EXPIRES \/ s > e(p).seq
    BY <1>1 DEF accepts, enforce, largest
  <1>6. /\ \A n \in Nodes : e(n).when <= time
        /\ \A n \in Nodes, l \in Ledgers :
             a(l, n) # None => /\ a(l, n).seen <= e(n).when
                               /\ SeqOf[l] <= e(n).seq \/ e(n).when - a(l, n).seen > SET_EXPIRES
        /\ \A n \in Nodes, l, m \in Ledgers :
             l # m /\ SeqOf[l] = SeqOf[m] /\ a(l, n) # None /\ a(m, n) # None =>
               \/ a(l, n).seen - a(m, n).seen > SET_EXPIRES
               \/ a(m, n).seen - a(l, n).seen > SET_EXPIRES
    BY DEF CountsOnce, Enforced, Once, CountedAs
  <1> HIDE DEF a, b, e, f, p, s
  <1>7. ASSUME NEW l \in Ledgers, a(l, p) # None
        PROVE  SeqOf[l] < s \/ time - a(l, p).seen > SET_EXPIRES
    <2>1. /\ a(l, p).seen \in Nat /\ e(p).when \in Nat /\ e(p).seq \in Nat /\ s \in Nat
          /\ a(l, p).seen <= e(p).when /\ e(p).when <= time /\ SeqOf[l] \in Nat
          /\ SeqOf[l] <= e(p).seq \/ e(p).when - a(l, p).seen > SET_EXPIRES
      BY <1>1, <1>4, <1>6, <1>7 DEF s
    <2> QED
      BY <1>1, <1>5, <2>1
  <1>8. ASSUME NEW n \in Nodes, NEW l \in Ledgers, b(l, n) # None
        PROVE  /\ b(l, n).seen <= f(n).when
               /\ SeqOf[l] <= f(n).seq \/ f(n).when - b(l, n).seen > SET_EXPIRES
    <2>1. CASE n # p
      BY <1>2, <1>3, <1>6, <1>8, <2>1
    <2>2. CASE n = p /\ l = v.ledger
      <3>1. b(l, n) = v /\ f(n).when = time /\ f(n).seq = s
        BY <1>2, <1>3, <2>2
      <3>2. SeqOf[l] = s /\ s \in Nat /\ v.seen <= time
        BY <1>1, <2>2 DEF s
      <3> QED
        BY <3>1, <3>2
    <2>3. CASE n = p /\ l # v.ledger
      <3>1. b(l, n) = a(l, p) /\ a(l, p) # None /\ f(n).when = time /\ f(n).seq = s
        BY <1>2, <1>3, <1>8, <2>3
      <3>2. a(l, p).seen \in Nat /\ e(p).when \in Nat /\ s \in Nat /\ SeqOf[l] \in Nat
            /\ a(l, p).seen <= e(p).when /\ e(p).when <= time
        BY <1>1, <1>4, <1>6, <3>1 DEF s
      <3>3. SeqOf[l] < s \/ time - a(l, p).seen > SET_EXPIRES
        BY <1>7, <3>1
      <3> QED
        BY <3>1, <3>2, <3>3
    <2> QED
      BY <2>1, <2>2, <2>3
  <1>9. ASSUME NEW n \in Nodes PROVE f(n).when <= time
    <2>1. f(n) = e(n) \/ f(n).when = time
      BY <1>3
    <2> QED
      BY <1>6, <2>1
  <1>10. Enforced(u, time)
    BY <1>8, <1>9 DEF Enforced, b, f, CountedAs
  <1>11. ASSUME NEW n \in Nodes, NEW l \in Ledgers, NEW m \in Ledgers,
                l # m, SeqOf[l] = SeqOf[m], b(l, n) # None, b(m, n) # None
         PROVE  \/ b(l, n).seen - b(m, n).seen > SET_EXPIRES
                \/ b(m, n).seen - b(l, n).seen > SET_EXPIRES
    <2>1. CASE n # p \/ (l # v.ledger /\ m # v.ledger)
      <3>1. b(l, n) = a(l, n) /\ b(m, n) = a(m, n)
        BY <1>2, <2>1
      <3> QED
        BY <1>6, <1>11, <3>1
    <2>2. CASE n = p /\ l = v.ledger
      <3>1. b(l, n) = v /\ b(m, n) = a(m, p)
        BY <1>2, <1>11, <2>2
      <3>2. SeqOf[m] = s /\ s \in Nat
        BY <1>1, <1>11, <2>2 DEF s
      <3> QED
        BY <1>7, <1>11, <3>1, <3>2
    <2>3. CASE n = p /\ m = v.ledger
      <3>1. b(m, n) = v /\ b(l, n) = a(l, p)
        BY <1>2, <1>11, <2>3
      <3>2. SeqOf[l] = s /\ s \in Nat
        BY <1>1, <1>11, <2>3 DEF s
      <3> QED
        BY <1>7, <1>11, <3>1, <3>2
    <2> QED
      BY <2>1, <2>2, <2>3
  <1>12. Once(u)
    BY <1>11 DEF Once, b, CountedAs
  <1> QED
    BY <1>10, <1>12 DEF CountsOnce

-----------------------------------------------------------------------------
(* The invariant of the server                                             *)

ServerTyped ==
    /\ now \in 1 .. MaxTime
    /\ tables \in Tables
    /\ have \in SUBSET Ledgers
    /\ unl \in Listed /\ untold \subseteq changed /\ changed \in SUBSET Nodes
    /\ local \in Enforcer
    /\ boot \in Nat

\* Where trust has not changed, a current validation has the flag of the list,
\* and its vote is tracked.
VotesInv ==
    /\ OwnVotes(tables)
    /\ \A n \in Nodes \ changed :
         /\ tables.current[n] # None => (tables.current[n].trusted <=> n \in unl)
         /\ Tracked(tables, n)

ServerInv ==
    ServerTyped /\ TrieExact(tables) /\ VotesInv /\ CountsOnce(tables, now)

\* Tables without a validation have all that is asked of tables.
LEMMA EmptyTablesAre ==
    /\ EmptyTables \in Tables /\ TrieExact(EmptyTables) /\ OwnVotes(EmptyTables)
    /\ \A n \in Nodes : EmptyTables.current[n] = None /\ Tracked(EmptyTables, n)
    /\ \A time \in Nat : CountsOnce(EmptyTables, time)
  <1> DEFINE e == EmptyTables
  <1>1. /\ e.current = [n \in Nodes |-> None] /\ e.byLedger = [l \in Ledgers |-> EmptySet]
        /\ e.enforcers = [n \in Nodes |-> [seq |-> 0, when |-> 0]]
        /\ e.acquiring = [l \in Ledgers |-> {}] /\ e.last = [n \in Nodes |-> NoLedger]
        /\ e.trie = [l \in Ledgers |-> 0]
    BY DEF EmptyTables
  <1>2. e \in Tables
    <2>1. None \in Entry
      BY DEF Entry
    <2>2. EmptySet \in LedgerSet
      BY <2>1 DEF EmptySet, LedgerSet
    <2>3. [seq |-> 0, when |-> 0] \in Enforcer
      BY DEF Enforcer
    <2> HIDE DEF None
    <2> QED
      BY <2>1, <2>2, <2>3 DEF EmptyTables, Tables
  <1> HIDE DEF e
  <1>3. TrieExact(e)
    <2> SUFFICES ASSUME NEW l \in Ledgers PROVE e.trie[l] = Cardinality(Supporters(e.last, l))
      BY DEF TrieExact
    <2>1. Supporters(e.last, l) = {}
      BY <1>1, TablesAssumption DEF Supporters
    <2> QED
      BY <1>1, <2>1, FS_EmptySet
  <1>4. \A n \in Nodes : e.current[n] = None
    BY <1>1
  <1>5. \A n \in Nodes : Tracked(e, n)
    BY <1>1, <1>4 DEF Tracked, Awaited
  <1>6. OwnVotes(e)
    BY <1>4 DEF OwnVotes
  <1>7. ASSUME NEW time \in Nat PROVE CountsOnce(e, time)
    <2>1. \A l \in Ledgers, n \in Nodes : e.byLedger[l].of[n] = None
      BY <1>1 DEF EmptySet
    <2>2. \A n \in Nodes : e.enforcers[n].when <= time
      BY <1>1
    <2> QED
      BY <2>1, <2>2 DEF CountsOnce, Enforced, Once
  <1> QED
    BY <1>2, <1>3, <1>4, <1>5, <1>6, <1>7 DEF e

\* A server starts with nothing received and nothing signed.
LEMMA InitServer == Init => ServerInv
  <1> SUFFICES ASSUME Init PROVE ServerInv
    OBVIOUS
  <1>1. now = 1 /\ tables = EmptyTables /\ changed = {} /\ local = [seq |-> 0, when |-> 0]
        /\ boot = 0
    BY DEF Init, NewEnforcer
  <1>2. ServerTyped
    BY <1>1, EmptyTablesAre, ServerAssumption DEF Init, ServerTyped, Enforcer
  <1>3. TrieExact(tables) /\ VotesInv /\ CountsOnce(tables, now)
    BY <1>1, EmptyTablesAre DEF VotesInv
  <1> QED
    BY <1>2, <1>3 DEF ServerInv

\* Adding a validation of n with the flag the list gives it, or any flag if its
\* trust has changed, keeps every vote and counts none twice.
LEMMA AddKeeps ==
    ASSUME ServerInv, NEW v \in ValidationRecord, v.seen = now,
           v.node \notin changed => (v.trusted <=> v.node \in unl),
           tables' \in add(tables, v, now, have), UNCHANGED <<now, have, trust>>
    PROVE  /\ tables' \in Tables /\ TrieExact(tables)' /\ VotesInv' /\ CountsOnce(tables, now)'
  <1>1. tables \in Tables /\ have \in SUBSET Ledgers /\ now \in Nat
    BY DEF ServerInv, ServerTyped
  <1>2. unl' = unl /\ changed' = changed /\ now' = now
    BY DEF trust
  <1>3. CASE ~accepts(tables, v, now)
    <2>1. tables' = tables
      BY <1>3 DEF add
    <2> QED
      BY <1>1, <1>2, <2>1 DEF ServerInv, VotesInv
  <1>4. CASE accepts(tables, v, now)
    <2>1. Added(tables, v, now, tables')
      BY <1>1, <1>4, AddEffect
    <2>2. tables' \in Tables /\ TrieExact(tables')
      BY <2>1 DEF Added, ServerInv
    <2>3. v.node \in Nodes /\ v \in Entry /\ v # None
      BY EntryIs DEF ValidationRecord, Entry
    <2>4. OwnVotes(tables')
      BY <2>1, <2>3 DEF ServerInv, VotesInv, OwnVotes, Added
    <2>5. ASSUME NEW n \in Nodes \ changed
          PROVE  /\ tables'.current[n] # None => (tables'.current[n].trusted <=> n \in unl)
                 /\ Tracked(tables', n)
      <3>1. /\ tables.current[n] # None => (tables.current[n].trusted <=> n \in unl)
            /\ Tracked(tables, n)
        BY DEF ServerInv, VotesInv
      <3>2. CASE n # v.node
        BY <2>1, <3>1, <3>2 DEF Added
      <3>3. CASE n = v.node
        <4>1. SteadyTrust(tables, v)
          BY <3>1, <3>3 DEF SteadyTrust
        <4>2. tables'.current[n] = tables.current[n] \/ tables'.current[n] = v
          BY <2>1, <3>3 DEF Added
        <4> QED
          BY <2>1, <3>1, <3>3, <4>1, <4>2 DEF Added
      <3> QED
        BY <3>2, <3>3
    <2>6. VotesInv'
      BY <1>2, <2>4, <2>5 DEF VotesInv
    <2>7. CountsOnce(tables', now)
      BY <1>1, <1>4, <2>1, <2>2, AcceptedCounts DEF Added, ServerInv
    <2> QED
      BY <1>2, <2>2, <2>6, <2>7
  <1> QED
    BY <1>3, <1>4

\* A validation received from another node.
LEMMA ReceiveServer == ASSUME ServerInv, Receive PROVE ServerInv'
  <1>1. PICK n \in Nodes, l \in Ledgers, d \in Delays : d <= now /\ RecvValidation(n, l, now - d)
    BY DEF Receive
  <1>2. PICK b \in MayBeTrusted(n) :
          tables' \in add(tables, Validation(n, l, now - d, now, b), now, have)
    BY <1>1 DEF RecvValidation
  <1> DEFINE v == Validation(n, l, now - d, now, b)
  <1>3. UNCHANGED <<now, have, trust, signer>>
    BY <1>1 DEF RecvValidation
  <1>4. b \in BOOLEAN /\ (n \notin changed => (b <=> n \in unl))
    BY <1>2 DEF MayBeTrusted
  <1>5. v.node = n /\ v.seen = now /\ v.trusted = b
    BY DEF Validation
  <1>6. v \in ValidationRecord
    BY <1>4, ServerAssumption DEF Validation, ValidationRecord, ServerInv, ServerTyped
  <1>7. tables' \in add(tables, v, now, have)
    BY <1>2
  <1> HIDE DEF v
  <1>8. tables' \in Tables /\ TrieExact(tables)' /\ VotesInv' /\ CountsOnce(tables, now)'
    BY <1>3, <1>4, <1>5, <1>6, <1>7, AddKeeps
  <1> QED
    BY <1>3, <1>8 DEF ServerInv, ServerTyped, trust, signer

\* The server's own validation.
LEMMA ValidateServer == ASSUME ServerInv, NEW l \in Ledgers, Validate(l) PROVE ServerInv'
  <1> DEFINE v == Validation(Self, l, now, now, Self \in unl)
  <1>1. /\ tables' \in add(tables, v, now, have) /\ UNCHANGED <<now, have, trust, boot>>
        /\ local' = [seq |-> SeqOf[l], when |-> now]
    BY DEF Validate
  <1>2. v.node = Self /\ v.seen = now /\ v.trusted = (Self \in unl)
    BY DEF Validation
  <1>3. v \in ValidationRecord
    BY ServerAssumption DEF Validation, ValidationRecord, ServerInv, ServerTyped
  <1> HIDE DEF v
  <1>4. tables' \in Tables /\ TrieExact(tables)' /\ VotesInv' /\ CountsOnce(tables, now)'
    BY <1>1, <1>2, <1>3, AddKeeps
  <1>5. SeqOf[l] \in Nat /\ now \in Nat
    BY TablesAssumption DEF ServerInv, ServerTyped
  <1>6. ServerTyped'
    BY <1>1, <1>4, <1>5 DEF ServerInv, ServerTyped, trust, Enforcer
  <1> QED
    BY <1>4, <1>6 DEF ServerInv

\* Any use of the trie.
LEMMA UseTrieServer == ASSUME ServerInv, UseTrie PROVE ServerInv'
  <1> DEFINE t == flushStale(tables, now)
             S == Stale(tables, now)
  <1>1. tables' \in checkAcquired(t, have) /\ UNCHANGED <<now, have, trust, signer>>
    BY DEF UseTrie, withTrie
  <1>2. tables \in Tables /\ have \in SUBSET Ledgers
    BY DEF ServerInv, ServerTyped
  <1>3. Flushed(tables, S, t)
    BY <1>2, FlushStaleEffect
  <1> HIDE DEF t
  <1>4. t \in Tables
    BY <1>3 DEF Flushed
  <1>5. VotesKept(t, tables')
    BY <1>1, <1>2, <1>4, AcquiredKeepsVotes
  <1>6. /\ tables' \in Tables /\ tables'.current = t.current
        /\ tables'.byLedger = t.byLedger /\ tables'.enforcers = t.enforcers
    BY <1>5 DEF VotesKept, SameRecords
  <1>7. TrieExact(tables')
    BY <1>3, <1>5 DEF Flushed, VotesKept, ServerInv
  <1>8. \A n \in Nodes : tables'.current[n] \in {tables.current[n], None}
    BY <1>3, <1>6 DEF Flushed
  <1>9. ASSUME NEW n \in Nodes, Tracked(tables, n) PROVE Tracked(tables', n)
    <2>1. Tracked(t, n)
      <3>1. CASE n \in S
        <4>1. t.current[n] = None /\ Awaited(t, n) = Awaited(tables, n) \ {tables.current[n].ledger}
          BY <1>3, <3>1 DEF Flushed
        <4>2. Awaited(tables, n) \subseteq {tables.current[n].ledger}
          BY <1>9 DEF Tracked
        <4> QED
          BY <4>1, <4>2 DEF Tracked
      <3>2. CASE n \notin S
        <4>1. /\ t.current[n] = tables.current[n] /\ Awaited(t, n) = Awaited(tables, n)
              /\ t.last[n] = tables.last[n]
          BY <1>3, <3>2 DEF Flushed
        <4> QED
          BY <1>9, <4>1 DEF Tracked
      <3> QED
        BY <3>1, <3>2
    <2> QED
      BY <1>5, <2>1 DEF VotesKept
  <1>10. VotesInv'
    BY <1>1, <1>8, <1>9 DEF ServerInv, VotesInv, OwnVotes, trust
  <1>11. CountsOnce(tables, now)'
    <2>1. tables'.byLedger = tables.byLedger /\ tables'.enforcers = tables.enforcers
      BY <1>3, <1>6 DEF Flushed
    <2> QED
      BY <1>1, <2>1 DEF ServerInv, CountsOnce, Enforced, Once
  <1> QED
    BY <1>1, <1>6, <1>7, <1>10, <1>11 DEF ServerInv, ServerTyped, trust, signer

\* The validator list changes; what the container knows stays.
LEMMA UpdateTrustedServer == ASSUME ServerInv, UpdateTrusted PROVE ServerInv'
  <1>1. PICK list \in Listed : /\ unl' = list /\ untold' = (list \ unl) \cup (unl \ list)
                               /\ changed' = changed \cup untold'
                               /\ UNCHANGED <<now, tables, have, signer>>
    BY DEF UpdateTrusted
  <1>2. list \subseteq Nodes /\ unl \subseteq Nodes
    BY ServerAssumption DEF ServerInv, ServerTyped
  <1>3. ServerTyped'
    BY <1>1, <1>2 DEF ServerInv, ServerTyped, signer
  <1>4. \A n \in Nodes \ changed' : n \in Nodes \ changed /\ (n \in unl' <=> n \in unl)
    BY <1>1
  <1>5. VotesInv'
    BY <1>1, <1>4 DEF ServerInv, VotesInv
  <1> QED
    BY <1>1, <1>3, <1>5 DEF ServerInv, signer

\* The container is told who joined and who left the list.
LEMMA TrustChangedServer == ASSUME ServerInv, TrustChanged PROVE ServerInv'
  <1>1. /\ tables' \in trustChanged(tables, untold, unl, have) /\ untold' = {}
        /\ UNCHANGED <<now, have, unl, changed, signer>>
    BY DEF TrustChanged
  <1>2. tables \in Tables /\ have \in SUBSET Ledgers /\ untold \in SUBSET Nodes
        /\ untold \subseteq changed
    BY DEF ServerInv, ServerTyped
  <1>3. Retrusted(tables, untold, tables')
    BY <1>1, <1>2, TrustChangedEffect
  <1>4. tables' \in Tables /\ TrieExact(tables')
    BY <1>3 DEF Retrusted, ServerInv
  <1>5. VotesInv'
    BY <1>1, <1>2, <1>3 DEF Retrusted, ServerInv, VotesInv
  <1>6. CountsOnce(tables, now)'
    <2>1. tables'.enforcers = tables.enforcers /\ SeenSame(tables, tables')
      BY <1>3 DEF Retrusted
    <2>2. \A l \in Ledgers, n \in Nodes :
            LET a == tables.byLedger[l].of[n]
                b == tables'.byLedger[l].of[n]
            IN  b # None => a # None /\ b.seen = a.seen
      BY <2>1 DEF SeenSame
    <2>3. CountsOnce(tables', now)
      BY <2>1, <2>2, FewerCounted DEF ServerInv
    <2> QED
      BY <1>1, <2>3
  <1> QED
    BY <1>1, <1>4, <1>5, <1>6 DEF ServerInv, ServerTyped, signer

\* A set that nobody has used is dropped.
LEMMA ExpireServer == ASSUME ServerInv, Expire PROVE ServerInv'
  <1>1. PICK l \in Ledgers : tables' = [tables EXCEPT !.byLedger[l] = EmptySet]
    BY DEF Expire, expireLedger
  <1>2. UNCHANGED <<now, have, trust, signer>>
    BY DEF Expire
  <1>3. tables \in Tables
    BY DEF ServerInv, ServerTyped
  <1>4. /\ tables'.current = tables.current /\ tables'.enforcers = tables.enforcers
        /\ tables'.acquiring = tables.acquiring /\ tables'.last = tables.last
        /\ tables'.trie = tables.trie
        /\ tables'.byLedger = [tables.byLedger EXCEPT ![l] = EmptySet]
    BY <1>1, <1>3 DEF Tables
  <1>5. tables' \in Tables
    <2>1. None \in Entry
      BY DEF Entry
    <2>2. EmptySet \in LedgerSet
      BY <2>1 DEF EmptySet, LedgerSet
    <2> HIDE DEF EmptySet
    <2> QED
      BY <1>1, <1>3, <2>2 DEF Tables
  <1>6. TrieExact(tables')
    BY <1>4 DEF ServerInv, TrieExact
  <1>7. VotesInv'
    BY <1>2, <1>4 DEF ServerInv, VotesInv, OwnVotes, Tracked, Awaited, trust
  <1>8. CountsOnce(tables, now)'
    <2>1. ASSUME NEW m \in Ledgers, NEW n \in Nodes
          PROVE  tables'.byLedger[m].of[n] \in {tables.byLedger[m].of[n], None}
      <3>1. tables.byLedger \in [Ledgers -> LedgerSet]
        BY <1>3, TablesFields
      <3>2. tables'.byLedger[m] = IF m = l THEN EmptySet ELSE tables.byLedger[m]
        BY <1>4, <3>1
      <3>3. EmptySet.of[n] = None
        BY DEF EmptySet
      <3> QED
        BY <3>2, <3>3
    <2>2. \A m \in Ledgers, n \in Nodes :
            LET a == tables.byLedger[m].of[n]
                b == tables'.byLedger[m].of[n]
            IN  b # None => a # None /\ b.seen = a.seen
      BY <2>1
    <2>3. tables'.enforcers = tables.enforcers /\ CountsOnce(tables, now)
      BY <1>4 DEF ServerInv
    <2>4. CountsOnce(tables', now)
      BY <2>2, <2>3, FewerCounted
    <2> QED
      BY <1>2, <2>4
  <1> QED
    BY <1>2, <1>5, <1>6, <1>7, <1>8 DEF ServerInv, ServerTyped, trust, signer

\* Time passes, and a ledger arrives.
LEMMA TickServer ==
    ASSUME ServerInv, Tick \/ \E l \in Ledgers : LedgerArrives(l)
    PROVE  ServerInv'
  <1>1. UNCHANGED <<tables, trust, signer>> /\ now' \in {now, now + 1} /\ now' \in 1 .. MaxTime
        /\ have' \in SUBSET Ledgers
    BY ServerAssumption DEF Tick, LedgerArrives, ServerInv, ServerTyped
  <1>2. ServerTyped'
    BY <1>1 DEF ServerInv, ServerTyped, trust, signer
  <1>3. Enforced(tables, now')
    <2>1. ASSUME NEW n \in Nodes PROVE tables.enforcers[n].when <= now'
      <3>1. tables.enforcers[n] \in Enforcer
        BY TablesFields DEF ServerInv, ServerTyped
      <3>2. tables.enforcers[n].when \in Nat /\ now \in Nat
            /\ tables.enforcers[n].when <= now
        BY <3>1 DEF Enforcer, ServerInv, ServerTyped, CountsOnce, Enforced
      <3> QED
        BY <1>1, <3>2
    <2> QED
      BY <2>1 DEF Enforced, CountsOnce, ServerInv
  <1>4. CountsOnce(tables, now)'
    BY <1>1, <1>3 DEF ServerInv, CountsOnce
  <1> QED
    BY <1>1, <1>2, <1>4 DEF ServerInv, VotesInv, trust, signer

\* A crash and restart.
LEMMA RestartServer == ASSUME ServerInv, Restart PROVE ServerInv'
  <1>1. now' \in 1 .. MaxTime /\ boot' = boot + 1 /\ tables' = EmptyTables /\ changed' = {}
        /\ local' = [seq |-> 0, when |-> 0]
    BY ServerAssumption DEF Restart, ServerInv, ServerTyped, NewEnforcer
  <1>2. ServerTyped'
    BY <1>1, EmptyTablesAre DEF Restart, ServerInv, ServerTyped, Enforcer
  <1>3. TrieExact(tables)' /\ VotesInv' /\ CountsOnce(tables, now)'
    BY <1>1, EmptyTablesAre DEF VotesInv
  <1> QED
    BY <1>2, <1>3 DEF ServerInv

\* Every step keeps the invariant.
LEMMA NextServer == ServerInv /\ [Next]_vars => ServerInv'
  <1> SUFFICES ASSUME ServerInv, [Next]_vars PROVE ServerInv'
    OBVIOUS
  <1>1. CASE UNCHANGED vars
    BY <1>1 DEF vars, ServerInv, ServerTyped, VotesInv
  <1>2. CASE Next
    BY <1>2, ReceiveServer, ValidateServer, UseTrieServer, UpdateTrustedServer,
       TrustChangedServer, ExpireServer, TickServer, RestartServer DEF Next
  <1> QED
    BY <1>1, <1>2

LEMMA ServerAlways == Spec => []ServerInv
  BY InitServer, NextServer, PTL DEF Spec

-----------------------------------------------------------------------------
(* Theorems                                                                *)

\* The support of a ledger in the trie, an unsigned number in the code
\* (LedgerTrie), never goes below zero or above the number of validators.
THEOREM ValidationsTypeCorrect == Spec => []TypeOK
  <1>1. ServerInv => TypeOK
    <2> SUFFICES ASSUME ServerInv PROVE tables.trie \in [Ledgers -> 0 .. Cardinality(Nodes)]
      BY DEF ServerInv, ServerTyped, TypeOK
    <2>1. tables.trie \in [Ledgers -> Int]
      BY TablesFields DEF ServerInv, ServerTyped
    <2>2. ASSUME NEW l \in Ledgers PROVE tables.trie[l] \in 0 .. Cardinality(Nodes)
      <3>1. tables.trie[l] = Cardinality(Supporters(tables.last, l))
        BY DEF ServerInv, TrieExact
      <3>2. Supporters(tables.last, l) \subseteq Nodes
        BY DEF Supporters
      <3>3. /\ IsFiniteSet(Supporters(tables.last, l))
            /\ Cardinality(Supporters(tables.last, l)) <= Cardinality(Nodes)
        BY <3>2, TablesAssumption, FS_Subset
      <3>4. Cardinality(Supporters(tables.last, l)) \in Nat /\ Cardinality(Nodes) \in Nat
        BY <3>3, TablesAssumption, FS_CardinalityType
      <3> QED
        BY <3>1, <3>3, <3>4
    <2> QED
      BY <2>1, <2>2
  <1> QED
    BY <1>1, ServerAlways, PTL

\* However validations are replaced, acquired, flushed as stale or distrusted,
\* and in whatever order the code walks its hash maps, the trie counts each
\* node for the one ledger it supports and for no other (Validations::updateTrie,
\* removeTrie, checkAcquired, trustChanged).
THEOREM SupportAlwaysCounted == Spec => []TrieMatchesLast
  <1>1. ServerInv => TrieMatchesLast
    BY DEF ServerInv, TrieExact, Supporters, TrieMatchesLast
  <1> QED
    BY <1>1, ServerAlways, PTL

\* No interleaving of arriving validations, fetched ledgers, stale ones, list
\* changes of other nodes and restarts loses the vote of a node whose trust has
\* not changed (Validations::add, updateTrie, acquiring_).
THEOREM VotesAlwaysTracked == Spec => []VoteTracked
  <1>1. ServerInv => VoteTracked
    BY DEF ServerInv, VotesInv, Tracked, Awaited, VoteTracked
  <1> QED
    BY <1>1, ServerAlways, PTL

\* Within the expiry time a node counts for one ledger of a sequence only: the
\* enforcer that add() asks before it stores a validation outlives the sets
\* that count them (SeqEnforcer::operator(), Validations::add).
THEOREM AlwaysCountedOnce == Spec => []CountedOnce
  <1>1. ServerInv => CountedOnce
    BY DEF ServerInv, CountsOnce, Once, CountedOnce
  <1> QED
    BY <1>1, ServerAlways, PTL

\* When the container has heard of a changed list (beginConsensus, trustChanged),
\* the newest validation of a node that has joined counts or waits for its
\* ledger, and that of a node that has left does neither, whatever happened in
\* between and in whatever order the walk takes the nodes.
THEOREM TrustAlwaysApplied == Spec => TrustIsApplied
  <1> DEFINE Heard ==
               untold # {} /\ untold' = {} =>
                 \A n \in untold :
                   LET l == tables'.current[n].ledger
                   IN  l # NoLedger =>
                         (n \in unl' <=> tables'.last[n] = l \/ n \in tables'.acquiring[l])
  <1>1. ServerInv /\ [Next]_vars => [Heard]_vars
    <2> SUFFICES ASSUME ServerInv, Next, untold # {}, untold' = {}, NEW n \in untold,
                        tables'.current[n].ledger # NoLedger
                 PROVE  LET l == tables'.current[n].ledger
                        IN  n \in unl' <=> tables'.last[n] = l \/ n \in tables'.acquiring[l]
      BY DEF Heard
    <2>1. TrustChanged \/ Restart
      BY DEF Next, Receive, RecvValidation, Validate, LedgerArrives, UseTrie, UpdateTrusted,
             Expire, Tick, trust
    <2>2. /\ tables \in Tables /\ have \in SUBSET Ledgers /\ untold \in SUBSET Nodes
          /\ OwnVotes(tables)
      BY DEF ServerInv, ServerTyped, VotesInv
    <2>3. CASE Restart
      BY <2>2, <2>3 DEF Restart, EmptyTables, None
    <2>4. CASE TrustChanged
      <3>1. tables' \in trustChanged(tables, untold, unl, have) /\ unl' = unl
        BY <2>4 DEF TrustChanged
      <3>2. Applied(tables', n, n \in unl, have)
        BY <2>2, <3>1, TrustChangedEffect
      <3>3. tables'.current[n] # None
        BY DEF None
      <3> QED
        BY <3>1, <3>2, <3>3 DEF Applied
    <2> QED
      BY <2>1, <2>3, <2>4
  <1>2. Spec => [][Heard]_vars
    BY <1>1, ServerAlways, PTL DEF Spec
  <1> QED
    BY <1>2 DEF TrustIsApplied

=============================================================================
