-------------------------- MODULE ValidationTables --------------------------
(***************************************************************************)
(* The container of received validations, xrpld/consensus/Validations.h:   *)
(* what a server knows of what the validators of the network have signed.  *)
(* One record stands for one instance of the class, and every method that  *)
(* changes it is an operator on that record:                               *)
(*                                                                         *)
(*   current     each node's newest validation (current_)                  *)
(*   byLedger    the accepted validations for a ledger, and since when the *)
(*               set exists (byLedger_)                                    *)
(*   enforcers   the largest unexpired sequence of each node               *)
(*   acquiring   the nodes whose ledger has not been fetched yet           *)
(*   last, trie  the ledger each node supports, and the tip support of     *)
(*               every ledger in the trie of branches                      *)
(*                                                                         *)
(* A ledger identifier carries its sequence (SeqOf).  All validations are  *)
(* full ones; cookies, load fees and the amendment votes they carry do not *)
(* enter these tables' decisions.  acquiring_ is a hash map, walked in an  *)
(* order the code does not fix, so the operators that walk it return the   *)
(* set of containers the walk can end in.  An unused set expires; reading  *)
(* it and the range scoring asks to keep only put that off, so a set may   *)
(* be dropped at any time from SET_EXPIRES after its creation on.          *)
(***************************************************************************)
EXTENDS Integers, FiniteSetsExt

CONSTANTS Nodes,          \* the validators heard of
          Ledgers,        \* ledger hashes
          SeqOf,          \* the sequence number each hash is for
          CURRENT_EARLY,  \* how old a validation may be when it is used
          CURRENT_WALL,   \* how far ahead of this server's clock it may be
          SET_EXPIRES     \* how long an unused set and a sequence are kept

\* Absence of a ledger and of a validation
NoLedger == "none"
None == [ledger |-> NoLedger]

ASSUME TablesAssumption ==
    /\ IsFiniteSet(Nodes)
    /\ SeqOf \in [Ledgers -> Nat \ {0}] /\ NoLedger \notin Ledgers
    /\ {CURRENT_EARLY, CURRENT_WALL, SET_EXPIRES} \subseteq Nat

Seqs == {SeqOf[l] : l \in Ledgers}

Validation(n, l, sign, seen, trusted) ==
    [node |-> n, ledger |-> l, sign |-> sign, seen |-> seen, trusted |-> trusted]

EmptySet == [since |-> 0, of |-> [n \in Nodes |-> None]]

EmptyTables ==
    [current    |-> [n \in Nodes |-> None],
     byLedger   |-> [l \in Ledgers |-> EmptySet],
     enforcers  |-> [n \in Nodes |-> [seq |-> 0, when |-> 0]],
     acquiring  |-> [l \in Ledgers |-> {}],
     last       |-> [n \in Nodes |-> NoLedger],
     trie       |-> [l \in Ledgers |-> 0]]

(***************************************************************************)
(* Time.  A validation is first seen when it arrives, so the test on the   *)
(* time it was seen (CURRENT_LOCAL ahead of now) always succeeds.          *)
(***************************************************************************)
isCurrent(v, now) ==
    /\ v.sign > now - CURRENT_EARLY
    /\ v.sign < now + CURRENT_WALL

\* SeqEnforcer::operator(): the largest sequence still in force, ...
largest(e, now) == IF now > e.when + SET_EXPIRES THEN 0 ELSE e.seq

\* Mutant: the enforcer accepts the sequence it has just seen
enforceRepeats(e, now, s) == s >= largest(e, now)

\* ... which a new validation has to exceed
enforce(e, now, s) == s > largest(e, now)

(***************************************************************************)
(* The trie of supported branches.                                         *)
(***************************************************************************)
\* Mutant: the node's earlier support stays in the trie
updateTrieAdds(t, n, l) ==
    [t EXCEPT !.last[n] = l, !.trie[l] = @ + 1]

\* The support of a ledger moves before the new one is recorded
updateTrie(t, n, l) ==
    LET old == t.last[n]
        without == IF old = NoLedger THEN t.trie ELSE [t.trie EXCEPT ![old] = @ - 1]
    IN  [t EXCEPT !.last[n] = l, !.trie = [without EXCEPT ![l] = @ + 1]]

\* Mutant: the support goes although the node's last ledger is an earlier one
removeTrieAlways(t, n) ==
    LET l == t.current[n].ledger
    IN  [t EXCEPT !.acquiring[l] = @ \ {n}, !.last[n] = NoLedger, !.trie[l] = @ - 1]

removeTrie(t, n) ==
    LET l == t.current[n].ledger
        supports == t.last[n] = l
    IN  [t EXCEPT !.acquiring[l] = @ \ {n},
                  !.last[n] = IF supports THEN NoLedger ELSE @,
                  !.trie[l] = IF supports THEN @ - 1 ELSE @]

\* Mutant: the fetched ledgers leave the table without gaining support
checkAcquiredForgets(t, have) ==
    {[t EXCEPT !.acquiring = [l \in Ledgers |-> IF l \in have THEN {} ELSE @[l]]]}

\* Every fetched ledger gets the support that was waiting for it; a node
\* waiting for several of them ends with the one the walk visits last.
checkAcquired(t, have) ==
    LET waiting == {n \in Nodes : \E l \in have : n \in t.acquiring[l]}
        visited == {f \in [waiting -> have] : \A n \in waiting : n \in t.acquiring[f[n]]}
        cleared == [t EXCEPT !.acquiring =
                       [l \in Ledgers |-> IF l \in have THEN {} ELSE @[l]]]
    IN  {FoldSet(LAMBDA n, u : updateTrie(u, n, f[n]), cleared, waiting) : f \in visited}

\* updateTrie of a validation: the ledger waited for before is given up, and
\* the new one is supported at once or once it is fetched.
voteTrie(t, have, v, prior) ==
    LET released == IF prior = NoLedger THEN t
                    ELSE [t EXCEPT !.acquiring[prior] = @ \ {v.node}]
    IN  {IF v.ledger \in have
           THEN updateTrie(u, v.node, v.ledger)
           ELSE [u EXCEPT !.acquiring[v.ledger] = @ \cup {v.node}] :
         u \in checkAcquired(released, have)}

\* current(): stale validations are dropped before anything is read
flushStale(t, now) ==
    LET stale == {n \in Nodes : t.current[n] # None /\ ~isCurrent(t.current[n], now)}
    IN  FoldSet(LAMBDA n, u : [removeTrie(u, n) EXCEPT !.current[n] = None], t, stale)

withTrie(t, now, have) == checkAcquired(flushStale(t, now), have)

(***************************************************************************)
(* add().  The enforcer decides whether a validation enters the set for    *)
(* its ledger, and a newer signing time whether it becomes the node's      *)
(* current one.  (The sets by sequence, which only scoring reads, are in   *)
(* ValidatorScoring.)                                                      *)
(***************************************************************************)
Store(set, v, now) ==
    [since |-> IF set = EmptySet THEN now ELSE set.since,
     of    |-> [set.of EXCEPT ![v.node] = v]]

accepts(t, v, now) ==
    /\ isCurrent(v, now)
    /\ enforce(t.enforcers[v.node], now, SeqOf[v.ledger])

accept(t, v, now) ==
    [t EXCEPT !.enforcers[v.node] = [seq |-> SeqOf[v.ledger], when |-> now],
              !.byLedger[v.ledger] = Store(@, v, now)]

add(t, v, now, have) ==
    LET taken == accept(t, v, now)
        old == t.current[v.node]
        newest == [taken EXCEPT !.current[v.node] = v]
    IN  CASE ~accepts(t, v, now) -> {t}
          [] accepts(t, v, now) /\ old # None /\ v.sign <= old.sign -> {taken}
          [] OTHER -> IF v.trusted THEN voteTrie(newest, have, v, old.ledger) ELSE {newest}

(***************************************************************************)
(* trustChanged() of the nodes that have joined or left the trusted list,  *)
(* walked in the order of a hash map. The flags of the current validations *)
(* and of the sets by ledger change; the sets by sequence keep the flag    *)
(* they were stored with.                                                  *)
(***************************************************************************)
flagged(v, trusted) == IF v = None THEN v ELSE [v EXCEPT !.trusted = trusted]

\* Mutant: the support of a node that leaves the list stays in the trie
retrustFlags(t, n, trusted, have) ==
    LET u == [t EXCEPT !.current[n] = flagged(@, trusted)]
    IN  IF t.current[n] # None /\ trusted
          THEN voteTrie(u, have, u.current[n], NoLedger) ELSE {u}

retrust(t, n, trusted, have) ==
    LET u == [t EXCEPT
               !.current[n] = flagged(@, trusted),
               !.byLedger = [l \in Ledgers |-> [t.byLedger[l] EXCEPT !.of[n] = flagged(@, trusted)]]]
    IN  CASE t.current[n] = None -> {u}
          [] t.current[n] # None /\ trusted -> voteTrie(u, have, u.current[n], NoLedger)
          [] OTHER -> {removeTrie(u, n)}

trustChanged(t, nodes, trusted, have) ==
    LET walk[done \in SUBSET nodes] ==
          IF done = {} THEN {t}
          ELSE UNION {UNION {retrust(u, n, n \in trusted, have) : u \in walk[done \ {n}]} :
                      n \in done}
    IN  walk[nodes]

(***************************************************************************)
(* expire(): a set of the age of SET_EXPIRES may be dropped.               *)
(***************************************************************************)
Expirable(set, now) == set # EmptySet /\ set.since <= now - SET_EXPIRES

expireLedger(t, l) == [t EXCEPT !.byLedger[l] = EmptySet]

=============================================================================
