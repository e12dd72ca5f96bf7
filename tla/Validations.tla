----------------------------- MODULE Validations -----------------------------
(***************************************************************************)
(* One server among the validators: the validations it receives and keeps  *)
(* (ValidationTables), the trusted list that changes under them, and the   *)
(* validations it signs itself, through crashes and restarts.              *)
(*                                                                         *)
(* Every method of the container runs under its mutex and is one step.     *)
(* Steps of different threads interleave: the trust of a signer is read    *)
(* before the container is locked, the list of trusted keys changes before *)
(* the container is told (NetworkOPs::beginConsensus), and a ledger that a *)
(* validation names is fetched by another job.  A crash loses everything   *)
(* but what is written to the database.  Which rounds of consensus may     *)
(* sign is left open: a round may sign any ledger that the enforcer lets.  *)
(***************************************************************************)
EXTENDS ValidationTables

CONSTANTS Self,         \* the server's own node
          Listed,       \* the sets of nodes the trusted list may name
          Delays,       \* how old a validation may be when it arrives
          MaxTime,      \* bound on the clock
          MaxRestarts   \* bound on the crashes

ASSUME ServerAssumption ==
    /\ Self \in Nodes /\ Listed \subseteq SUBSET Nodes
    /\ Delays \subseteq Nat
    /\ MaxTime \in Nat \ {0} /\ MaxRestarts \in Nat

VARIABLES now,       \* the server's clock
          tables,    \* the container of validations
          have,      \* ledgers the server can read
          unl,       \* nodes trusted by the validator list
          untold,    \* nodes whose change of trust the container has not seen
          changed,   \* history: nodes whose trust has changed in this run
          local,     \* the enforcer of the server's own signatures
          boot       \* number of restarts

vars == <<now, tables, have, unl, untold, changed, local, boot>>

trust == <<unl, untold, changed>>
signer == <<local, boot>>

NewEnforcer == [seq |-> 0, when |-> 0]

Init ==
    /\ now = 1
    /\ tables = EmptyTables
    /\ have = {}
    /\ unl \in Listed
    /\ untold = {} /\ changed = {}
    /\ local = NewEnforcer
    /\ boot = 0

\* Whether a validation of n handled now may carry the trusted flag: the
\* signer is trusted, or was when a peer's message was queued.
MayBeTrusted(n) == {n \in unl} \cup (IF n \in changed THEN {TRUE} ELSE {})

\* recvValidation and handleNewValidation of a validation of another node; one
\* that add() refuses changes nothing and is not a step.
RecvValidation(n, l, sign) ==
    /\ n # Self
    /\ \E trusted \in MayBeTrusted(n) :
         LET v == Validation(n, l, sign, now, trusted)
         IN  accepts(tables, v, now) /\ tables' \in add(tables, v, now, have)
    /\ UNCHANGED <<now, have, trust, signer>>

canValidateSeq(s) == enforce(local, now, s)

\* doAccept and validate: a round that has built l signs it if the local
\* enforcer lets it.  A round lasts longer than the clock's unit, so signing
\* times increase.
Validate(l) ==
    LET s == SeqOf[l]
    IN  /\ l \in have
        /\ now > local.when
        /\ canValidateSeq(s)
        /\ local' = [seq |-> s, when |-> now]
        /\ tables' \in add(tables, Validation(Self, l, now, now, Self \in unl), now, have)
        /\ UNCHANGED <<now, have, trust, boot>>

\* A ledger is built here or arrives from a peer
LedgerArrives(l) ==
    /\ l \notin have
    /\ have' = have \cup {l}
    /\ UNCHANGED <<now, tables, trust, signer>>

\* Any use of the trie: the preferred ledger of a round, counting proposers
UseTrie ==
    /\ tables' \in withTrie(tables, now, have)
    /\ UNCHANGED <<now, have, trust, signer>>

\* updateTrusted: the validator list changes first ...
UpdateTrusted ==
    \E list \in Listed :
      /\ untold = {}
      /\ list # unl
      /\ unl' = list
      /\ untold' = (list \ unl) \cup (unl \ list)
      /\ changed' = changed \cup untold'
      /\ UNCHANGED <<now, tables, have, signer>>

\* ... and the container is told of the changes
TrustChanged ==
    /\ untold # {}
    /\ tables' \in trustChanged(tables, untold, unl, have)
    /\ untold' = {}
    /\ UNCHANGED <<now, have, unl, changed, signer>>

\* A sweep drops a set that nobody has used for the time of expiry
Expire ==
    /\ \E l \in Ledgers : /\ Expirable(tables.byLedger[l], now)
                           /\ tables' = expireLedger(tables, l)
    /\ UNCHANGED <<now, have, trust, signer>>

Tick ==
    /\ now < MaxTime
    /\ now' = now + 1
    /\ UNCHANGED <<tables, have, trust, signer>>

\* A crash and restart.  The trusted list is loaded afresh, before any
\* validation is received.  Starting takes longer than a round.
Restart ==
    /\ boot < MaxRestarts /\ now < MaxTime
    /\ boot' = boot + 1
    /\ tables' = EmptyTables
    /\ have' = {}
    /\ unl' \in Listed /\ untold' = {} /\ changed' = {}
    /\ local' = NewEnforcer
    /\ now' = now + 1

Receive ==
    \E n \in Nodes, l \in Ledgers, d \in Delays : d <= now /\ RecvValidation(n, l, now - d)

Next ==
    \/ Receive
    \/ \E l \in Ledgers : Validate(l) \/ LedgerArrives(l)
    \/ UseTrie \/ UpdateTrusted \/ TrustChanged \/ Expire \/ Tick \/ Restart

Spec == Init /\ [][Next]_vars

-----------------------------------------------------------------------------
\* The support of a ledger in the trie, an unsigned number in the code, never
\* goes below zero or above the number of nodes.
TypeOK ==
    /\ now \in 1 .. MaxTime
    /\ have \subseteq Ledgers
    /\ unl \in Listed /\ untold \subseteq changed /\ changed \subseteq Nodes
    /\ tables.trie \in [Ledgers -> 0 .. Cardinality(Nodes)]

(***************************************************************************)
(* The trie's support of a ledger is the number of nodes that support it:  *)
(* through replaced, acquired, stale and distrusted validations a vote is  *)
(* never counted twice and never outlives the record of who cast it.       *)
(***************************************************************************)
TrieMatchesLast ==
    \A l \in Ledgers :
        tables.trie[l] = Cardinality({n \in Nodes : tables.last[n] = l})

(***************************************************************************)
(* The vote of a node whose trust has not changed is never lost: its       *)
(* current trusted validation is in the trie, or its ledger is still being *)
(* acquired on its behalf, and no other ledger is.                         *)
(***************************************************************************)
VoteTracked ==
    \A n \in Nodes \ changed :
        LET v == tables.current[n]
            awaited == {l \in Ledgers : n \in tables.acquiring[l]}
        IN  IF v # None /\ v.trusted
              THEN awaited = {v.ledger} \/ (awaited = {} /\ tables.last[n] = v.ledger)
              ELSE awaited = {}

(***************************************************************************)
(* A node counts for two ledgers of one sequence only if it was accepted   *)
(* for them more than the expiry time apart: within that time a validator  *)
(* that signs twice helps one of the two ledgers to a quorum at most.      *)
(***************************************************************************)
CountedOnce ==
    \A n \in Nodes, l, m \in Ledgers :
        LET a == tables.byLedger[l].of[n]
            b == tables.byLedger[m].of[n]
        IN  l # m /\ SeqOf[l] = SeqOf[m] /\ a # None /\ b # None =>
              a.seen - b.seen > SET_EXPIRES \/ b.seen - a.seen > SET_EXPIRES

(***************************************************************************)
(* Once trustChanged() has run, the newest validation of a node counts in  *)
(* the trie, or waits for its ledger to count, if and only if the list     *)
(* names the node: whatever was received, fetched or dropped as stale      *)
(* between the change of the list and its arrival in the container.        *)
(***************************************************************************)
TrustIsApplied ==
    [][untold # {} /\ untold' = {} =>
         \A n \in untold :
           LET l == tables'.current[n].ledger
           IN  l # NoLedger =>
                 (n \in unl' <=> tables'.last[n] = l \/ n \in tables'.acquiring[l])]_vars

=============================================================================
