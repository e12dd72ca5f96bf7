-------------------------- MODULE ValidatorScoring --------------------------
(***************************************************************************)
(* The scores that ledger building writes into the bonds                   *)
(* (xrpld/app/ledger/detail/ValidatorScoring.cpp), on several servers.     *)
(*                                                                         *)
(* Each bonded validator signs the ledgers of a window.  Its validations   *)
(* travel to every server on their own: late, twice, out of order or never *)
(* before the server builds the flag ledger that closes the window.  A     *)
(* server scores the validators from its own container of validations      *)
(* (ValidationTables) and writes the result into the ledger it builds.     *)
(* RewardEpoch takes over from there: its raw scores are rawScore here.    *)
(*                                                                         *)
(* The range that scoring asks the container to keep covers the window, so *)
(* no set of the window expires.                                           *)
(***************************************************************************)
EXTENDS ValidationTables

CONSTANTS Servers,      \* the servers that build the flag ledger
          Previous,     \* each bond's composite from the window before
          SlashMult,    \* each bond's slash multiplier
          MaxTime       \* bound on the clock

\* Ledgers is the canonical chain here: one ledger per sequence.

BpsDenom == 10000

VARIABLES now,     \* the servers' clocks, in seconds
          sent,    \* validations signed
          tables,  \* each server's container of validations
          first,   \* each server's bySequence_
          built    \* the composites in the flag ledger each server has built

vars == <<now, sent, tables, first, built>>

Unbuilt == [n \in Nodes |-> -1]
NothingFirst == [s \in Seqs |-> [n \in Nodes |-> None]]

Init ==
    /\ now = 1
    /\ sent = {}
    /\ tables = [x \in Servers |-> EmptyTables]
    /\ first = [x \in Servers |-> NothingFirst]
    /\ built = [x \in Servers |-> Unbuilt]

-----------------------------------------------------------------------------
(* The signals.  A window is the set Seqs; its ledgers are Ledgers.        *)

latencyBps(delay) ==
    LET penalty == 100 * delay IN IF penalty >= BpsDenom THEN 0 ELSE BpsDenom - penalty

\* The longest run of ledgers of the window that n gave no validation for
MaxGap(present) ==
    LET gap(i, j) == \A s \in Seqs : i <= s /\ s <= j => ~present[s]
    IN  Max({0} \cup {j - i + 1 : <<i, j>> \in
                        {p \in Seqs \X Seqs : p[1] <= p[2] /\ gap(p[1], p[2])}})

consistencyFromPresence(present) ==
    LET pen == (MaxGap(present) * BpsDenom) \div Cardinality(Seqs)
    IN  IF pen >= BpsDenom THEN 0 ELSE BpsDenom - pen

\* getFullForLedger: the accepted validations of a ledger, and the earliest
correctVals(x, l) == {tables[x].byLedger[l].of[n] : n \in Nodes} \ {None}
earliest(x, l) == Min({v.sign : v \in correctVals(x, l)})

\* WindowStats of one validator
presence(x, n) == [s \in Seqs |-> first[x][s][n] # None]
correct(x, n) == {l \in Ledgers : tables[x].byLedger[l].of[n] # None}

latencySum(x, n) ==
    MapThenSumSet(LAMBDA l : latencyBps(tables[x].byLedger[l].of[n].sign - earliest(x, l)),
                  correct(x, n))

rawScore(x, n) ==
    LET present == presence(x, n)
        cast    == Cardinality({s \in Seqs : present[s]})
        right   == Cardinality(correct(x, n))
        uptime  == (cast * BpsDenom) \div Cardinality(Seqs)
        voteAcc == IF cast = 0 THEN 0 ELSE Min({(right * BpsDenom) \div cast, BpsDenom})
        latency == IF right = 0 THEN 0 ELSE latencySum(x, n) \div right
    IN  (uptime * 40 + voteAcc * 30 + latency * 15 + consistencyFromPresence(present) * 10)
          \div 100

emaComposite(raw, previous) ==
    IF previous = 0 THEN raw ELSE (raw * 3500 + previous * (BpsDenom - 3500)) \div BpsDenom

scoreBond(x, n) == emaComposite((rawScore(x, n) * SlashMult[n]) \div BpsDenom, Previous[n])

-----------------------------------------------------------------------------
(* The network                                                             *)

\* An honest validator signs a ledger once, later than those before it
Sign(n, l) ==
    /\ \A v \in sent : v.node = n => SeqOf[v.ledger] < SeqOf[l] /\ v.sign < now
    /\ sent' = sent \cup {Validation(n, l, now, now, FALSE)}
    /\ UNCHANGED <<now, tables, first, built>>

\* bySequence_ keeps a node's first validation for a sequence, whichever the
\* enforcer accepts; scoring asks only whether there is one.
Deliver(x, v) ==
    /\ built[x] = Unbuilt
    /\ isCurrent(v, now)
    /\ first' = [first EXCEPT ![x][SeqOf[v.ledger]][v.node] = IF @ = None THEN v ELSE @]
    /\ \E t \in add(tables[x], v, now, Ledgers) : tables' = [tables EXCEPT ![x] = t]
    /\ UNCHANGED <<now, sent, built>>

\* A server that restarts has an empty container
Restart(x) ==
    /\ built[x] = Unbuilt
    /\ tables' = [tables EXCEPT ![x] = EmptyTables]
    /\ first' = [first EXCEPT ![x] = NothingFirst]
    /\ UNCHANGED <<now, sent, built>>

applyValidatorScoring(x) ==
    /\ built[x] = Unbuilt
    /\ built' = [built EXCEPT ![x] = [n \in Nodes |-> scoreBond(x, n)]]
    /\ UNCHANGED <<now, sent, tables, first>>

Tick ==
    /\ now < MaxTime
    /\ now' = now + 1
    /\ UNCHANGED <<sent, tables, first, built>>

Next ==
    \/ \E n \in Nodes, l \in Ledgers : Sign(n, l)
    \/ \E x \in Servers : \/ \E v \in sent : Deliver(x, v)
                          \/ Restart(x)
                          \/ applyValidatorScoring(x)
    \/ Tick

Spec == Init /\ [][Next]_vars

-----------------------------------------------------------------------------
(* Properties                                                              *)

\* The server has been reached by every validation signed
HeardAll(x) == \A v \in sent : first[x][SeqOf[v.ledger]][v.node] # None

\* README.md: "Validator rewards use deterministic on-ledger metrics only".
\* Servers that build the same flag ledger write the same composites into it,
\* at least when every validation has reached both of them in time.
ScoresAgree ==
    \A x, y \in Servers :
        /\ built[x] # Unbuilt /\ HeardAll(x)
        /\ built[y] # Unbuilt /\ HeardAll(y)
        => built[x] = built[y]

=============================================================================
