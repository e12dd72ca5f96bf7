----------------------------- MODULE Governance -----------------------------
(***************************************************************************)
(* On-chain governance of the burn fraction: GovernanceProposal,           *)
(* GovernanceVote, and the tally at the close of a ledger, which looks     *)
(* only at the proposals that ltREWARD_EPOCH::sfProposals lists.           *)
(* Composed with the bond and reward components, whose scores are the      *)
(* voting weights and whose epochs carry that list.                        *)
(***************************************************************************)
EXTENDS LPRewards

CONSTANTS
    VotingLedgers,     \* kGOVERNANCE_VOTING_LEDGERS
    SupermajorityBps,  \* kGOVERNANCE_SUPERMAJORITY_BPS
    ProposalValues,    \* sfProposalValue of the GovernanceProposal transactions
    MaxU32,            \* largest value of a 32-bit vote counter
    NoProposal, NoParams

VARIABLES
    proposals,         \* ltGOVERNANCE_PROPOSAL objects
    params,            \* sfCurrentBurnBps of ltGOVERNANCE_PARAMS
    unreadable         \* ltREWARD_EPOCH holds an explicitly empty sfProposals

govVars == <<lpVars, proposals, params, unreadable>>

positions == <<shares, tokens, lastClaim, lpPaid, moved>>

Proposal ==
    [owner : Accounts, value : BurnMinBps..BurnMaxBps, expiry : Nat,
     state : {"OPEN", "PASSED", "REJECTED"}, votedFor : Nat, votedAgainst : Nat,
     voters : Seq(Keys)]

ASSUME GovernanceAssumption ==
    /\ VotingLedgers \in Nat /\ SupermajorityBps \in 1..BpsDenom
    /\ ProposalValues \subseteq Nat /\ MaxU32 \in Nat
    /\ NoProposal \notin Proposal /\ NoParams \notin Nat

Exists(p) == proposals[p] # NoProposal
Open(p) == Exists(p) /\ proposals[p].state = "OPEN"

\* A SoeDefault field that is stored with its default value makes applyTemplate
\* throw when the object is read back from a closed ledger. NewProposal stores
\* three of them, so a later ledger can read a proposal only if votes of both
\* kinds were counted in time; in its own ledger it is read as it was made.
Readable(p) ==
    \/ proposals[p].expiry = seq + VotingLedgers
    \/ /\ proposals[p].votedFor > 0
       /\ proposals[p].votedAgainst > 0
       /\ proposals[p].voters # <<>>

-----------------------------------------------------------------------------
(* GovernanceProposal                                                      *)

\* Mutant: no ceiling on the proposed burn fraction.
proposalPreflightUncapped(x) == x >= BurnMinBps

proposalPreflight(x) == x >= BurnMinBps /\ x <= BurnMaxBps

\* The named key must be bonded; whose bond it is, is not looked at.
canPropose(k) == HasStatus(k, "BONDED")

NewProposal(a, x) ==
    [owner |-> a, value |-> x, expiry |-> seq + VotingLedgers, state |-> "OPEN",
     votedFor |-> 0, votedAgainst |-> 0, voters |-> <<>>]

\* The list of open proposals is appended to only when there is an epoch.
withProposal(e, p) ==
    IF e = NoEpoch THEN e ELSE [e EXCEPT !.proposals = Append(@, p)]

proposeApply(v, a, p) ==
    [v EXCEPT !.ownerCount[a] = @ + 1, !.epoch = withProposal(@, p)]

\* A proposal's identity, hashed from account and sequence, is always fresh.
GovernanceProposal(a, k, p, x) ==
    LET v == proposeApply(PayFee(a), a, p)
    IN  /\ ~Exists(p)
        /\ proposalPreflight(x)
        /\ Transact(a, canPropose(k), v, FALSE)
        /\ proposals' = IF Succeeds(a, canPropose(k), v, FALSE)
                        THEN [proposals EXCEPT ![p] = NewProposal(a, x)]
                        ELSE proposals
        /\ UNCHANGED <<signed, claims, paid, positions, params, unreadable>>

-----------------------------------------------------------------------------
(* GovernanceVote                                                          *)

hasVoted(p, k) == k \in Range(proposals[p].voters)

\* Mutant: sfVoterList is not consulted.
canVoteAgain(a, k, p) ==
    HasStatus(k, "BONDED") /\ OwnedBy(k, a) /\ Open(p) /\ seq < proposals[p].expiry

canVote(a, k, p) ==
    /\ HasStatus(k, "BONDED")
    /\ OwnedBy(k, a)
    /\ Open(p)
    /\ seq < proposals[p].expiry
    /\ ~hasVoted(p, k)

AddVote(prev, weight) == Lesser(prev + weight, MaxU32)

CountVote(r, k, yes) ==
    [r EXCEPT
        !.votedFor     = IF yes THEN AddVote(@, bonds[k].composite) ELSE @,
        !.votedAgainst = IF yes THEN @ ELSE AddVote(@, bonds[k].composite),
        !.voters       = Append(@, k)]

\* preclaim looks at the bond, then reads the proposal: if that throws, the
\* transaction is dropped without a fee (tefEXCEPTION).
GovernanceVote(a, k, p, yes) ==
    /\ HasStatus(k, "BONDED") /\ OwnedBy(k, a) /\ Exists(p) => Readable(p)
    /\ Transact(a, canVote(a, k, p), PayFee(a), FALSE)
    /\ proposals' = IF Succeeds(a, canVote(a, k, p), PayFee(a), FALSE)
                    THEN [proposals EXCEPT ![p] = CountVote(@, k, yes)]
                    ELSE proposals
    /\ UNCHANGED <<signed, claims, paid, positions, params, unreadable>>

-----------------------------------------------------------------------------
(* applyGovernanceTally                                                    *)

\* Listed, open and past its voting window at the close of this ledger.
Due(e, p) ==
    /\ e # NoEpoch
    /\ p \in Range(e.proposals)
    /\ Open(p)
    /\ seq >= proposals[p].expiry

Carried(e, p) ==
    /\ e.aggregate > 0
    /\ proposals[p].votedFor * BpsDenom >= e.aggregate * SupermajorityBps

tallied(e) ==
    [p \in Proposals |->
        IF Due(e, p)
        THEN [proposals[p] EXCEPT !.state = IF Carried(e, p) THEN "PASSED"
                                            ELSE "REJECTED"]
        ELSE proposals[p]]

\* Mutant: the value is written whatever the outcome.
ratifiedUncarried(e) ==
    LET due == IF e = NoEpoch THEN {}
               ELSE {i \in DOMAIN e.proposals : Due(e, e.proposals[i])}
    IN  IF due = {} THEN params
        ELSE LET last == CHOOSE i \in due : \A j \in due : j <= i
             IN  Clamp(proposals[e.proposals[last]].value, BurnMinBps, BurnMaxBps)

\* Proposals are tallied in list order, so the last one that passes stays.
ratified(e) ==
    LET won == IF e = NoEpoch THEN {}
               ELSE {i \in DOMAIN e.proposals :
                        Due(e, e.proposals[i]) /\ Carried(e, e.proposals[i])}
    IN  IF won = {} THEN params
        ELSE LET last == CHOOSE i \in won : \A j \in won : j <= i
             IN  Clamp(proposals[e.proposals[last]].value, BurnMinBps, BurnMaxBps)

\* Mutant: the list is never pruned.
prunedNever(e) == e

\* The members of s that are in K, in their order.
remaining(s, K) ==
    LET r[i \in 0..Len(s)] ==
            IF i = 0 THEN <<>>
            ELSE IF s[i] \in K THEN Append(r[i - 1], s[i]) ELSE r[i - 1]
    IN  r[Len(s)]

\* Resolved proposals leave the list.
pruned(e) ==
    IF e = NoEpoch THEN e
    ELSE [e EXCEPT !.proposals =
            remaining(@, {p \in Proposals : Open(p) /\ ~Due(e, p)})]

\* Tally and pruning read every listed proposal; buildLedgerImpl catches nothing.
canTally(e) == e # NoEpoch => \A p \in Range(e.proposals) : Readable(p)

\* Pruning the last proposal stores an explicitly empty list.
emptied(e) == e # NoEpoch /\ e.proposals # <<>> /\ pruned(e).proposals = <<>>

\* An epoch or a listed proposal that cannot be read back stops the ledger here.
CloseGoverned ==
    \E raw \in [Keys -> RawScores] :
        LET e == closedEpoch(VaultSnapshot, AmmSnapshot, raw)
        IN  /\ ~unreadable
            /\ canTally(e)
            /\ CloseRewards(pruned(e), raw)
            /\ proposals' = tallied(e)
            /\ params' = ratified(e)
            /\ unreadable' = emptied(e)

-----------------------------------------------------------------------------

GovInit ==
    /\ LPInit
    /\ proposals = [p \in Proposals |-> NoProposal]
    /\ params = NoParams
    /\ unreadable = FALSE

GovernanceTx(a, k) ==
    \E p \in Proposals :
        \/ \E x \in ProposalValues : GovernanceProposal(a, k, p, x)
        \/ \E yes \in BOOLEAN : GovernanceVote(a, k, p, yes)

\* Every transaction reads the epoch, to split its fee.
GovNext ==
    \/ ~unreadable /\ RewardTx /\ UNCHANGED <<proposals, params, unreadable>>
    \/ ~unreadable /\ \E a \in Accounts, k \in Keys : GovernanceTx(a, k)
    \/ CloseGoverned

\* Ledgers close whenever they can be built: a timer drives consensus.
GovSpec == GovInit /\ [][GovNext]_govVars /\ WF_govVars(CloseGoverned)

-----------------------------------------------------------------------------
(* Properties                                                              *)

\* Proposals are made with a value in bounds only, so that a ratified burn
\* fraction is one the fee split could use.
GovTypeOK ==
    /\ LpTypeOK
    /\ proposals \in [Proposals -> Proposal \cup {NoProposal}]
    /\ params \in BurnMinBps..BurnMaxBps \cup {NoParams}
    /\ unreadable \in BOOLEAN

Listed(p) == epoch # NoEpoch /\ p \in Range(epoch.proposals)

\* The list the tally works from holds only proposals it still has to decide,
\* each once, and none whose window closed in an earlier ledger, through any
\* interleaving of proposals, votes, epochs and tallies (buildLedgerImpl's
\* pruning of sfProposals).
ListIsPending ==
    epoch # NoEpoch =>
        /\ IsInjective(epoch.proposals)
        /\ \A p \in Range(epoch.proposals) : Open(p) /\ seq <= proposals[p].expiry

\* The governed burn fraction is the value of a proposal that passed, and that
\* one had votes for it, also when it is tallied in a ledger whose aggregate
\* score is unset (after an epoch opened off a flag ledger) or zero.
RatificationHasVotes ==
    /\ \A p \in Proposals : Exists(p) /\ proposals[p].state = "PASSED"
         => proposals[p].votedFor > 0
    /\ params # NoParams
         => \E p \in Proposals : /\ Exists(p) /\ proposals[p].state = "PASSED"
                                 /\ proposals[p].value = params

\* Neither votes nor later tallies change a proposal that was decided, and a
\* consensus key has one vote on a proposal (applyGovernanceTally's state check,
\* sfVoterList).
OutcomeIsFinal ==
    [][\A p \in Proposals : Exists(p) =>
        /\ proposals'[p] # NoProposal
        /\ proposals[p].state # "OPEN" => proposals'[p] = proposals[p]
        /\ IsInjective(proposals'[p].voters)]_govVars

\* governance.md, Proposal Lifecycle: at the end of the window a proposal is
\* "marked PASSED" or "marked EXPIRED", and buildLedgerImpl prunes it. So a listed
\* proposal whose window ends before the last ledger of the run leaves the list.
ListDrains ==
    \A p \in Proposals :
        (Listed(p) /\ proposals[p].expiry < MaxSeq) ~> ~Listed(p)

=============================================================================
