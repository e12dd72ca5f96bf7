---------------------------- MODULE TimedEscrow ----------------------------
(***************************************************************************)
(* What a bonded object of the ledger promises, whatever it is a bond for. *)
(* An owner puts drops into a slot. They leave it in one of two ways: to   *)
(* that owner, in full, once the slot's lock has passed since the exit     *)
(* began, or destroyed, when the slot is guilty. Whether a slot that is on  *)
(* its way out can still be forfeited is left to the implementation.       *)
(* Apart from that a wallet only ever loses fees, at most MaxFee at a time.*)
(***************************************************************************)
EXTENDS Integers

CONSTANTS Slots, Owners, Amounts, Lock, MaxFee

VARIABLES
    slot,     \* what each slot holds
    wallet,   \* drops of each owner outside the escrow
    guilty,   \* slots whose drops may be destroyed
    now       \* ledger sequence

vars == <<slot, wallet, guilty, now>>

Empty == [phase |-> "empty"]
Held(o, x) == [owner |-> o, amount |-> x, phase |-> "held", since |-> 0]
Leaving(o, x, t) == [owner |-> o, amount |-> x, phase |-> "leaving", since |-> t]

\* Wallet w changes by gain, less a fee.
LessFee(w, gain) ==
    \E fee \in 0..MaxFee : wallet'[w] = wallet[w] + gain - fee

NobodyGains == \A o \in Owners : LessFee(o, 0)

OnlyGains(owner, x) ==
    \A o \in Owners : LessFee(o, IF o = owner THEN x ELSE 0)

Init ==
    /\ slot = [s \in Slots |-> Empty]
    /\ wallet \in [Owners -> Nat]
    /\ guilty = {}
    /\ now \in Nat

Put(s, o, x) ==
    /\ slot[s] = Empty
    /\ slot' = [slot EXCEPT ![s] = Held(o, x)]
    /\ OnlyGains(o, -x)
    /\ UNCHANGED <<guilty, now>>

BeginExit(s) ==
    /\ slot[s].phase = "held"
    /\ slot' = [slot EXCEPT ![s] = Leaving(@.owner, @.amount, now)]
    /\ NobodyGains
    /\ UNCHANGED <<guilty, now>>

Withdraw(s) ==
    /\ slot[s].phase = "leaving"
    /\ now >= slot[s].since + Lock[s]
    /\ slot' = [slot EXCEPT ![s] = Empty]
    /\ OnlyGains(slot[s].owner, slot[s].amount)
    /\ UNCHANGED <<guilty, now>>

Forfeit(s) ==
    /\ s \in guilty
    /\ slot[s] # Empty
    /\ slot' = [slot EXCEPT ![s] = Empty]
    /\ NobodyGains
    /\ UNCHANGED <<guilty, now>>

Charge == NobodyGains /\ UNCHANGED <<slot, guilty, now>>

Convict == guilty' \in SUBSET Slots /\ guilty \subseteq guilty' /\ UNCHANGED <<slot, wallet, now>>

Tick == now' = now + 1 /\ UNCHANGED <<slot, wallet, guilty>>

Next ==
    \/ \E s \in Slots, o \in Owners, x \in Amounts : Put(s, o, x)
    \/ \E s \in Slots : BeginExit(s) \/ Withdraw(s) \/ Forfeit(s)
    \/ Charge
    \/ Convict
    \/ Tick

Spec == Init /\ [][Next]_vars

=============================================================================
