----------------------------- MODULE AsyncRedeem -----------------------------
(***************************************************************************)
(* What the vault promises of an asynchronous redemption (ERC-7540),       *)
(* whatever its shares, fees, prices and agent do: a request only grows    *)
(* while it waits; once priced, the USDC is set aside for its controller   *)
(* alone; and nothing but claims, each within its own bucket, may take the *)
(* contract's USDC below what is set aside.                                *)
(***************************************************************************)
EXTENDS Integers, Sums

CONSTANT Controllers

VARIABLES pending,   \* shares waiting for a price
          priced,    \* shares with a price that nobody has claimed yet
          owed,      \* USDC set aside for them
          cash       \* USDC in the contract

queue == <<pending, priced, owed>>

OwedTotal == Total(owed)

Idle == [c \in Controllers |-> 0]

Init == pending = Idle /\ priced = Idle /\ owed = Idle /\ cash = 0

\* One controller's bucket moves, and the others stay.
Only(c, f, g) == g = [f EXCEPT ![c] = g[c]]

Request(c) ==
    /\ pending'[c] > pending[c]
    /\ Only(c, pending, pending')
    /\ UNCHANGED <<priced, owed, cash>>

Fulfill(c) ==
    /\ pending'[c] < pending[c] /\ pending'[c] >= 0
    /\ pending'[c] + priced'[c] = pending[c] + priced[c]
    /\ owed'[c] >= owed[c] /\ owed'[c] - owed[c] <= cash - OwedTotal
    /\ Only(c, pending, pending') /\ Only(c, priced, priced') /\ Only(c, owed, owed')
    /\ UNCHANGED cash

\* Paid out, or sent to the contract's own address.
Claim(c) ==
    /\ priced'[c] <= priced[c] /\ priced'[c] >= 0
    /\ owed'[c] <= owed[c] /\ owed'[c] >= 0
    /\ Only(c, priced, priced') /\ Only(c, owed, owed')
    /\ cash' \in {cash, cash - (owed[c] - owed'[c])}
    /\ UNCHANGED pending

MoveCash == cash' >= OwedTotal /\ UNCHANGED queue

Next == MoveCash \/ \E c \in Controllers : Request(c) \/ Fulfill(c) \/ Claim(c)

Spec == Init /\ [][Next]_<<queue, cash>>
=============================================================================
