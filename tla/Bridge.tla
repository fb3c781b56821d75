------------------------------- MODULE Bridge -------------------------------
(***************************************************************************)
(* apps/agent/src/bridge.ts: USDC between Base and Solana over Relay.  One *)
(* crossing at a time runs in the agent's process; each is a persisted     *)
(* BridgeTransfer row and an amount counted in memory as in flight, which  *)
(* the valuation adds to the balances it can read.  The process may die    *)
(* between any two awaits, and Relay, Solana and the database answer late, *)
(* with an error, or not at all.                                           *)
(***************************************************************************)
EXTENDS Integers, Sequences, Sums

CONSTANTS Amounts,         \* USDC a caller asks to move
          Funding,         \* what the agent's Base wallet holds at the start
          Fees,            \* cuts the relayer may take of one crossing
          MinimumDeposit,  \* MINIMUM_DEPOSIT_USDC
          MaxCrossings,    \* bound on the crossings of a behaviour
          Faults           \* what may go wrong: see AllFaults

AllFaults == {"crash",        \* the process dies
              "timeout",      \* FILL_TIMEOUT_MS or the balance wait runs out
              "refund",       \* Relay does not fill, and returns the funds
              "slowRefund",   \* Relay reports the failure before the funds are back
              "earlyStatus",  \* Relay reports the fill before the funds are visible
              "lostReceipt",  \* the origin transaction lands, its receipt is not seen
              "lostWrite",    \* an update of a row fails, and the error is swallowed
              "lostRead"}     \* reading the unfinished rows fails, likewise

ASSUME BridgeAssumption ==
    /\ Amounts \subseteq Nat \ {0} /\ Funding \in Nat /\ Fees \subseteq Nat
    /\ \A a \in Amounts, f \in Fees : f < a
    /\ MinimumDeposit \in Nat \ {0} /\ MaxCrossings \in Nat /\ Faults \subseteq AllFaults

VARIABLES
    wallet,       \* USDC in the agent's wallet on each chain
    venue,        \* margin at Pacifica
    withdrawing,  \* margin Pacifica has released and not yet paid out on Solana
    rows,         \* the BridgeTransfer rows, in the order they were created
    relay,        \* what Relay is doing with the transfer of each row
    inFlight,     \* the counter of this process
    crossing,     \* the call to toSolana or toBase this process is inside
    up            \* this process has built its bridge

vars == <<wallet, venue, withdrawing, rows, relay, inFlight, crossing, up>>

Chains     == {"BASE", "SOLANA"}
Directions == {"TO_SOLANA", "TO_BASE"}
Origin(dir) == IF dir = "TO_SOLANA" THEN "BASE" ELSE "SOLANA"
Target(dir) == IF dir = "TO_SOLANA" THEN "SOLANA" ELSE "BASE"

\* Where the call stands; every step is an await at which the process may die.
Steps == {"idle", "recorded", "ready", "gone", "sent", "filled", "landed", "settled"}
Idle  == [step |-> "idle", id |-> 0, before |-> 0, landed |-> 0]
Row   == rows[crossing.id]

BridgeTransfers == [dir : Directions, amount : Amounts, landed : Nat,
                    status : {"PENDING", "SENT", "COMPLETE", "FAILED"}]
Intents == [holds : Nat, plan : {"none", "open", "fill", "refund"}, said : BOOLEAN]

\* Every balance and counter is a natural: nothing is struck off that was not counted.
TypeOK ==
    /\ wallet \in [Chains -> Nat] /\ venue \in Nat /\ withdrawing \in Nat
    /\ rows \in Seq(BridgeTransfers) /\ relay \in Seq(Intents)
    /\ Len(relay) = Len(rows) /\ Len(rows) <= MaxCrossings
    /\ inFlight \in Nat /\ up \in BOOLEAN
    /\ crossing \in [step : Steps, id : {0} \cup DOMAIN rows, before : Nat, landed : Nat]

Init ==
    /\ wallet = [c \in Chains |-> IF c = "BASE" THEN Funding ELSE 0]
    /\ venue = 0 /\ withdrawing = 0
    /\ rows = <<>> /\ relay = <<>>
    /\ inFlight = 0 /\ crossing = Idle /\ up = FALSE

-----------------------------------------------------------------------------
\* The rows.  A definition marked "Defect" is a plausible mistake in the one
\* after it; no action uses it, and it must break a property of a run.

Unsettled == {"PENDING", "SENT"}

AmountsIn(statuses) ==
    [i \in DOMAIN rows |-> IF rows[i].status \in statuses THEN rows[i].amount ELSE 0]

\* Defect: only crossings known to have been sent are read back.
SeedOfSent == Total(AmountsIn({"SENT"}))

\* pendingTotal.
Seed == Total(AmountsIn(Unsettled))

\* An update of a row; the database may refuse it, and nobody hears of it.
Write(id, status, landed) ==
    \/ rows' = [rows EXCEPT ![id] = [@ EXCEPT !.status = status, !.landed = landed]]
    \/ "lostWrite" \in Faults /\ UNCHANGED rows

At(step)    == crossing.step = step
GoTo(step)  == crossing' = [crossing EXCEPT !.step = step]
Stop        == crossing' = Idle

-----------------------------------------------------------------------------
\* The process.

(***************************************************************************)
(* Each tick builds the bridge afresh, from the rows that never settled.   *)
(***************************************************************************)
Tick ==
    /\ At("idle")
    /\ up' = TRUE
    /\ inFlight' \in {Seed} \cup (IF "lostRead" \in Faults THEN {0} ELSE {})
    /\ UNCHANGED <<wallet, venue, withdrawing, rows, relay, crossing>>

Counted(amount) == inFlight' = inFlight + amount

\* toSolana and toBase, up to the row that records the crossing.
Start(dir, amount) ==
    /\ up /\ At("idle") /\ Len(rows) < MaxCrossings
    /\ wallet[Origin(dir)] >= amount
    /\ rows' = Append(rows, [dir |-> dir, amount |-> amount, status |-> "PENDING", landed |-> 0])
    /\ relay' = Append(relay, [plan |-> "none", holds |-> 0, said |-> FALSE])
    /\ Counted(amount)
    /\ crossing' = [Idle EXCEPT !.step = "recorded", !.id = Len(rows) + 1]
    /\ UNCHANGED <<wallet, venue, withdrawing, up>>

\* The destination balance the arrival will be measured against.
ReadBefore ==
    /\ At("recorded")
    /\ crossing' = [crossing EXCEPT !.step = "ready", !.before = wallet[Target(Row.dir)]]
    /\ UNCHANGED <<wallet, venue, withdrawing, rows, relay, inFlight, up>>

Depart ==
    /\ wallet' = [wallet EXCEPT ![Origin(Row.dir)] = @ - Row.amount]
    /\ relay' = [relay EXCEPT ![crossing.id] = [@ EXCEPT !.plan = "open", !.holds = Row.amount]]

Send ==
    /\ At("ready") /\ wallet[Origin(Row.dir)] >= Row.amount
    /\ Depart /\ GoTo("gone")
    /\ UNCHANGED <<venue, withdrawing, rows, inFlight, up>>

\* The catch of a crossing that is still "quoted": the balance could not be
\* read, or the send failed -- or only its receipt did, and the money is gone.
FailQuoted ==
    /\ At("recorded") \/ At("ready")
    /\ \/ UNCHANGED <<wallet, relay>>
       \/ /\ "lostReceipt" \in Faults /\ At("ready") /\ wallet[Origin(Row.dir)] >= Row.amount
          /\ Depart
    /\ Write(crossing.id, "FAILED", 0)
    /\ inFlight' = inFlight - Row.amount
    /\ Stop
    /\ UNCHANGED <<venue, withdrawing, up>>

MarkSent ==
    /\ At("gone")
    /\ Write(crossing.id, "SENT", 0)
    /\ GoTo("sent")
    /\ UNCHANGED <<wallet, venue, withdrawing, relay, inFlight, up>>

Says(plan) == relay[crossing.id].plan = plan /\ relay[crossing.id].said

\* awaitFill: Relay says the intent is filled.
SeeFilled ==
    /\ At("sent") /\ Says("fill")
    /\ GoTo("filled")
    /\ UNCHANGED <<wallet, venue, withdrawing, rows, relay, inFlight, up>>

\* awaitFill: Relay says the intent failed or was refunded.
SeeRefunded ==
    /\ At("sent") /\ Says("refund")
    /\ Write(crossing.id, "FAILED", 0)
    /\ inFlight' = inFlight - Row.amount
    /\ Stop
    /\ UNCHANGED <<wallet, venue, withdrawing, relay, up>>

SeeLanded ==
    /\ At("filled") /\ wallet[Target(Row.dir)] > crossing.before
    /\ crossing' = [crossing EXCEPT !.step = "landed",
                                    !.landed = wallet[Target(Row.dir)] - crossing.before]
    /\ UNCHANGED <<wallet, venue, withdrawing, rows, relay, inFlight, up>>

Patience == {"sent", "filled"}

\* Defect: the wait for Relay has no deadline.
WaitsThatEndForever == {"filled"}

\* awaitFill and the balance wait give up; the crossing stays counted.
WaitsThatEnd == Patience

\* Defect: giving up closes the row and stops counting it.
GivenUpClosed ==
    /\ rows' = [rows EXCEPT ![crossing.id].status = "FAILED"]
    /\ inFlight' = inFlight - Row.amount

GivenUp == UNCHANGED <<rows, inFlight>>

TimeOut ==
    /\ "timeout" \in Faults /\ crossing.step \in WaitsThatEnd
    /\ GivenUp
    /\ Stop
    /\ UNCHANGED <<wallet, venue, withdrawing, relay, up>>

\* Defect: what landed is struck from the count, not what was sent.
UncountLanded == inFlight' = inFlight - crossing.landed

Uncount == inFlight' = inFlight - Row.amount

\* The arrival closes the row; toBase returns, toSolana still has to deposit.
Settle ==
    /\ At("landed")
    /\ Write(crossing.id, "COMPLETE", crossing.landed)
    /\ Uncount
    /\ IF Row.dir = "TO_SOLANA" THEN GoTo("settled") ELSE Stop
    /\ UNCHANGED <<wallet, venue, withdrawing, relay, up>>

\* The deposit into Pacifica, of exactly what this crossing saw land.
Deposit ==
    /\ At("settled") /\ crossing.landed >= MinimumDeposit
    /\ wallet["SOLANA"] >= crossing.landed
    /\ wallet' = [wallet EXCEPT !["SOLANA"] = @ - crossing.landed]
    /\ venue' = venue + crossing.landed
    /\ Stop
    /\ UNCHANGED <<withdrawing, rows, relay, inFlight, up>>

\* Too small a deposit, or one that does not go through.
FailDeposit ==
    /\ At("settled")
    /\ Stop
    /\ UNCHANGED <<wallet, venue, withdrawing, rows, relay, inFlight, up>>

Crash ==
    /\ "crash" \in Faults /\ up
    /\ up' = FALSE /\ inFlight' = 0 /\ Stop
    /\ UNCHANGED <<wallet, venue, withdrawing, rows, relay>>

-----------------------------------------------------------------------------
\* Relay, and Pacifica's withdrawals.

RelayDecides(i, plan) ==
    /\ relay[i].plan = "open"
    /\ plan = "refund" => "refund" \in Faults
    /\ relay' = [relay EXCEPT ![i].plan = plan]
    /\ UNCHANGED <<wallet, venue, withdrawing, rows, inFlight, crossing, up>>

\* A fill pays the destination less the relayer's cut, a refund the origin.
RelayPays(i, fee) ==
    /\ relay[i].plan \in {"fill", "refund"} /\ relay[i].holds > 0
    /\ LET dir == rows[i].dir IN
       IF relay[i].plan = "fill"
       THEN wallet' = [wallet EXCEPT ![Target(dir)] = @ + relay[i].holds - fee]
       ELSE wallet' = [wallet EXCEPT ![Origin(dir)] = @ + relay[i].holds]
    /\ relay' = [relay EXCEPT ![i].holds = 0]
    /\ UNCHANGED <<venue, withdrawing, rows, inFlight, crossing, up>>

RelaySays(i) ==
    /\ relay[i].plan \in {"fill", "refund"} /\ ~relay[i].said
    /\ \/ relay[i].holds = 0
       \/ relay[i].plan = "fill" /\ "earlyStatus" \in Faults
       \/ relay[i].plan = "refund" /\ "slowRefund" \in Faults
    /\ relay' = [relay EXCEPT ![i].said = TRUE]
    /\ UNCHANGED <<wallet, venue, withdrawing, rows, inFlight, crossing, up>>

\* repatriateMargin asks the venue for margin; toBase waits for it on Solana.
RequestWithdrawal(amount) ==
    /\ up /\ At("idle") /\ venue >= amount
    /\ venue' = venue - amount /\ withdrawing' = withdrawing + amount
    /\ UNCHANGED <<wallet, rows, relay, inFlight, crossing, up>>

WithdrawalSettles ==
    /\ withdrawing > 0
    /\ wallet' = [wallet EXCEPT !["SOLANA"] = @ + withdrawing] /\ withdrawing' = 0
    /\ UNCHANGED <<venue, rows, relay, inFlight, crossing, up>>

-----------------------------------------------------------------------------
\* What the process does once it is inside a call.
Proceed ==
    \/ ReadBefore \/ Send \/ FailQuoted \/ MarkSent
    \/ SeeFilled \/ SeeRefunded \/ SeeLanded \/ TimeOut
    \/ Settle \/ Deposit \/ FailDeposit

RelayStep ==
    \E i \in DOMAIN relay :
        \/ \E plan \in {"fill", "refund"} : RelayDecides(i, plan)
        \/ \E fee \in Fees : RelayPays(i, fee)
        \/ RelaySays(i)

Next ==
    \/ Tick
    \/ \E dir \in Directions, amount \in Amounts : Start(dir, amount)
    \/ Proceed
    \/ Crash
    \/ RelayStep
    \/ \E amount \in Amounts : RequestWithdrawal(amount)
    \/ WithdrawalSettles

Spec == Init /\ [][Next]_vars

\* Each await answers or reaches its deadline: a call that can go on, does.
FairSpec == Spec /\ WF_vars(Proceed)

-----------------------------------------------------------------------------
HeldByRelay == [i \in DOMAIN relay |-> relay[i].holds]

\* A NAV calculation happens between two calls, with the bridge built.
Observing == up /\ At("idle")

(***************************************************************************)
(* The point of the persisted rows: whatever interrupts a crossing, the    *)
(* next valuation counts at least the USDC that Relay holds, so that money *)
(* between the chains is never reported as a loss.                         *)
(***************************************************************************)
AirborneStaysCounted == Observing => inFlight >= Total(HeldByRelay)

(***************************************************************************)
(* A closed row has a known end: FAILED means the money never left or came *)
(* back, COMPLETE means Relay delivered it.  Closing a crossing that is    *)
(* still in the air would lose the only record of where the money is.      *)
(***************************************************************************)
ClosedRowsAreSettled ==
    \A i \in DOMAIN rows :
        rows[i].status \in {"COMPLETE", "FAILED"} =>
            /\ relay[i].holds = 0
            /\ rows[i].status = "COMPLETE" => relay[i].plan = "fill"
            /\ rows[i].status = "FAILED" => relay[i].plan \in {"none", "refund"}

(***************************************************************************)
(* No phantom money: once every crossing has a closed row, nothing is      *)
(* counted in flight.  What a call adds to the counter it takes off again  *)
(* on whichever of its ways out closes the row, fee or no fee, whatever    *)
(* earlier processes died of.                                              *)
(***************************************************************************)
ClosedBooksBalance ==
    Observing /\ (\A i \in DOMAIN rows : rows[i].status \notin Unsettled) => inFlight = 0

(***************************************************************************)
(* A crossing blocks the agent's only thread.  Whatever Relay and Solana   *)
(* do, or never do, the call comes back and the loop can tick again.       *)
(***************************************************************************)
EveryCrossingReturns == ~At("idle") ~> At("idle")
=============================================================================
