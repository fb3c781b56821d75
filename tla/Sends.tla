-------------------------------- MODULE Sends --------------------------------
(***************************************************************************)
(* How a transaction of an agent's wallet gets onto Base.  Two processes   *)
(* sign for the wallet, each by asking the MPC network through a queue of  *)
(* its own: the agent's, which numbers its transactions from a local       *)
(* counter (wallet.ts) and waits for their receipts (tx.ts), and the API's,*)
(* when an operator takes the gas of a stopped agent back (gas-withdraw.ts)*)
(* numbered by what a node says.  The wallet is one; its other chain has no*)
(* numbers.                                                                *)
(***************************************************************************)
EXTENDS Integers, Sequences, FiniteSets

CONSTANTS Requests,     \* withdrawals of gas that operators may click
          Fee,          \* what a transaction costs
          Gas,          \* what the wallet holds
          Parts,        \* amounts a withdrawal that is no sweep may name
          Lag,          \* how many transactions a node may be behind
          MaxSends,     \* bound on the agent's sends
          MaxLives      \* bound on the lives of the agent's process

ASSUME SendsAssumption ==
    /\ "agent" \notin Requests /\ IsFiniteSet(Requests)
    /\ Fee \in Nat \ {0} /\ Gas \in Nat /\ Parts \subseteq Nat \ {0}
    /\ Lag \in Nat /\ MaxSends \in Nat /\ MaxLives \in Nat

VARIABLES
    mined,        \* what the chain included: its n-th entry has the number n - 1
    pool,         \* what was handed to the chain and waits
    gas,          \* the wallet's ETH
    life,         \* which process of the agent is running
    previous,     \* the last number this process issued, -1 for none
    ticking,      \* a tick of this vault is under way
    send,         \* the agent's send under way
    sends,        \* number of sends begun
    reported,     \* the transactions whose sender was told that they succeeded
    agentEnabled,
    withdrawal,   \* each request of an operator
    queue,        \* per process, who waits for the MPC network, in order
    lastFailed,   \* per process, the signature before ended in an error
    signer        \* the MPC network signs

agentVars == <<life, previous, ticking, send, sends, reported>>
chainVars == <<mined, pool, gas>>
signVars  == <<queue, lastFailed, signer>>
vars      == <<agentVars, chainVars, signVars, agentEnabled, withdrawal>>

Processes == {"agent", "api"}
Quiet     == [step |-> "idle", nonce |-> 0]
Unasked   == [step |-> "none", nonce |-> 0, value |-> 0]

SendSteps     == {"idle", "number", "sign", "broadcast", "wait"}
WithdrawSteps == {"none", "price", "sign", "broadcast", "sent", "failed"}

Init ==
    /\ mined = <<>> /\ pool = {} /\ gas = Gas
    /\ life = 1 /\ previous = -1 /\ ticking = FALSE
    /\ send = Quiet /\ sends = 0 /\ reported = {}
    /\ agentEnabled = TRUE /\ withdrawal = [r \in Requests |-> Unasked]
    /\ queue = [p \in Processes |-> <<>>] /\ lastFailed = [p \in Processes |-> FALSE]
    /\ signer = TRUE

-----------------------------------------------------------------------------
\* The chain and what its nodes answer.

AgentTx == [by |-> "agent", life |-> life, n |-> sends, nonce |-> send.nonce, value |-> 0]
SweepTx(r) == [by |-> r, life |-> 0, n |-> 0,
               nonce |-> withdrawal[r].nonce, value |-> withdrawal[r].value]

\* The number after those that are taken without a gap is what a node answers,
\* unless it is behind.
Numbers       == 0 .. Len(mined) + Cardinality(pool)
Taken(n)      == n < Len(mined) \/ \E t \in pool : t.nonce = n
NextFree(n)   == ~Taken(n) /\ \A k \in 0 .. n - 1 : Taken(k)
PendingCounts == {n \in Numbers : \E free \in Numbers :
                      NextFree(free) /\ n <= free /\ free <= n + Lag}

Cost(t) == t.value + Fee

\* A number that is taken already, or a wallet too poor, is always refused; a
\* rival for the number may be outbid.
Accepts(t) ==
    /\ t.nonce >= Len(mined) /\ Cost(t) <= gas
    /\ pool' = {other \in pool : other.nonce # t.nonce} \cup {t}

Include ==
    /\ \E t \in pool :
          /\ t.nonce = Len(mined) /\ Cost(t) <= gas
          /\ \E ok \in IF t.by = "agent" THEN BOOLEAN ELSE {TRUE} :
                mined' = Append(mined, [tx |-> t, ok |-> ok])
          /\ gas' = gas - Cost(t) /\ pool' = pool \ {t}
    /\ UNCHANGED <<agentVars, signVars, agentEnabled, withdrawal>>

-----------------------------------------------------------------------------
\* NearMpcClient: a process has one signature made at a time.

Enqueue(p, who) == queue' = [queue EXCEPT ![p] = Append(@, who)]
IsNext(p, who)  == queue[p] # <<>> /\ Head(queue[p]) = who

\* Defect: a failed signature poisons the queue for everything behind it.
AsksIfSettled(p) == ~lastFailed[p]

\* The next is asked for however the one before it ended.
Asks(p) == TRUE

Answered(p, failed) ==
    /\ queue' = [queue EXCEPT ![p] = Tail(@)]
    /\ lastFailed' = [lastFailed EXCEPT ![p] = failed]
    /\ UNCHANGED signer

Signs(p, who)   == IsNext(p, who) /\ Asks(p) /\ signer /\ Answered(p, FALSE)
Refuses(p, who) == IsNext(p, who) /\ ~(Asks(p) /\ signer) /\ Answered(p, TRUE)

\* The network goes away and comes back.
SignerTurns ==
    /\ signer' = ~signer
    /\ UNCHANGED <<agentVars, chainVars, queue, lastFailed, agentEnabled, withdrawal>>

-----------------------------------------------------------------------------
\* The agent.

AtSend(step)  == send.step = step
Onward(step)  == send' = [send EXCEPT !.step = step]
Throws        == send' = Quiet
elsewhere     == <<agentEnabled, withdrawal>>

TickStarts ==
    /\ agentEnabled /\ ~ticking
    /\ ticking' = TRUE
    /\ UNCHANGED <<life, previous, send, sends, reported, chainVars, signVars, elsewhere>>

TickEnds ==
    /\ ticking /\ AtSend("idle")
    /\ ticking' = FALSE
    /\ UNCHANGED <<life, previous, send, sends, reported, chainVars, signVars, elsewhere>>

\* The call was simulated and would go through; it is about to be built.
SendStarts ==
    /\ ticking /\ AtSend("idle") /\ sends < MaxSends
    /\ sends' = sends + 1 /\ Onward("number")
    /\ UNCHANGED <<life, previous, ticking, reported, chainVars, signVars, elsewhere>>

\* Defect: no nonceManager, so each number is what the node says.
IssuedFresh(read) == read

\* nonceManager: "previous + 1 whenever the chain reports something no higher".
Issued(read) == IF read <= previous THEN previous + 1 ELSE read

\* The number is claimed before there is a signature for it.
Number ==
    /\ AtSend("number")
    /\ \E read \in PendingCounts :
          /\ send' = [step |-> "sign", nonce |-> Issued(read)]
          /\ previous' = Issued(read)
    /\ Enqueue("agent", "agent")
    /\ UNCHANGED <<life, ticking, sends, reported, chainVars, lastFailed, signer, elsewhere>>

SignSend ==
    /\ AtSend("sign")
    /\ \/ Signs("agent", "agent") /\ Onward("broadcast")
       \/ Refuses("agent", "agent") /\ Throws
    /\ UNCHANGED <<life, previous, ticking, sends, reported, chainVars, elsewhere>>

\* sendRawTransaction; its answer may get lost.
Broadcast ==
    /\ AtSend("broadcast") /\ Accepts(AgentTx)
    /\ Onward("wait") \/ Throws
    /\ UNCHANGED <<life, previous, ticking, sends, reported, mined, gas, signVars, elsewhere>>

BroadcastFails ==
    /\ AtSend("broadcast") /\ Throws
    /\ UNCHANGED <<life, previous, ticking, sends, reported, chainVars, signVars, elsewhere>>

\* Defect: a receipt is taken for a success.
SucceededIfMined(receipt) == TRUE

Succeeded(receipt) == receipt.ok

\* confirmed().  The receipt is that of whatever took the number: viem follows
\* a transaction that was replaced.
Confirm ==
    /\ AtSend("wait") /\ send.nonce < Len(mined) /\ Throws
    /\ reported' = IF Succeeded(mined[send.nonce + 1]) THEN reported \cup {AgentTx} ELSE reported
    /\ UNCHANGED <<life, previous, ticking, sends, chainVars, signVars, elsewhere>>

\* The wait has a limit of its own.
ConfirmTimesOut ==
    /\ AtSend("wait") /\ Throws
    /\ UNCHANGED <<life, previous, ticking, sends, reported, chainVars, signVars, elsewhere>>

\* The counter is the process's; the numbers it claimed are not.
Restart ==
    /\ life < MaxLives
    /\ life' = life + 1 /\ previous' = -1 /\ ticking' = FALSE /\ Throws
    /\ queue' = [queue EXCEPT !["agent"] = <<>>]
    /\ lastFailed' = [lastFailed EXCEPT !["agent"] = FALSE]
    /\ UNCHANGED <<sends, reported, chainVars, signer, elsewhere>>

-----------------------------------------------------------------------------
\* Operators.

SetAgentEnabled ==
    /\ agentEnabled' = ~agentEnabled
    /\ UNCHANGED <<agentVars, chainVars, signVars, withdrawal>>

AtStep(r, step) == withdrawal[r].step = step
Proceeds(r, step) == withdrawal' = [withdrawal EXCEPT ![r].step = step]

\* resolveAgent: the agent has to be off, which says nothing of a tick that began before.
Resolve(r) ==
    /\ AtStep(r, "none") /\ ~agentEnabled
    /\ Proceeds(r, "price")
    /\ UNCHANGED <<agentVars, chainVars, signVars, agentEnabled>>

Spendable == IF gas > Fee THEN gas - Fee ELSE 0

\* The balance and the number are read together; a sweep takes all there is.
Price(r) ==
    /\ AtStep(r, "price")
    /\ \E nonce \in PendingCounts, value \in Parts \cup {Spendable} :
          /\ 0 < value /\ value <= Spendable
          /\ withdrawal' = [withdrawal EXCEPT ![r] =
                                [step |-> "sign", nonce |-> nonce, value |-> value]]
    /\ Enqueue("api", r)
    /\ UNCHANGED <<agentVars, chainVars, lastFailed, signer, agentEnabled>>

\* Nothing to recover, or less than was asked for.
PriceFails(r) ==
    /\ AtStep(r, "price") /\ \E value \in Parts \cup {Spendable} : ~(0 < value /\ value <= Spendable)
    /\ Proceeds(r, "failed")
    /\ UNCHANGED <<agentVars, chainVars, signVars, agentEnabled>>

SignWithdrawal(r) ==
    /\ \/ Signs("api", r) /\ Proceeds(r, "broadcast")
       \/ Refuses("api", r) /\ Proceeds(r, "failed")
    /\ UNCHANGED <<agentVars, chainVars, agentEnabled>>

\* The hash is the answer: nobody waits for the receipt.
BroadcastWithdrawal(r) ==
    /\ AtStep(r, "broadcast")
    /\ \/ Accepts(SweepTx(r)) /\ Proceeds(r, "sent")
       \/ UNCHANGED pool /\ Proceeds(r, "failed")
    /\ UNCHANGED <<agentVars, mined, gas, signVars, agentEnabled>>

-----------------------------------------------------------------------------
Ticks   == TickStarts \/ TickEnds
Sending == SendStarts \/ Number \/ SignSend \/ Broadcast \/ BroadcastFails
           \/ Confirm \/ ConfirmTimesOut
Withdraws(r) == Resolve(r) \/ Price(r) \/ PriceFails(r) \/ SignWithdrawal(r) \/ BroadcastWithdrawal(r)

Next == Include \/ SignerTurns \/ Ticks \/ Sending \/ Restart \/ SetAgentEnabled
        \/ \E r \in Requests : Withdraws(r)

\* Each request to the network is answered or fails.
Fairness == WF_vars(SignSend) /\ \A r \in Requests : WF_vars(SignWithdrawal(r))

Spec == Init /\ [][Next]_vars /\ Fairness

-----------------------------------------------------------------------------
Txs == pool \cup {mined[i].tx : i \in DOMAIN mined}

TxRecord == [by : Requests \cup {"agent"}, life : Nat, n : Nat, nonce : Nat, value : Nat]

TypeOK ==
    /\ mined \in Seq([tx : TxRecord, ok : BOOLEAN])
    /\ pool \subseteq TxRecord /\ IsFiniteSet(pool) /\ gas \in Nat
    /\ life \in Nat /\ previous \in Nat \cup {-1} /\ sends \in Nat
    /\ ticking \in BOOLEAN /\ agentEnabled \in BOOLEAN /\ signer \in BOOLEAN
    /\ send \in [step : SendSteps, nonce : Nat]
    /\ reported \subseteq TxRecord
    /\ withdrawal \in [Requests -> [step : WithdrawSteps, nonce : Nat, value : Nat]]
    /\ queue \in [Processes -> Seq(Requests \cup {"agent"})]
    /\ lastFailed \in [Processes -> BOOLEAN]

(***************************************************************************)
(* wallet.ts: the local counter is there so that "a lagging read cannot    *)
(* hand out a number already spent".  Whatever nodes answer, and whatever  *)
(* became of the sends before, no transaction of a process has the number  *)
(* of the one it is about to send.                                         *)
(***************************************************************************)
OwnNumbersDistinct ==
    send.step \in {"sign", "broadcast"} =>
        ~ \E t \in Txs : t.by = "agent" /\ t.life = life /\ t.nonce = send.nonce

(***************************************************************************)
(* tx.ts: a send that returns has happened.  What its caller was told has  *)
(* succeeded is on chain, with success, in its place: lost answers, waits  *)
(* that ran out and numbers that another life of the process used again do *)
(* not stand in for it.  (A withdrawal of gas may: it takes the number of  *)
(* a send of a tick that was still under way, and its receipt is a success.*)
(***************************************************************************)
ReportedSendsHappened ==
    \A t \in reported :
        /\ t.nonce < Len(mined) /\ mined[t.nonce + 1].ok
        /\ (mined[t.nonce + 1].tx = t \/ mined[t.nonce + 1].tx.by \in Requests)

(***************************************************************************)
(* client.ts: one failed signature does not poison the queue for what is   *)
(* behind it: once the network signs again, every request that waits gets  *)
(* its signature.                                                          *)
(***************************************************************************)
SignerHeals ==
    \A r \in Requests : [](AtStep(r, "sign") /\ []signer => <>(AtStep(r, "broadcast")))
=============================================================================
