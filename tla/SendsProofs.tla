----------------------------- MODULE SendsProofs -----------------------------
(***************************************************************************)
(* For any number of sends, withdrawals, lives of the process and lagging  *)
(* nodes: the agent never numbers two transactions alike in one life, and  *)
(* what it reports as done is on chain with success.                       *)
(***************************************************************************)
EXTENDS Sends, TLAPS, FiniteSetTheorems

\* What waits is not behind the chain, and one transaction waits per number.
PoolOk ==
    /\ \A t \in pool : t.nonce >= Len(mined)
    /\ \A s, t \in pool : s.nonce = t.nonce => s = t

\* The chain includes its numbers in order.
PlacesOk == \A i \in DOMAIN mined : mined[i].tx.nonce = i - 1

\* A number that was claimed and not used yet is the counter's last.
Claimed == send.step \in {"sign", "broadcast"}
ClaimOk == Claimed => send.nonce = previous

\* What this life sent is not above the counter, and below an unused claim.
OwnBelow ==
    \A t \in Txs : t.by = "agent" =>
        /\ t.life <= life
        /\ t.life = life => t.nonce <= previous /\ (Claimed => t.nonce < previous)

\* What a send waits for is somewhere, or a withdrawal has its number.
WaitOk ==
    send.step = "wait" =>
        \E t \in Txs : t.nonce = send.nonce /\ (t = AgentTx \/ t.by \in Requests)

SendsInv == TypeOK /\ PoolOk /\ PlacesOk /\ ClaimOk /\ OwnBelow /\ WaitOk /\ ReportedSendsHappened

\* Every number is one of two: a place of the chain or a place in the pool.
LEMMA TxsType ==
    ASSUME TypeOK
    PROVE  /\ Txs \subseteq TxRecord
           /\ \A t \in TxRecord : t.nonce \in Nat /\ t.life \in Nat
           /\ Len(mined) \in Nat /\ DOMAIN mined = 1 .. Len(mined)
  <1>1. \A i \in DOMAIN mined : mined[i] \in [tx : TxRecord, ok : BOOLEAN]
    <2> DEFINE Entries == [tx : TxRecord, ok : BOOLEAN]
    <2>1. mined \in Seq(Entries)
      BY DEF TypeOK
    <2> HIDE DEF Entries
    <2>2. \A i \in DOMAIN mined : mined[i] \in Entries
      BY <2>1
    <2> QED  BY <2>2 DEF Entries
  <1>2. \A i \in DOMAIN mined : mined[i].tx \in TxRecord
    BY <1>1
  <1>3. Txs \subseteq TxRecord
    BY <1>2 DEF Txs, TypeOK
  <1> QED  BY <1>3 DEF TypeOK, TxRecord

LEMMA CountsType ==
    ASSUME TypeOK PROVE PendingCounts \subseteq Nat
  <1>1. Cardinality(pool) \in Nat
    BY FS_CardinalityType DEF TypeOK
  <1>2. Len(mined) \in Nat
    BY DEF TypeOK
  <1> QED  BY <1>1, <1>2 DEF PendingCounts, Numbers

\* The initial state satisfies the invariant.
LEMMA SendsInit == Init => SendsInv
  <1> SUFFICES ASSUME Init PROVE SendsInv
    OBVIOUS
  <1>1. TypeOK
    <2>1. mined \in Seq([tx : TxRecord, ok : BOOLEAN]) /\ pool \subseteq TxRecord
      BY DEF Init
    <2>2. IsFiniteSet(pool)
      BY FS_EmptySet DEF Init
    <2>3. send \in [step : SendSteps, nonce : Nat]
      BY DEF Init, Quiet, SendSteps
    <2>4. withdrawal \in [Requests -> [step : WithdrawSteps, nonce : Nat, value : Nat]]
      BY DEF Init, Unasked, WithdrawSteps
    <2>5. /\ queue \in [Processes -> Seq(Requests \cup {"agent"})]
          /\ lastFailed \in [Processes -> BOOLEAN]
      BY DEF Init
    <2> QED
      BY <2>1, <2>2, <2>3, <2>4, <2>5, SendsAssumption DEF Init, TypeOK
  <1>2. Txs = {} /\ ~Claimed /\ send.step # "wait"
    BY DEF Init, Txs, Claimed, Quiet
  <1> QED
    BY <1>1, <1>2 DEF Init, SendsInv, PoolOk, PlacesOk, ClaimOk, OwnBelow, WaitOk,
                      ReportedSendsHappened

\* A step that leaves the chain, the counter and the reports alone, and of a send
\* at most ends it or takes it on to an unused claim.
LEMMA SendsKept ==
    ASSUME SendsInv, TypeOK', UNCHANGED <<mined, pool, life, previous, reported>>,
           \/ send' = send /\ sends' = sends
           \/ send'.step # "wait" /\ (Claimed' => Claimed /\ send'.nonce = send.nonce)
    PROVE  SendsInv'
  <1>1. Txs' = Txs
    BY DEF Txs
  <1>2. WaitOk'
    BY <1>1 DEF SendsInv, WaitOk, AgentTx
  <1>3. Claimed' => Claimed /\ send'.nonce = send.nonce
    BY DEF Claimed
  <1>4. ClaimOk' /\ OwnBelow'
    BY <1>1, <1>3 DEF SendsInv, ClaimOk, OwnBelow
  <1> QED
    BY <1>2, <1>4 DEF SendsInv, PoolOk, PlacesOk, ReportedSendsHappened

\* The chain includes what is next.
LEMMA IncludeInv == ASSUME SendsInv, Include PROVE SendsInv'
  <1> USE DEF SendsInv
  <1>1. PICK t \in pool, ok \in BOOLEAN :
            /\ t.nonce = Len(mined) /\ Cost(t) <= gas
            /\ mined' = Append(mined, [tx |-> t, ok |-> ok])
            /\ gas' = gas - Cost(t) /\ pool' = pool \ {t}
    BY DEF Include
  <1>2. UNCHANGED <<agentVars, signVars, agentEnabled, withdrawal>>
    BY DEF Include
  <1>3. t \in TxRecord /\ [tx |-> t, ok |-> ok] \in [tx : TxRecord, ok : BOOLEAN]
    BY DEF TypeOK
  <1>4. Cost(t) \in Nat
    BY <1>3, SendsAssumption DEF Cost, TxRecord
  <1>5. TypeOK'
    <2>1. gas' \in Nat
      BY <1>1, <1>4 DEF TypeOK
    <2>2. IsFiniteSet(pool') /\ pool' \subseteq TxRecord
      BY <1>1, FS_RemoveElement DEF TypeOK
    <2>3. mined' \in Seq([tx : TxRecord, ok : BOOLEAN])
      BY <1>1, <1>3 DEF TypeOK
    <2> QED  BY <1>2, <2>1, <2>2, <2>3 DEF TypeOK, agentVars, signVars
  <1>6. Len(mined') = Len(mined) + 1 /\ DOMAIN mined' = 1 .. Len(mined) + 1
    BY <1>1, <1>3 DEF TypeOK
  <1>7. /\ \A i \in DOMAIN mined : mined'[i] = mined[i] /\ i \in 1 .. Len(mined)
        /\ mined'[Len(mined) + 1] = [tx |-> t, ok |-> ok]
    BY <1>1, <1>3 DEF TypeOK
  <1>8. Txs' = Txs
    BY <1>1, <1>6, <1>7 DEF Txs, TypeOK
  <1>9. PoolOk'
    <2>1. \A s \in pool : s.nonce \in Nat
      BY TxsType DEF TypeOK
    <2>2. \A s \in pool' : s \in pool /\ s.nonce >= Len(mined) /\ s.nonce # Len(mined)
      BY <1>1 DEF PoolOk
    <2> QED  BY <1>6, <2>1, <2>2, TxsType DEF PoolOk
  <1>10. PlacesOk'
    BY <1>1, <1>6, <1>7 DEF PlacesOk, TypeOK
  <1>11. ReportedSendsHappened'
    <2>1. reported' = reported /\ \A r \in reported : r.nonce \in Nat
      BY <1>2, TxsType DEF agentVars, TypeOK
    <2>2. \A r \in reported : r.nonce + 1 \in DOMAIN mined /\ r.nonce < Len(mined)
      BY <2>1, TxsType DEF ReportedSendsHappened
    <2> QED  BY <1>6, <1>7, <2>1, <2>2, TxsType DEF ReportedSendsHappened
  <1>12. AgentTx' = AgentTx
    BY <1>2 DEF AgentTx, agentVars
  <1> QED
    BY <1>2, <1>5, <1>8, <1>9, <1>10, <1>11, <1>12
    DEF ClaimOk, Claimed, OwnBelow, WaitOk, agentVars

\* The agent's send claims a number, above all it sent in this life.
LEMMA NumberInv == ASSUME SendsInv, Number PROVE SendsInv'
  <1> USE DEF SendsInv
  <1>1. PICK read \in PendingCounts :
            send' = [step |-> "sign", nonce |-> Issued(read)] /\ previous' = Issued(read)
    BY DEF Number
  <1>2. Issued(read) \in Nat /\ Issued(read) > previous
    BY CountsType DEF Issued, TypeOK
  <1>3. UNCHANGED <<life, ticking, sends, reported, chainVars, lastFailed, signer, elsewhere>>
    BY DEF Number
  <1>4. TypeOK'
    <2>1. queue' \in [Processes -> Seq(Requests \cup {"agent"})]
      <3>1. Append(queue["agent"], "agent") \in Seq(Requests \cup {"agent"})
        BY DEF TypeOK, Processes
      <3> QED  BY <3>1 DEF Number, Enqueue, TypeOK
    <2> QED
      BY <1>1, <1>2, <1>3, <2>1 DEF TypeOK, SendSteps, chainVars, elsewhere
  <1>5. Txs' = Txs /\ Txs \subseteq TxRecord
    BY <1>3, TxsType DEF Txs, chainVars
  <1>6. OwnBelow'
    BY <1>1, <1>2, <1>3, <1>5 DEF OwnBelow, TypeOK, TxRecord
  <1> QED
    BY <1>1, <1>3, <1>4, <1>6
    DEF PoolOk, PlacesOk, ClaimOk, WaitOk, ReportedSendsHappened, chainVars

\* A transaction enters the pool in the place of its rivals.
LEMMA AcceptedPool ==
    ASSUME TypeOK, PoolOk, NEW t \in TxRecord, Accepts(t), UNCHANGED mined
    PROVE  /\ pool' \subseteq TxRecord /\ IsFiniteSet(pool') /\ PoolOk'
           /\ t \in Txs' /\ Txs' \subseteq Txs \cup {t}
           /\ \A s \in Txs : s \in Txs' \/ s.nonce = t.nonce
  <1> DEFINE rest == {other \in pool : other.nonce # t.nonce}
  <1>1. IsFiniteSet(rest)
    BY FS_Subset DEF TypeOK
  <1>2. pool' = rest \cup {t} /\ t.nonce >= Len(mined)
    BY DEF Accepts
  <1>3. IsFiniteSet(pool')
    BY <1>1, <1>2, FS_AddElement
  <1> QED
    BY <1>2, <1>3 DEF Txs, PoolOk, TypeOK

\* The agent's transaction is in the pool, under a number nobody else of its life has.
LEMMA BroadcastInv == ASSUME SendsInv, Broadcast PROVE SendsInv'
  <1> USE DEF SendsInv
  <1>1. /\ send.step = "broadcast" /\ Accepts(AgentTx)
        /\ UNCHANGED <<life, previous, ticking, sends, reported, mined, gas, signVars, elsewhere>>
        /\ send' = [send EXCEPT !.step = "wait"] \/ send' = Quiet
    BY DEF Broadcast, AtSend, Onward, Throws
  <1>2. AgentTx \in TxRecord
    BY DEF AgentTx, TypeOK, TxRecord
  <1>3. /\ pool' \subseteq TxRecord /\ IsFiniteSet(pool') /\ PoolOk'
        /\ AgentTx \in Txs' /\ Txs' \subseteq Txs \cup {AgentTx}
    BY <1>1, <1>2, AcceptedPool
  <1>4. send' \in [step : SendSteps, nonce : Nat] /\ send'.step \notin {"sign", "broadcast"}
    BY <1>1 DEF TypeOK, SendSteps, Quiet
  <1>5. TypeOK'
    BY <1>1, <1>3, <1>4 DEF TypeOK, signVars, elsewhere
  <1>6. OwnBelow'
    <2>1. Claimed /\ send.nonce = previous /\ previous' = previous /\ life' = life /\ ~Claimed'
      BY <1>1, <1>4 DEF Claimed, ClaimOk
    <2>2. AgentTx.nonce = previous /\ AgentTx.life = life
      BY <2>1 DEF AgentTx
    <2>3. \A t \in Txs : t.by = "agent" => t.life <= life /\ (t.life = life => t.nonce <= previous)
      BY DEF OwnBelow
    <2> QED
      BY <1>3, <2>1, <2>2, <2>3 DEF OwnBelow, TypeOK
  <1>7. WaitOk'
    <2>1. CASE send' = [send EXCEPT !.step = "wait"]
      BY <1>1, <1>3, <2>1 DEF WaitOk, AgentTx, TypeOK
    <2>2. CASE send' = Quiet
      BY <2>2 DEF WaitOk, Quiet
    <2> QED  BY <1>1, <2>1, <2>2
  <1> QED
    BY <1>1, <1>3, <1>4, <1>5, <1>6, <1>7
    DEF PlacesOk, ClaimOk, Claimed, ReportedSendsHappened

\* An answer of the network keeps the queues well typed.
LEMMA AnsweredType ==
    ASSUME TypeOK, NEW p \in Processes, NEW failed \in BOOLEAN, queue[p] # <<>>, Answered(p, failed)
    PROVE  /\ queue' \in [Processes -> Seq(Requests \cup {"agent"})]
           /\ lastFailed' \in [Processes -> BOOLEAN] /\ signer' = signer
  <1>1. Tail(queue[p]) \in Seq(Requests \cup {"agent"})
    BY DEF TypeOK
  <1> QED
    BY <1>1 DEF TypeOK, Answered

\* What confirmed() reports is what the chain has under the number.
LEMMA ConfirmInv == ASSUME SendsInv, Confirm PROVE SendsInv'
  <1> USE DEF SendsInv
  <1>1. /\ send.step = "wait" /\ send.nonce < Len(mined) /\ send' = Quiet
        /\ UNCHANGED <<life, previous, ticking, sends, chainVars, signVars, elsewhere>>
        /\ reported' = IF mined[send.nonce + 1].ok THEN reported \cup {AgentTx} ELSE reported
    BY DEF Confirm, AtSend, Throws, Succeeded
  <1>2. AgentTx \in TxRecord /\ AgentTx.nonce = send.nonce /\ send.nonce \in Nat
    BY DEF AgentTx, TypeOK, TxRecord
  <1>3. mined[send.nonce + 1].tx = AgentTx \/ mined[send.nonce + 1].tx.by \in Requests
    <2>1. PICK t \in Txs : t.nonce = send.nonce /\ (t = AgentTx \/ t.by \in Requests)
      BY <1>1 DEF WaitOk
    <2>2. t \notin pool
      BY <1>1, <1>2, <2>1, TxsType DEF PoolOk
    <2>3. PICK i \in DOMAIN mined : t = mined[i].tx
      BY <2>1, <2>2 DEF Txs
    <2>4. i = send.nonce + 1
      BY <2>1, <2>3, TxsType DEF PlacesOk
    <2> QED  BY <2>1, <2>3, <2>4
  <1>4. ReportedSendsHappened'
    BY <1>1, <1>2, <1>3 DEF ReportedSendsHappened, chainVars
  <1>5. TypeOK'
    <2>1. send' \in [step : SendSteps, nonce : Nat]
      BY <1>1 DEF Quiet, SendSteps
    <2>2. reported' \subseteq TxRecord
      BY <1>1, <1>2 DEF TypeOK
    <2> QED  BY <1>1, <2>1, <2>2 DEF TypeOK, chainVars, signVars, elsewhere
  <1>6. Txs' = Txs /\ ~Claimed' /\ send'.step # "wait"
    BY <1>1 DEF Txs, Claimed, Quiet, chainVars
  <1> QED
    BY <1>1, <1>4, <1>5, <1>6 DEF PoolOk, PlacesOk, ClaimOk, OwnBelow, WaitOk, chainVars

\* A new life has sent nothing.
LEMMA RestartInv == ASSUME SendsInv, Restart PROVE SendsInv'
  <1> USE DEF SendsInv
  <1>1. /\ life' = life + 1 /\ previous' = -1 /\ ticking' = FALSE /\ send' = Quiet
        /\ UNCHANGED <<sends, reported, chainVars, signer, elsewhere>>
        /\ queue' = [queue EXCEPT !["agent"] = <<>>]
        /\ lastFailed' = [lastFailed EXCEPT !["agent"] = FALSE]
    BY DEF Restart, Throws
  <1>2. TypeOK'
    <2>1. queue' \in [Processes -> Seq(Requests \cup {"agent"})]
      <3>1. <<>> \in Seq(Requests \cup {"agent"})
        OBVIOUS
      <3> QED  BY <1>1, <3>1 DEF TypeOK
    <2>2. lastFailed' \in [Processes -> BOOLEAN]
      BY <1>1 DEF TypeOK
    <2>3. send' \in [step : SendSteps, nonce : Nat]
      BY <1>1 DEF Quiet, SendSteps
    <2>4. life \in Nat
      BY DEF TypeOK
    <2>5. life' \in Nat /\ previous' \in Nat \cup {-1}
      BY <1>1, <2>4
    <2> QED  BY <1>1, <2>1, <2>2, <2>3, <2>5 DEF TypeOK, chainVars, elsewhere
  <1>3. Txs' = Txs /\ ~Claimed' /\ send'.step # "wait"
    BY <1>1 DEF Txs, Claimed, Quiet, chainVars
  <1>4. OwnBelow'
    <2>1. \A t \in Txs : t.by = "agent" => t.life \in Nat /\ t.life <= life
      BY TxsType DEF OwnBelow
    <2> QED  BY <1>1, <1>3, <2>1 DEF OwnBelow, TypeOK
  <1> QED
    BY <1>1, <1>2, <1>3, <1>4 DEF PoolOk, PlacesOk, ClaimOk, WaitOk, ReportedSendsHappened, chainVars

\* A step of a withdrawal leaves its amounts alone.
LEMMA ProceedsType ==
    ASSUME TypeOK, NEW r \in Requests, NEW step \in WithdrawSteps, Proceeds(r, step)
    PROVE  withdrawal' \in [Requests -> [step : WithdrawSteps, nonce : Nat, value : Nat]]
  <1> DEFINE Records == [step : WithdrawSteps, nonce : Nat, value : Nat]
  <1>1. withdrawal \in [Requests -> Records]
    BY DEF TypeOK
  <1>2. [withdrawal[r] EXCEPT !.step = step] \in Records
    BY <1>1
  <1>3. withdrawal' = [withdrawal EXCEPT ![r] = [withdrawal[r] EXCEPT !.step = step]]
    BY DEF Proceeds
  <1> HIDE DEF Records
  <1>4. withdrawal' \in [Requests -> Records]
    BY <1>1, <1>2, <1>3
  <1> QED  BY <1>4 DEF Records

\* A withdrawal may take the number of a send, and is not the agent's.
LEMMA BroadcastWithdrawalInv ==
    ASSUME SendsInv, NEW r \in Requests, BroadcastWithdrawal(r) PROVE SendsInv'
  <1> USE DEF SendsInv
  <1>1. /\ UNCHANGED <<agentVars, mined, gas, signVars, agentEnabled>>
        /\ withdrawal' \in [Requests -> [step : WithdrawSteps, nonce : Nat, value : Nat]]
    BY ProceedsType DEF BroadcastWithdrawal, WithdrawSteps
  <1>2. CASE UNCHANGED pool
    <2>1. TypeOK'
      BY <1>1, <1>2 DEF TypeOK, agentVars, signVars
    <2> QED  BY <1>1, <1>2, <2>1, SendsKept DEF agentVars
  <1>3. CASE Accepts(SweepTx(r))
    <2>1. SweepTx(r) \in TxRecord /\ SweepTx(r).by = r /\ r # "agent"
      BY SendsAssumption DEF SweepTx, TypeOK, TxRecord
    <2>2. /\ pool' \subseteq TxRecord /\ IsFiniteSet(pool') /\ PoolOk'
          /\ SweepTx(r) \in Txs' /\ Txs' \subseteq Txs \cup {SweepTx(r)}
          /\ \A s \in Txs : s \in Txs' \/ s.nonce = SweepTx(r).nonce
      BY <1>1, <1>3, <2>1, AcceptedPool
    <2>3. TypeOK'
      BY <1>1, <2>2 DEF TypeOK, agentVars, signVars
    <2>4. OwnBelow'
      BY <1>1, <2>1, <2>2 DEF OwnBelow, Claimed, agentVars
    <2>5. WaitOk'
      BY <1>1, <2>1, <2>2 DEF WaitOk, AgentTx, agentVars
    <2> QED
      BY <1>1, <2>2, <2>3, <2>4, <2>5 DEF PlacesOk, ClaimOk, Claimed, ReportedSendsHappened, agentVars
  <1> QED
    BY <1>2, <1>3 DEF BroadcastWithdrawal

\* A withdrawal before it is handed to the chain concerns nobody else.
LEMMA WithdrawsInv == ASSUME SendsInv, NEW r \in Requests, Withdraws(r) PROVE SendsInv'
  <1> USE DEF SendsInv
  <1>1. CASE Resolve(r) \/ PriceFails(r)
    <2>1. withdrawal' \in [Requests -> [step : WithdrawSteps, nonce : Nat, value : Nat]]
      BY <1>1, ProceedsType DEF Resolve, PriceFails, WithdrawSteps
    <2>2. UNCHANGED <<agentVars, chainVars, signVars, agentEnabled>>
      BY <1>1 DEF Resolve, PriceFails
    <2>3. TypeOK'
      BY <2>1, <2>2 DEF TypeOK, agentVars, chainVars, signVars
    <2> QED  BY <2>2, <2>3, SendsKept DEF agentVars, chainVars
  <1>2. CASE Price(r)
    <2>1. PICK nonce \in PendingCounts, value \in Parts \cup {Spendable} :
              withdrawal' = [withdrawal EXCEPT ![r] =
                                [step |-> "sign", nonce |-> nonce, value |-> value]]
      BY <1>2 DEF Price
    <2>2. value \in Nat
      BY SendsAssumption DEF Spendable, TypeOK
    <2>3. nonce \in Nat
      BY CountsType
    <2>4. withdrawal' \in [Requests -> [step : WithdrawSteps, nonce : Nat, value : Nat]]
      BY <2>1, <2>2, <2>3 DEF TypeOK, WithdrawSteps
    <2>5. UNCHANGED <<agentVars, chainVars, lastFailed, signer, agentEnabled>>
      BY <1>2 DEF Price
    <2>6. queue' \in [Processes -> Seq(Requests \cup {"agent"})]
      <3>1. Append(queue["api"], r) \in Seq(Requests \cup {"agent"})
        BY DEF TypeOK, Processes
      <3> QED  BY <1>2, <3>1 DEF Price, Enqueue, TypeOK
    <2>7. TypeOK'
      BY <2>4, <2>5, <2>6 DEF TypeOK, agentVars, chainVars
    <2> QED  BY <2>5, <2>7, SendsKept DEF agentVars, chainVars
  <1>3. CASE SignWithdrawal(r)
    <2>1. UNCHANGED <<agentVars, chainVars, agentEnabled>>
      BY <1>3 DEF SignWithdrawal
    <2>2. withdrawal' \in [Requests -> [step : WithdrawSteps, nonce : Nat, value : Nat]]
      BY <1>3, ProceedsType DEF SignWithdrawal, WithdrawSteps
    <2>3. \E failed \in BOOLEAN : queue["api"] # <<>> /\ Answered("api", failed)
      BY <1>3 DEF SignWithdrawal, Signs, Refuses, IsNext
    <2>4. TypeOK'
      BY <2>1, <2>2, <2>3, AnsweredType DEF TypeOK, agentVars, chainVars, Processes
    <2> QED  BY <2>1, <2>4, SendsKept DEF agentVars, chainVars
  <1>4. CASE BroadcastWithdrawal(r)
    BY <1>4, BroadcastWithdrawalInv
  <1> QED
    BY <1>1, <1>2, <1>3, <1>4 DEF Withdraws

\* The agent's steps up to its claim, and every way in which a send ends early.
LEMMA SendEndsInv ==
    ASSUME SendsInv, SendStarts \/ SignSend \/ BroadcastFails \/ ConfirmTimesOut PROVE SendsInv'
  <1> USE DEF SendsInv
  <1>1. UNCHANGED <<mined, pool, gas, life, previous, ticking, reported, elsewhere>>
    BY DEF SendStarts, SignSend, BroadcastFails, ConfirmTimesOut, chainVars
  <1>2. send' \in [step : SendSteps, nonce : Nat] /\ sends' \in Nat
    <2>1. sends \in Nat /\ (sends' = sends \/ sends' = sends + 1)
      BY DEF SendStarts, SignSend, BroadcastFails, ConfirmTimesOut, TypeOK
    <2>2. \/ \E step \in SendSteps : send' = [send EXCEPT !.step = step]
          \/ send' = [step |-> "idle", nonce |-> 0]
      BY DEF SendStarts, SignSend, BroadcastFails, ConfirmTimesOut, Throws, Onward, Quiet, SendSteps
    <2>3. send' \in [step : SendSteps, nonce : Nat]
      BY <2>2 DEF TypeOK, SendSteps
    <2> QED  BY <2>1, <2>3
  <1>3. /\ queue' \in [Processes -> Seq(Requests \cup {"agent"})]
        /\ lastFailed' \in [Processes -> BOOLEAN] /\ signer' = signer
    <2>1. CASE SignSend
      <3>1. \E failed \in BOOLEAN : queue["agent"] # <<>> /\ Answered("agent", failed)
        BY <2>1 DEF SignSend, Signs, Refuses, IsNext
      <3> QED  BY <3>1, AnsweredType DEF Processes
    <2>2. CASE SendStarts \/ BroadcastFails \/ ConfirmTimesOut
      BY <2>2 DEF SendStarts, BroadcastFails, ConfirmTimesOut, signVars, TypeOK
    <2> QED  BY <2>1, <2>2
  <1>4. TypeOK'
    BY <1>1, <1>2, <1>3 DEF TypeOK, elsewhere
  <1>5. send'.step # "wait" /\ (Claimed' => Claimed /\ send'.nonce = send.nonce)
    <2>1. CASE SendStarts
      BY <2>1 DEF SendStarts, Onward, Claimed, TypeOK
    <2>2. CASE SignSend
      <3>1. send.step = "sign" /\ (Onward("broadcast") \/ Throws)
        BY <2>2 DEF SignSend, AtSend
      <3> QED  BY <3>1 DEF Onward, Throws, Quiet, Claimed, TypeOK
    <2>3. CASE BroadcastFails \/ ConfirmTimesOut
      BY <2>3 DEF BroadcastFails, ConfirmTimesOut, Throws, Quiet, Claimed
    <2> QED  BY <2>1, <2>2, <2>3
  <1> QED
    BY <1>1, <1>4, <1>5, SendsKept

\* Ticks, operators' switches and the network's moods touch nothing of this.
LEMMA AsideInv ==
    ASSUME SendsInv, TickStarts \/ TickEnds \/ SetAgentEnabled \/ SignerTurns \/ UNCHANGED vars
    PROVE  SendsInv'
  <1> USE DEF SendsInv
  <1>1. UNCHANGED <<mined, pool, gas, life, previous, send, sends, reported, withdrawal, queue, lastFailed>>
    BY DEF TickStarts, TickEnds, SetAgentEnabled, SignerTurns, agentVars, chainVars, signVars,
           elsewhere, vars
  <1>2. ticking' \in BOOLEAN /\ agentEnabled' \in BOOLEAN /\ signer' \in BOOLEAN
    BY DEF TickStarts, TickEnds, SetAgentEnabled, SignerTurns, agentVars, signVars, elsewhere,
           vars, TypeOK
  <1>3. TypeOK'
    BY <1>1, <1>2 DEF TypeOK
  <1> QED
    BY <1>1, <1>3, SendsKept

\* Every step keeps the invariant.
LEMMA SendsNext == ASSUME SendsInv, [Next]_vars PROVE SendsInv'
  <1>1. CASE Include
    BY <1>1, IncludeInv
  <1>2. CASE SignerTurns \/ Ticks \/ SetAgentEnabled \/ UNCHANGED vars
    BY <1>2, AsideInv DEF Ticks
  <1>3. CASE Sending
    BY <1>3, NumberInv, BroadcastInv, ConfirmInv, SendEndsInv DEF Sending
  <1>4. CASE Restart
    BY <1>4, RestartInv
  <1>5. CASE \E r \in Requests : Withdraws(r)
    BY <1>5, WithdrawsInv
  <1> QED
    BY <1>1, <1>2, <1>3, <1>4, <1>5 DEF Next

(***************************************************************************)
(* The invariant holds of every behaviour, whatever nodes, network and     *)
(* operators do: the numbering of wallet.ts, the queue of the MPC client   *)
(* and the withdrawals of gas-withdraw.ts together.                        *)
(***************************************************************************)
THEOREM SendsInvariant == Spec => []SendsInv
  <1> QED
    BY SendsInit, SendsNext, PTL DEF Spec

(***************************************************************************)
(* wallet.ts: for any lag of the nodes and any number of sends, no         *)
(* transaction of a process has the number of the one it is about to send. *)
(***************************************************************************)
THEOREM NumbersApart == Spec => []OwnNumbersDistinct
  <1>1. SendsInv => OwnNumbersDistinct
    <2> SUFFICES ASSUME SendsInv, Claimed, NEW t \in Txs, t.by = "agent", t.life = life
                 PROVE  t.nonce # send.nonce
      BY DEF OwnNumbersDistinct, Claimed
    <2>1. t.nonce < previous /\ send.nonce = previous /\ t.nonce \in Nat
      BY TxsType DEF SendsInv, OwnBelow, ClaimOk
    <2> QED  BY <2>1 DEF SendsInv, TypeOK
  <1> QED
    BY <1>1, SendsInvariant, PTL

(***************************************************************************)
(* tx.ts: for any number of sends, lives and withdrawals, a send that was  *)
(* reported as done is on chain with success, or a withdrawal of gas that  *)
(* took its number is.                                                     *)
(***************************************************************************)
THEOREM ReportsHold == Spec => []ReportedSendsHappened
  <1>1. SendsInv => ReportedSendsHappened
    BY DEF SendsInv
  <1> QED
    BY <1>1, SendsInvariant, PTL

=============================================================================
