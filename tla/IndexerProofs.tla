--------------------------- MODULE IndexerProofs ----------------------------
(***************************************************************************)
(* The rows of the indexer follow the contract, for any vault whose        *)
(* insurance fund is not a depositor.  The inductive invariant adds to     *)
(* LemonVault's that nobody is approved as an operator, that the rows have *)
(* their columns' types and that a depositor without a position row holds  *)
(* nothing: an update of a row that is not there then loses no share.      *)
(***************************************************************************)
EXTENDS Indexer, LemonVaultProofs

NoOperators == \A a \in Accounts : isOperator[a] = {}

QueueRows == [pendingShares : Int, claimableShares : Int, claimableAssets : Int,
              requestedAt : Int, eligibleAt : Int]

VaultRows == [totalAssets : Int, totalSupply : Int, idleAssets : Int, deployedAssets : Int,
              claimableAssets : Int, totalPendingRedeemShares : Int, activityCount : Int,
              paused : BOOLEAN, emergencyExit : BOOLEAN, limits : LimitChoices]

RowsOk ==
    /\ position \in [Holders -> Int]
    /\ request \in [Accounts -> QueueRows]
    /\ row \in VaultRows

UnknownHoldNothing == \A u \in Users : u \notin known => position[u] = 0

RowsFollow == RowsOk /\ UnknownHoldNothing /\ IndexFollowsChain

IndexInv == IInv /\ NoOperators /\ RowsFollow

-----------------------------------------------------------------------------
\* The ledger of the rows against the ledger of the contract.

\* Rows p show each depositor at least its shares in b, and all of them
\* together no more than that and the t shares that were thrown away.
Cover(p, b, t) ==
    /\ \A u \in Users : p[u] \in Nat /\ b[u] \in Nat /\ p[u] >= b[u]
    /\ PartTotal(p, Users) <= PartTotal(b, Users) + t

LEMMA HoldersAre == /\ IsFiniteSet(Users) /\ Users \subseteq Accounts /\ Users \subseteq Holders
                    /\ Accounts \subseteq Holders /\ Vault \notin Users
  BY VaultAssumption, AccountsFinite DEF Accounts, Holders

\* Only what the depositors hold counts.
LEMMA PartSame ==
    ASSUME NEW f, NEW g, \A u \in Users : g[u] = f[u]
    PROVE  PartTotal(g, Users) = PartTotal(f, Users)
  <1>1. [u \in Users |-> g[u]] = [u \in Users |-> f[u]]
    OBVIOUS
  <1> QED
    BY <1>1 DEF PartTotal

\* One depositor's shares change, and the total of the depositors with them.
LEMMA PartChange ==
    ASSUME NEW f, NEW g, NEW x \in Users,
           \A u \in Users : f[u] \in Nat /\ g[u] \in Nat,
           \A u \in Users : u # x => g[u] = f[u]
    PROVE  /\ PartTotal(g, Users) + f[x] = PartTotal(f, Users) + g[x]
           /\ PartTotal(f, Users) \in Nat /\ PartTotal(g, Users) \in Nat
  <1> DEFINE before == [u \in Users |-> f[u]]
             after  == [u \in Users |-> g[u]]
  <1>1. /\ before \in [Users -> Nat] /\ after \in [Users -> Nat]
        /\ before[x] = f[x] /\ after[x] = g[x]
        /\ \A u \in Users : u # x => after[u] = before[u]
    OBVIOUS
  <1> HIDE DEF before, after
  <1>2. Total(after) + before[x] = Total(before) + after[x]
    BY <1>1, HoldersAre, TotalChange
  <1>3. Total(after) \in Nat /\ Total(before) \in Nat
    BY <1>1, HoldersAre, TotalNat
  <1> QED
    BY <1>1, <1>2, <1>3 DEF PartTotal, before, after

\* What nobody of the depositors gains or loses leaves the rows as good as they were.
LEMMA CoverOthers ==
    ASSUME NEW p, NEW b, NEW t \in Int, Cover(p, b, t),
           NEW p2, \A u \in Users : p2[u] = p[u],
           NEW b2, \A u \in Users : b2[u] = b[u],
           NEW t2 \in Int, t2 >= t
    PROVE  Cover(p2, b2, t2)
  <1>1. PartTotal(p2, Users) = PartTotal(p, Users) /\ PartTotal(b2, Users) = PartTotal(b, Users)
    BY PartSame
  <1>2. PartTotal(p, Users) \in Nat /\ PartTotal(b, Users) \in Nat
    <2>1. [u \in Users |-> p[u]] \in [Users -> Nat] /\ [u \in Users |-> b[u]] \in [Users -> Nat]
      BY DEF Cover
    <2> QED
      BY <2>1, HoldersAre, TotalNat DEF PartTotal
  <1>3. PartTotal(p2, Users) <= PartTotal(b2, Users) + t2
    BY <1>1, <1>2 DEF Cover
  <1> QED
    BY <1>3 DEF Cover

\* A depositor's row and shares move by the same amount, or the shares that
\* leave it are thrown away while the row keeps them.
LEMMA CoverMoves ==
    ASSUME NEW p, NEW b, NEW t \in Int, Cover(p, b, t), NEW x \in Users,
           NEW p2, \A u \in Users : u # x => p2[u] = p[u],
           NEW b2, \A u \in Users : u # x => b2[u] = b[u],
           p2[x] \in Nat, b2[x] \in Nat, p2[x] >= b2[x],
           NEW t2 \in Int, t2 - t = (p2[x] - p[x]) - (b2[x] - b[x])
    PROVE  Cover(p2, b2, t2)
  <1>1. \A u \in Users : /\ p[u] \in Nat /\ p2[u] \in Nat /\ b[u] \in Nat /\ b2[u] \in Nat
                         /\ p2[u] >= b2[u]
    BY DEF Cover
  <1>2. /\ PartTotal(p2, Users) + p[x] = PartTotal(p, Users) + p2[x]
        /\ PartTotal(p2, Users) \in Nat /\ PartTotal(p, Users) \in Nat
    BY <1>1, PartChange
  <1>3. /\ PartTotal(b2, Users) + b[x] = PartTotal(b, Users) + b2[x]
        /\ PartTotal(b2, Users) \in Nat /\ PartTotal(b, Users) \in Nat
    BY <1>1, PartChange
  <1>4. PartTotal(p, Users) <= PartTotal(b, Users) + t
    BY DEF Cover
  <1>5. PartTotal(p2, Users) <= PartTotal(b2, Users) + t2
    BY <1>1, <1>2, <1>3, <1>4
  <1> QED
    BY <1>1, <1>5 DEF Cover

\* PositionRowsCover in these terms.
LEMMA CoverIs == PositionRowsCover <=> /\ \A u \in Users : position[u] >= balance[u]
                                       /\ PartTotal(position, Users)
                                            <= PartTotal(balance, Users) + Thrown
  BY DEF PositionRowsCover, PartTotal

LEMMA CoverNow ==
    ASSUME IndexInv
    PROVE  Cover(position, balance, Thrown) /\ Thrown \in Nat
  <1>1. Thrown \in Nat
    BY AccountsFinite DEF IndexInv, IInv, TypeOK, EscrowBacked, Thrown
  <1>2. \A u \in Users : position[u] \in Int /\ balance[u] \in Nat
    BY HoldersAre DEF IndexInv, IInv, TypeOK, RowsFollow, RowsOk
  <1>3. /\ \A u \in Users : position[u] >= balance[u]
        /\ PartTotal(position, Users) <= PartTotal(balance, Users) + Thrown
    BY CoverIs DEF IndexInv, RowsFollow, IndexFollowsChain
  <1>4. \A u \in Users : position[u] \in Nat /\ balance[u] \in Nat /\ position[u] >= balance[u]
    BY <1>2, <1>3
  <1> QED
    BY <1>1, <1>3, <1>4 DEF Cover

\* After a step: the rows cover again, and the shares thrown away are counted.
LEMMA CoverAfter ==
    ASSUME IInv'
    PROVE  /\ Thrown' \in Nat
           /\ Cover(position', balance', Thrown') => PositionRowsCover'
           /\ \A u \in Users : balance'[u] \in Nat
  <1>1. /\ balance'[Vault] \in Nat /\ totalPendingRedeemShares' \in Nat
        /\ totalPendingRedeemShares' <= balance'[Vault]
        /\ \A u \in Users : balance'[u] \in Nat
    BY AccountsFinite, HoldersAre DEF IInv, TypeOK, EscrowBacked
  <1>2. Thrown' \in Nat
    <2> DEFINE b == balance'[Vault]
               q == totalPendingRedeemShares'
    <2>1. b \in Nat /\ q \in Nat /\ q <= b
      BY <1>1
    <2>2. Thrown' = b - q
      BY DEF Thrown
    <2> HIDE DEF b, q
    <2> QED
      BY <2>1, <2>2
  <1>3. Cover(position', balance', Thrown') => PositionRowsCover'
    BY DEF Cover, PartTotal, PositionRowsCover
  <1> QED
    BY <1>1, <1>2, <1>3

-----------------------------------------------------------------------------
\* The queue's rows.

SameRow(q, r) == /\ q.pendingShares = r.pendingShares
                 /\ q.claimableShares = r.claimableShares
                 /\ q.claimableAssets = r.claimableAssets
                 /\ q.requestedAt = r.requestedAt

LEMMA QueueRowsAre == QueueRowsFollow <=> \A a \in Accounts : SameRow(request[a], redeemState[a])
  BY DEF QueueRowsFollow, SameRow

LEMMA QueueRowsAfter ==
    QueueRowsFollow' <=> \A a \in Accounts : SameRow(request'[a], redeemState'[a])
  BY DEF QueueRowsFollow, SameRow

\* A handler's update of a row keeps it a row, and moves the columns that the
\* contract's update of the bucket moves.
LEMMA RowFields ==
    ASSUME NEW q \in QueueRows
    PROVE  /\ q.pendingShares \in Int /\ q.claimableShares \in Int /\ q.claimableAssets \in Int
           /\ q.requestedAt \in Int
  BY DEF QueueRows

LEMMA QueuedSame ==
    ASSUME NEW q \in QueueRows, NEW r \in Buckets, SameRow(q, r), NEW n \in Nat,
           now \in Nat, limits.minRedeemDelay \in Nat
    PROVE  QueuedRow(q, n) \in QueueRows /\ SameRow(QueuedRow(q, n), AddPending(r, n))
  <1>1. PICK m \in Int : m = now + limits.minRedeemDelay
    OBVIOUS
  <1> DEFINE q1 == [q EXCEPT !.pendingShares = q.pendingShares + n]
             q2 == [q1 EXCEPT !.requestedAt = now]
             q3 == [q2 EXCEPT !.eligibleAt = m]
  <1>2. q1 \in QueueRows
    BY RowFields DEF QueueRows
  <1> HIDE DEF q1
  <1>3. q2 \in QueueRows
    BY <1>2, RowFields DEF QueueRows
  <1> HIDE DEF q2
  <1>4. q3 \in QueueRows
    BY <1>1, <1>3, RowFields DEF QueueRows
  <1>5. QueuedRow(q, n) = q3
    BY <1>1 DEF QueuedRow, q1, q2
  <1>6. SameRow(QueuedRow(q, n), AddPending(r, n))
    BY DEF SameRow, QueuedRow, AddPending, QueueRows, Buckets
  <1> HIDE DEF q3
  <1> QED
    BY <1>4, <1>5, <1>6

LEMMA FulfilledSame ==
    ASSUME NEW q \in QueueRows, NEW r \in Buckets, SameRow(q, r), NEW n \in Nat, NEW a \in Nat
    PROVE  FulfilledRow(q, n, a) \in QueueRows /\ SameRow(FulfilledRow(q, n, a), Fulfilled(r, n, a))
  <1> DEFINE q1 == [q EXCEPT !.pendingShares = q.pendingShares - n]
             q2 == [q1 EXCEPT !.claimableShares = q.claimableShares + n]
             q3 == [q2 EXCEPT !.claimableAssets = q.claimableAssets + a]
  <1>1. q1 \in QueueRows
    BY RowFields DEF QueueRows
  <1> HIDE DEF q1
  <1>2. q2 \in QueueRows
    BY <1>1, RowFields DEF QueueRows
  <1> HIDE DEF q2
  <1>3. q3 \in QueueRows
    BY <1>2, RowFields DEF QueueRows
  <1>4. FulfilledRow(q, n, a) = q3
    BY DEF FulfilledRow, q1, q2
  <1>5. SameRow(FulfilledRow(q, n, a), Fulfilled(r, n, a))
    BY DEF SameRow, FulfilledRow, Fulfilled, QueueRows, Buckets
  <1> HIDE DEF q3
  <1> QED
    BY <1>3, <1>4, <1>5

LEMMA ClaimedSame ==
    ASSUME NEW q \in QueueRows, NEW r \in Buckets, SameRow(q, r), NEW n \in Nat, NEW a \in Nat
    PROVE  ClaimedRow(q, n, a) \in QueueRows /\ SameRow(ClaimedRow(q, n, a), Claimed(r, n, a))
  <1> DEFINE q1 == [q EXCEPT !.claimableShares = q.claimableShares - n]
             q2 == [q1 EXCEPT !.claimableAssets = q.claimableAssets - a]
  <1>1. q1 \in QueueRows
    BY RowFields DEF QueueRows
  <1> HIDE DEF q1
  <1>2. q2 \in QueueRows
    BY <1>1, RowFields DEF QueueRows
  <1>3. ClaimedRow(q, n, a) = q2
    BY DEF ClaimedRow, q1
  <1>4. SameRow(ClaimedRow(q, n, a), Claimed(r, n, a))
    BY DEF SameRow, ClaimedRow, Claimed, QueueRows, Buckets
  <1> HIDE DEF q2
  <1> QED
    BY <1>2, <1>3, <1>4

\* One row and one bucket change, to the same values.
LEMMA QueueStep ==
    ASSUME RowsOk, QueueRowsFollow, redeemState \in [Accounts -> Buckets],
           NEW c \in Accounts, NEW q \in QueueRows, NEW r \in Buckets, SameRow(q, r),
           request' = [request EXCEPT ![c] = q],
           redeemState' = [redeemState EXCEPT ![c] = r]
    PROVE  QueueRowsFollow' /\ request' \in [Accounts -> QueueRows]
  <1>1. request \in [Accounts -> QueueRows]
    BY DEF RowsOk
  <1>2. \A a \in Accounts : SameRow(request[a], redeemState[a])
    BY QueueRowsAre
  <1>3. \A a \in Accounts : SameRow(request'[a], redeemState'[a])
    BY <1>1, <1>2
  <1> QED
    BY <1>1, <1>3, QueueRowsAfter

\* Neither moves.
LEMMA QueueStays ==
    ASSUME QueueRowsFollow, UNCHANGED <<request, redeemState>>
    PROVE  QueueRowsFollow'
  BY QueueRowsAre, QueueRowsAfter

-----------------------------------------------------------------------------
\* The vault's row.

\* What is out and what is free account for the contract's USDC (totalAssets()).
LEMMA IdleAfter ==
    ASSUME IInv'
    PROVE  (TotalAssets + claimableAssets - deployedAssets = idle)'
  <1>1. idle' \in Nat /\ deployedAssets' \in Nat /\ claimableAssets' \in Nat
        /\ claimableAssets' <= idle'
    BY DEF IInv, TypeOK, ClaimsBacked
  <1>2. TotalAssetsOf(idle', deployedAssets', claimableAssets') + claimableAssets' - deployedAssets'
          = idle'
    BY <1>1, IdleDerived
  <1> QED
    BY <1>2 DEF TotalAssets

\* syncVault reads everything again.
LEMMA RowSynced ==
    ASSUME IInv', row \in VaultRows, row' = Synced(row)
    PROVE  VaultRowFollows' /\ row' \in VaultRows
  <1>1. /\ idle' \in Nat /\ deployedAssets' \in Nat /\ claimableAssets' \in Nat
        /\ supply' \in Nat /\ totalPendingRedeemShares' \in Nat /\ claimableAssets' <= idle'
    BY DEF IInv, TypeOK, ClaimsBacked
  <1>2. TotalAssets' \in Nat
    BY <1>1, IdleDerived DEF TotalAssets
  <1>3. TotalAssets' + claimableAssets' - deployedAssets' = idle'
    BY IdleAfter
  <1>4. row' = [row EXCEPT !.totalAssets = TotalAssets', !.totalSupply = supply',
                  !.deployedAssets = deployedAssets', !.claimableAssets = claimableAssets',
                  !.idleAssets = idle', !.totalPendingRedeemShares = totalPendingRedeemShares']
    BY <1>3 DEF Synced
  <1>5. PICK a, s, d, k, i, q \in Int :
          /\ a = TotalAssets' /\ s = supply' /\ d = deployedAssets' /\ k = claimableAssets'
          /\ i = idle' /\ q = totalPendingRedeemShares'
    BY <1>1, <1>2
  <1>6. row' = [row EXCEPT !.totalAssets = a, !.totalSupply = s, !.deployedAssets = d,
                  !.claimableAssets = k, !.idleAssets = i, !.totalPendingRedeemShares = q]
    BY <1>4, <1>5
  <1>7. /\ row' \in VaultRows /\ row'.deployedAssets = d /\ row'.claimableAssets = k
        /\ row'.totalPendingRedeemShares = q
    BY <1>6, ZenonT(60) DEF VaultRows
  <1> QED
    BY <1>3, <1>5, <1>7 DEF VaultRowFollows

\* The columns that syncVault reads have nothing new to say.
LEMMA RowStays ==
    ASSUME IInv', VaultRowFollows,
           UNCHANGED <<deployedAssets, claimableAssets, totalPendingRedeemShares>>,
           row'.deployedAssets = row.deployedAssets,
           row'.claimableAssets = row.claimableAssets,
           row'.totalPendingRedeemShares = row.totalPendingRedeemShares
    PROVE  VaultRowFollows'
  BY IdleAfter DEF VaultRowFollows

-----------------------------------------------------------------------------
\* The calls, by what they do to the share ledger.

\* The rows as the invariant has them.
LEMMA RowsNow ==
    ASSUME IndexInv
    PROVE  /\ position \in [Holders -> Int] /\ request \in [Accounts -> QueueRows]
           /\ row \in VaultRows
           /\ RowsOk /\ QueueRowsFollow /\ VaultRowFollows /\ UnknownHoldNothing
           /\ redeemState \in [Accounts -> Buckets] /\ balance \in [Holders -> Nat]
           /\ totalPendingRedeemShares \in Nat
  BY DEF IndexInv, RowsFollow, RowsOk, IndexFollowsChain, IInv, TypeOK, Buckets

\* No depositor's shares move, nor the vault's: fees at most.
LEMMA LedgerStays ==
    ASSUME IndexInv, IInv',
           UNCHANGED <<position, known, request, redeemState, totalPendingRedeemShares>>,
           \A u \in Users : balance'[u] = balance[u],
           balance'[Vault] = balance[Vault],
           row' \in VaultRows, VaultRowFollows'
    PROVE  RowsFollow'
  <1>1. Cover(position, balance, Thrown) /\ Thrown \in Nat /\ Thrown' \in Nat
    BY CoverNow, CoverAfter
  <1>2. Thrown' = Thrown
    BY DEF Thrown
  <1>3. Cover(position', balance', Thrown')
    <2>1. Thrown' >= Thrown /\ Thrown \in Int /\ Thrown' \in Int
      BY <1>1, <1>2
    <2>2. \A u \in Users : position'[u] = position[u]
      OBVIOUS
    <2> QED
      BY <1>1, <2>1, <2>2, CoverOthers
  <1>4. PositionRowsCover'
    BY <1>3, CoverAfter
  <1>5. QueueRowsFollow'
    BY RowsNow, QueueStays
  <1>6. RowsOk'
    BY RowsNow DEF RowsOk
  <1>7. UnknownHoldNothing'
    BY RowsNow DEF UnknownHoldNothing
  <1> QED
    BY <1>4, <1>5, <1>6, <1>7 DEF RowsFollow, IndexFollowsChain

\* Fee shares go to the fund, and the fund is no depositor.
LEMMA FeesOfNobody ==
    ASSUME IInv, Users \cap Funds = {}
    PROVE  /\ \A u \in Users : FeeCredited[u] = balance[u]
           /\ FeeCredited[Vault] = balance[Vault]
           /\ FeeCredited \in [Holders -> Nat]
  <1>1. insuranceFund \in Funds /\ balance \in [Holders -> Nat]
    BY DEF IInv, TypeOK
  <1>2. \A u \in Users : FeeCredited[u] = balance[u]
    BY <1>1, HoldersAre DEF FeeCredited, Credit
  <1> QED
    BY <1>2, FeesSound

\* Rows and shares before a call, once the fees are settled.
LEMMA CoverSettled ==
    ASSUME IndexInv, Users \cap Funds = {}
    PROVE  Cover(position, FeeCredited, Thrown) /\ Thrown \in Nat
  <1>1. Cover(position, balance, Thrown) /\ Thrown \in Nat
    BY CoverNow
  <1>2. \A u \in Users : FeeCredited[u] = balance[u]
    BY FeesOfNobody DEF IndexInv
  <1>3. Thrown \in Int /\ Thrown >= Thrown /\ \A u \in Users : position[u] = position[u]
    BY <1>1
  <1> QED
    BY <1>1, <1>2, <1>3, CoverOthers

\* A deposit or a mint: n shares to a holder, whose row is upserted.
LEMMA SharesIn ==
    ASSUME IndexInv, IInv', Users \cap Funds = {}, NEW h \in Holders, NEW n \in Nat,
           balance' = Credit(FeeCredited, h, n), OnDeposit(h, n),
           UNCHANGED <<redeemState, totalPendingRedeemShares>>
    PROVE  RowsFollow'
  <1> DEFINE credited == FeeCredited
  <1>1. /\ Cover(position, credited, Thrown) /\ Thrown \in Nat /\ Thrown' \in Nat
        /\ credited \in [Holders -> Nat] /\ credited[Vault] = balance[Vault]
    BY CoverSettled, CoverAfter, FeesOfNobody DEF IndexInv
  <1> HIDE DEF credited
  <1>2. /\ position' \in [Holders -> Int] /\ position'[h] = position[h] + n
        /\ \A x \in Holders : x # h => position'[x] = position[x]
        /\ known' = known \cup {h} /\ row' = Synced(row) /\ request' = request
    BY RowsNow DEF OnDeposit
  <1>3. /\ balance' = Credit(credited, h, n)
        /\ balance'[h] = credited[h] + n
        /\ \A x \in Holders : x # h => balance'[x] = credited[x]
    BY <1>1 DEF Credit, credited
  <1>4. PositionRowsCover'
    <2>1. CASE h \in Users
      <3>1. \A u \in Users : u # h => position'[u] = position[u] /\ balance'[u] = credited[u]
        BY <1>2, <1>3, HoldersAre
      <3>2. position[h] \in Nat /\ credited[h] \in Nat /\ position[h] >= credited[h]
        BY <1>1, <2>1 DEF Cover
      <3>3. /\ position'[h] \in Nat /\ balance'[h] \in Nat /\ position'[h] >= balance'[h]
            /\ position'[h] - position[h] = n /\ balance'[h] - credited[h] = n
        BY <1>2, <1>3, <3>2
      <3>4. balance'[Vault] = balance[Vault]
        BY <1>1, <1>3, <2>1, HoldersAre, AccountsFinite
      <3>5. Thrown' = Thrown
        BY <3>4 DEF Thrown
      <3>6. Thrown' - Thrown = (position'[h] - position[h]) - (balance'[h] - credited[h])
        BY <1>1, <3>3, <3>5
      <3>7. Cover(position', balance', Thrown')
        <4>1. Thrown \in Int /\ Thrown' \in Int
          BY <1>1
        <4> QED
          BY <1>1, <2>1, <3>1, <3>3, <3>6, <4>1, CoverMoves
      <3> QED
        BY <3>7, CoverAfter
    <2>2. CASE h \notin Users
      <3>1. \A u \in Users : position'[u] = position[u] /\ balance'[u] = credited[u]
        BY <1>2, <1>3, <2>2, HoldersAre
      <3>2. balance'[Vault] >= balance[Vault]
        BY <1>1, <1>3, AccountsFinite
      <3>3. Thrown' >= Thrown
        BY <3>2, RowsNow, CoverAfter, AccountsFinite DEF Thrown, IInv, TypeOK
      <3>4. Cover(position', balance', Thrown')
        <4>1. Thrown \in Int /\ Thrown' \in Int
          BY <1>1
        <4> QED
          BY <1>1, <3>1, <3>3, <4>1, CoverOthers
      <3> QED
        BY <3>4, CoverAfter
    <2> QED
      BY <2>1, <2>2
  <1>5. VaultRowFollows' /\ row' \in VaultRows
    BY <1>2, RowsNow, RowSynced
  <1>6. QueueRowsFollow'
    BY <1>2, RowsNow, QueueStays
  <1>7. RowsOk'
    BY <1>2, <1>5, RowsNow DEF RowsOk
  <1>8. UnknownHoldNothing'
    BY <1>2, RowsNow, HoldersAre DEF UnknownHoldNothing
  <1> QED
    BY <1>4, <1>5, <1>6, <1>7, <1>8 DEF RowsFollow, IndexFollowsChain

\* requestRedeem(): with nobody approved, the row that is charged is the owner's.
LEMMA SharesQueued ==
    ASSUME IndexInv, IInv', Users \cap Funds = {}, NEW s \in ShareAmounts,
           NEW x \in Accounts, NEW c \in Accounts, NEW o \in Accounts,
           RequestRedeem(x, s, c, o), OnRedeemQueued(c, s)
    PROVE  RowsFollow'
  <1> DEFINE credited == FeeCredited
  <1>1. s \in Nat /\ s > 0 /\ c \in Holders /\ c # Vault /\ Vault \in Holders
    BY VaultAssumption, HoldersAre, AccountsFinite
  <1>2. c = o
    BY DEF RequestRedeem, IndexInv, NoOperators
  <1>3. /\ Cover(position, credited, Thrown) /\ Thrown \in Nat /\ Thrown' \in Nat
        /\ credited \in [Holders -> Nat] /\ credited[Vault] = balance[Vault]
    BY CoverSettled, CoverAfter, FeesOfNobody DEF IndexInv
  <1>4. /\ s <= credited[c]
        /\ balance' = Credit(Debit(credited, c, s), Vault, s)
        /\ redeemState' = [redeemState EXCEPT ![c] = AddPending(@, s)]
        /\ totalPendingRedeemShares' = totalPendingRedeemShares + s
    BY <1>2 DEF RequestRedeem
  <1> HIDE DEF credited
  <1>5. /\ balance'[c] = credited[c] - s /\ balance'[Vault] = balance[Vault] + s
        /\ \A h \in Holders : h # c /\ h # Vault => balance'[h] = credited[h]
    BY <1>1, <1>3, <1>4 DEF Credit, Debit
  <1>6. /\ position' = Escrowed(c, s) /\ known' = known /\ row' = Synced(row)
        /\ request' = [request EXCEPT ![c] = QueuedRow(@, s)]
    BY DEF OnRedeemQueued
  <1>7. /\ position' \in [Holders -> Int]
        /\ \A h \in Holders : h # c => position'[h] = position[h]
        /\ c \in known => position'[c] = position[c] - s
        /\ c \notin known => position'[c] = position[c]
    <2>1. CASE c \in known
      BY <1>1, <1>6, <2>1, RowsNow DEF Escrowed
    <2>2. CASE c \notin known
      BY <1>6, <2>2, RowsNow DEF Escrowed
    <2> QED
      BY <2>1, <2>2
  <1>8. c \in Users => c \in known
    <2> SUFFICES ASSUME c \in Users, c \notin known PROVE FALSE
      OBVIOUS
    <2>1. position[c] = 0
      BY RowsNow DEF UnknownHoldNothing
    <2>2. credited[c] \in Nat /\ position[c] >= credited[c]
      BY <1>3 DEF Cover
    <2> QED
      BY <1>1, <1>4, <2>1, <2>2
  <1>9. Thrown' = Thrown
    <2>1. balance[Vault] \in Nat /\ totalPendingRedeemShares \in Nat
      BY <1>1, RowsNow
    <2> QED
      BY <1>1, <1>4, <1>5, <2>1 DEF Thrown
  <1>10. PositionRowsCover'
    <2>1. Thrown \in Int /\ Thrown' \in Int /\ Thrown' >= Thrown
      BY <1>3, <1>9
    <2>2. \A u \in Users : u # c => position'[u] = position[u] /\ balance'[u] = credited[u]
      BY <1>5, <1>7, HoldersAre
    <2>3. CASE c \in Users
      <3>1. position[c] \in Nat /\ credited[c] \in Nat /\ position[c] >= credited[c]
        BY <1>3, <2>3 DEF Cover
      <3>2. /\ position'[c] = position[c] - s /\ balance'[c] = credited[c] - s
            /\ position'[c] \in Nat /\ balance'[c] \in Nat /\ position'[c] >= balance'[c]
            /\ position'[c] - position[c] = balance'[c] - credited[c]
        BY <1>1, <1>4, <1>5, <1>7, <1>8, <2>3, <3>1
      <3>3. Thrown' - Thrown = (position'[c] - position[c]) - (balance'[c] - credited[c])
        BY <1>3, <1>9, <3>1, <3>2
      <3>4. Cover(position', balance', Thrown')
        BY <1>3, <2>1, <2>2, <2>3, <3>2, <3>3, CoverMoves
      <3> QED
        BY <3>4, CoverAfter
    <2>4. CASE c \notin Users
      <3>1. \A u \in Users : position'[u] = position[u] /\ balance'[u] = credited[u]
        BY <2>2, <2>4
      <3>2. Cover(position', balance', Thrown')
        BY <1>3, <2>1, <3>1, CoverOthers
      <3> QED
        BY <3>2, CoverAfter
    <2> QED
      BY <2>3, <2>4
  <1>11. QueueRowsFollow' /\ request' \in [Accounts -> QueueRows]
    <2> DEFINE q == QueuedRow(request[c], s)
               r == AddPending(redeemState[c], s)
    <2>1. /\ request[c] \in QueueRows /\ redeemState[c] \in Buckets /\ now \in Nat
          /\ limits.minRedeemDelay \in Nat /\ SameRow(request[c], redeemState[c])
      BY RowsNow, QueueRowsAre, LimitsNat DEF IndexInv, IInv, TypeOK
    <2>2. q \in QueueRows /\ r \in Buckets /\ SameRow(q, r)
      BY <1>1, <2>1, AddPendingBucket, QueuedSame
    <2>3. /\ request' = [request EXCEPT ![c] = q]
          /\ redeemState' = [redeemState EXCEPT ![c] = r]
      BY <1>4, <1>6
    <2> HIDE DEF q, r
    <2> QED
      BY <2>2, <2>3, RowsNow, QueueStep
  <1>12. VaultRowFollows' /\ row' \in VaultRows
    BY <1>6, RowsNow, RowSynced
  <1>13. RowsOk'
    BY <1>7, <1>11, <1>12 DEF RowsOk
  <1>14. UnknownHoldNothing'
    BY <1>6, <1>7, <1>8, RowsNow, HoldersAre DEF UnknownHoldNothing
  <1> QED
    BY <1>10, <1>11, <1>12, <1>13, <1>14 DEF RowsFollow, IndexFollowsChain

\* fulfillRedeem(): the burned shares were in escrow and nobody's.
LEMMA SharesFulfilled ==
    ASSUME IndexInv, IInv', Users \cap Funds = {}, NEW s \in ShareAmounts,
           NEW role, NEW c \in Accounts, FulfillRedeem(role, c, s),
           OnRedeemFulfilled(c, MovedPending(c), claimableAssets' - claimableAssets)
    PROVE  RowsFollow'
  <1> DEFINE credited == FeeCredited
             assets == ConvertToAssets(s, TotalAssets, Fees.supply)
             moved == MovedPending(c)
             owed == claimableAssets' - claimableAssets
  <1>1. s \in Nat /\ Vault \in Holders
    BY VaultAssumption, AccountsFinite
  <1>2. /\ Cover(position, credited, Thrown) /\ Thrown \in Nat /\ Thrown' \in Nat
        /\ credited \in [Holders -> Nat] /\ credited[Vault] = balance[Vault]
    BY CoverSettled, CoverAfter, FeesOfNobody DEF IndexInv
  <1>3. /\ s <= redeemState[c].pendingShares /\ s <= totalPendingRedeemShares
        /\ balance' = Debit(credited, Vault, s)
        /\ redeemState' = [redeemState EXCEPT ![c] = Fulfilled(@, s, assets)]
        /\ totalPendingRedeemShares' = totalPendingRedeemShares - s
        /\ claimableAssets' = claimableAssets + assets
    BY DEF FulfillRedeem, BurnedEscrow
  <1>4. assets \in Nat /\ claimableAssets \in Nat
    BY <1>1, FeesSound, ConversionNat DEF IndexInv, IInv, TypeOK
  <1>5. redeemState[c] \in Buckets /\ request[c] \in QueueRows
    BY RowsNow
  <1>6. /\ request' = [request EXCEPT ![c] = FulfilledRow(@, moved, owed)]
        /\ row' = Synced(row) /\ position' = position /\ known' = known
    BY DEF OnRedeemFulfilled
  <1>7. moved = s /\ owed = assets
    <2>1. moved = redeemState[c].pendingShares - (redeemState[c].pendingShares - s)
      BY <1>3, <1>5, RowsNow DEF MovedPending, Fulfilled, Buckets
    <2>2. owed = (claimableAssets + assets) - claimableAssets
      BY <1>3
    <2>3. redeemState[c].pendingShares \in Nat
      BY <1>5 DEF Buckets
    <2> HIDE DEF moved, owed, assets
    <2> QED
      BY <1>1, <1>4, <2>1, <2>2, <2>3
  <1> HIDE DEF credited, assets, moved, owed
  <1>8. PositionRowsCover'
    <2>1. balance'[Vault] = balance[Vault] - s /\ \A u \in Users : balance'[u] = credited[u]
      BY <1>1, <1>2, <1>3, HoldersAre DEF Debit
    <2>2. Thrown' = Thrown
      <3>1. balance[Vault] \in Nat /\ totalPendingRedeemShares \in Nat
        BY <1>1, RowsNow
      <3> QED
        BY <1>1, <1>3, <2>1, <3>1 DEF Thrown
    <2>3. /\ Thrown \in Int /\ Thrown' \in Int /\ Thrown' >= Thrown
          /\ \A u \in Users : position'[u] = position[u]
      BY <1>2, <1>6, <2>2
    <2>4. Cover(position', balance', Thrown')
      BY <1>2, <2>1, <2>3, CoverOthers
    <2> QED
      BY <2>4, CoverAfter
  <1>9. QueueRowsFollow' /\ request' \in [Accounts -> QueueRows]
    <2> DEFINE q == FulfilledRow(request[c], s, assets)
               r == Fulfilled(redeemState[c], s, assets)
    <2>1. SameRow(request[c], redeemState[c])
      BY RowsNow, QueueRowsAre
    <2>2. q \in QueueRows /\ SameRow(q, r)
      BY <1>1, <1>4, <1>5, <2>1, FulfilledSame
    <2>3. r \in Buckets
      BY <1>1, <1>3, <1>4, <1>5, FulfilledBucket
    <2>4. request' = [request EXCEPT ![c] = q] /\ redeemState' = [redeemState EXCEPT ![c] = r]
      BY <1>3, <1>6, <1>7
    <2> HIDE DEF q, r
    <2> QED
      BY <2>2, <2>3, <2>4, RowsNow, QueueStep
  <1>10. VaultRowFollows' /\ row' \in VaultRows
    BY <1>6, RowsNow, RowSynced
  <1>11. RowsOk'
    BY <1>6, <1>9, <1>10, RowsNow DEF RowsOk
  <1>12. UnknownHoldNothing'
    BY <1>6, RowsNow DEF UnknownHoldNothing
  <1> QED
    BY <1>8, <1>9, <1>10, <1>11, <1>12 DEF RowsFollow, IndexFollowsChain

\* redeem() and withdraw(): what was set aside is paid, no share moves.
LEMMA SharesClaimed ==
    ASSUME IndexInv, IInv', NEW c \in Accounts, NEW s \in Nat, NEW a \in Nat,
           NEW x, NEW r, Claim(x, c, r, s, a), OnClaim(c),
           s <= redeemState[c].claimableShares, a <= redeemState[c].claimableAssets
    PROVE  RowsFollow'
  <1> DEFINE moved == MovedClaimable(c)
             paid == claimableAssets - claimableAssets'
  <1>1. /\ redeemState' = [redeemState EXCEPT ![c] = Claimed(@, s, a)]
        /\ claimableAssets' = claimableAssets - a
        /\ UNCHANGED <<supply, balance, totalPendingRedeemShares>>
    BY DEF Claim, shareVars
  <1>2. redeemState[c] \in Buckets /\ request[c] \in QueueRows /\ claimableAssets \in Nat
    BY RowsNow DEF IndexInv, IInv, TypeOK
  <1>3. /\ request' = [request EXCEPT ![c] = ClaimedRow(@, moved, paid)]
        /\ row' = Synced(row) /\ position' = position /\ known' = known
    BY DEF OnClaim, OnRedeemClaimed
  <1>4. moved = s /\ paid = a
    <2>1. moved = redeemState[c].claimableShares - (redeemState[c].claimableShares - s)
      BY <1>1, <1>2, RowsNow DEF MovedClaimable, Claimed, Buckets
    <2>2. paid = claimableAssets - (claimableAssets - a)
      BY <1>1
    <2>3. redeemState[c].claimableShares \in Nat
      BY <1>2 DEF Buckets
    <2> HIDE DEF moved, paid
    <2> QED
      BY <1>2, <2>1, <2>2, <2>3
  <1> HIDE DEF moved, paid
  <1>5. PositionRowsCover'
    <2>1. Cover(position, balance, Thrown) /\ Thrown' = Thrown
      BY <1>1, CoverNow DEF Thrown
    <2>2. Cover(position', balance', Thrown')
      BY <1>1, <1>3, <2>1
    <2> QED
      BY <2>2, CoverAfter
  <1>6. QueueRowsFollow' /\ request' \in [Accounts -> QueueRows]
    <2> DEFINE q == ClaimedRow(request[c], s, a)
               b == Claimed(redeemState[c], s, a)
    <2>1. SameRow(request[c], redeemState[c])
      BY RowsNow, QueueRowsAre
    <2>2. q \in QueueRows /\ SameRow(q, b)
      BY <1>2, <2>1, ClaimedSame
    <2>3. b \in Buckets
      BY <1>2, ClaimedBucket
    <2>4. request' = [request EXCEPT ![c] = q] /\ redeemState' = [redeemState EXCEPT ![c] = b]
      BY <1>1, <1>3, <1>4
    <2> HIDE DEF q, b
    <2> QED
      BY <2>2, <2>3, <2>4, RowsNow, QueueStep
  <1>7. VaultRowFollows' /\ row' \in VaultRows
    BY <1>3, RowsNow, RowSynced
  <1>8. RowsOk'
    BY <1>3, <1>6, <1>7, RowsNow DEF RowsOk
  <1>9. UnknownHoldNothing'
    BY <1>3, RowsNow DEF UnknownHoldNothing
  <1> QED
    BY <1>5, <1>6, <1>7, <1>8, <1>9 DEF RowsFollow, IndexFollowsChain

\* A depositor who holds shares has a row.
LEMMA HolderIsKnown ==
    ASSUME IndexInv, NEW u \in Users, NEW s \in ShareAmounts, s <= balance[u]
    PROVE  u \in known
  <1> SUFFICES ASSUME u \notin known PROVE FALSE
    OBVIOUS
  <1>1. position[u] = 0
    BY RowsNow DEF UnknownHoldNothing
  <1>2. balance[u] \in Nat /\ position[u] >= balance[u]
    BY CoverNow DEF Cover
  <1>3. s \in Nat /\ s > 0
    BY VaultAssumption
  <1> QED
    BY <1>1, <1>2, <1>3

\* A transfer to the vault's own address: no handler, the row keeps the shares.
LEMMA SharesThrown ==
    ASSUME IndexInv, IInv', NEW s \in ShareAmounts, NEW f \in Accounts,
           TransferShares(f, Vault, s), NoHandler
    PROVE  RowsFollow'
  <1>1. s \in Nat /\ f \in Holders /\ f # Vault /\ Vault \in Holders
    BY VaultAssumption, HoldersAre, AccountsFinite
  <1>2. /\ s <= balance[f] /\ balance' = Credit(Debit(balance, f, s), Vault, s)
        /\ UNCHANGED <<deployedAssets, claimableAssets, redeemState, totalPendingRedeemShares>>
    BY DEF TransferShares, queueVars
  <1>3. /\ balance'[f] = balance[f] - s /\ balance'[Vault] = balance[Vault] + s
        /\ \A h \in Holders : h # f /\ h # Vault => balance'[h] = balance[h]
    BY <1>1, <1>2, RowsNow DEF Credit, Debit
  <1>4. UNCHANGED <<position, known, request, row>>
    BY DEF NoHandler, rows
  <1>5. Cover(position, balance, Thrown) /\ Thrown \in Nat /\ Thrown' \in Nat
    BY CoverNow, CoverAfter
  <1>6. Thrown' = Thrown + s
    <2>1. balance[Vault] \in Nat /\ totalPendingRedeemShares \in Nat
      BY <1>1, RowsNow
    <2> QED
      BY <1>1, <1>2, <1>3, <2>1 DEF Thrown
  <1>7. PositionRowsCover'
    <2>1. CASE f \in Users
      <3>1. position[f] \in Nat /\ balance[f] \in Nat /\ position[f] >= balance[f]
        BY <1>5, <2>1 DEF Cover
      <3>2. /\ position'[f] \in Nat /\ balance'[f] \in Nat /\ position'[f] >= balance'[f]
            /\ position'[f] - position[f] = 0 /\ balance'[f] - balance[f] = -s
        BY <1>1, <1>2, <1>3, <1>4, <3>1
      <3>3. \A u \in Users : u # f => position'[u] = position[u] /\ balance'[u] = balance[u]
        BY <1>3, <1>4, HoldersAre
      <3>4. Thrown' - Thrown = (position'[f] - position[f]) - (balance'[f] - balance[f])
        BY <1>1, <1>5, <1>6, <3>2
      <3>5. Thrown \in Int /\ Thrown' \in Int
        BY <1>5
      <3>6. Cover(position', balance', Thrown')
        BY <1>5, <2>1, <3>2, <3>3, <3>4, <3>5, CoverMoves
      <3> QED
        BY <3>6, CoverAfter
    <2>2. CASE f \notin Users
      <3>1. \A u \in Users : position'[u] = position[u] /\ balance'[u] = balance[u]
        BY <1>3, <1>4, <2>2, HoldersAre
      <3>2. Thrown \in Int /\ Thrown' \in Int /\ Thrown' >= Thrown
        BY <1>1, <1>5, <1>6
      <3>3. Cover(position', balance', Thrown')
        BY <1>5, <3>1, <3>2, CoverOthers
      <3> QED
        BY <3>3, CoverAfter
    <2> QED
      BY <2>1, <2>2
  <1>8. QueueRowsFollow'
    BY <1>2, <1>4, RowsNow, QueueStays
  <1>9. VaultRowFollows'
    BY <1>2, <1>4, RowsNow, RowStays
  <1>10. RowsOk' /\ UnknownHoldNothing'
    BY <1>4, RowsNow DEF RowsOk, UnknownHoldNothing
  <1> QED
    BY <1>7, <1>8, <1>9, <1>10 DEF RowsFollow, IndexFollowsChain

\* A transfer between two holders: an update of one row, an upsert of the other.
LEMMA SharesMoved ==
    ASSUME IndexInv, IInv', NEW s \in ShareAmounts, NEW f \in Accounts, NEW h \in Holders,
           h # Vault, TransferShares(f, h, s), OnTransfer(f, h, s)
    PROVE  RowsFollow'
  <1> DEFINE left == IF f \in known THEN Debit(position, f, s) ELSE position
             after == Debit(balance, f, s)
  <1>1. s \in Nat /\ f \in Holders /\ f # Vault /\ Vault \in Holders
    BY VaultAssumption, HoldersAre, AccountsFinite
  <1>2. /\ s <= balance[f] /\ balance' = Credit(after, h, s)
        /\ UNCHANGED <<deployedAssets, claimableAssets, redeemState, totalPendingRedeemShares>>
    BY DEF TransferShares, queueVars
  <1>3. /\ position' = Credit(left, h, s) /\ known' = known \cup {h}
        /\ UNCHANGED <<request, row>>
    BY <1>1 DEF OnTransfer, BetweenHolders
  <1>4. /\ after \in [Holders -> Nat] /\ after[f] = balance[f] - s
        /\ \A x \in Holders : x # f => after[x] = balance[x]
    BY <1>1, <1>2, RowsNow, DebitTotal
  <1>5. /\ left \in [Holders -> Int]
        /\ \A x \in Holders : x # f => left[x] = position[x]
        /\ f \in known => left[f] = position[f] - s
        /\ f \notin known => left[f] = position[f]
    BY <1>1, RowsNow DEF Debit
  <1> HIDE DEF left, after
  <1>6. /\ position' \in [Holders -> Int] /\ position'[h] = left[h] + s
        /\ \A x \in Holders : x # h => position'[x] = left[x]
    BY <1>1, <1>3, <1>5 DEF Credit
  <1>7. /\ balance'[h] = after[h] + s
        /\ \A x \in Holders : x # h => balance'[x] = after[x]
    BY <1>1, <1>2, <1>4 DEF Credit
  <1>8. Cover(position, balance, Thrown) /\ Thrown \in Nat /\ Thrown' \in Nat
    BY CoverNow, CoverAfter
  <1>9. Thrown' = Thrown
    BY <1>1, <1>2, <1>4, <1>7 DEF Thrown
  <1>10. Cover(left, after, Thrown)
    <2>1. Thrown \in Int /\ Thrown >= Thrown
      BY <1>8
    <2>2. CASE f \in Users
      <3>1. position[f] \in Nat /\ balance[f] \in Nat /\ position[f] >= balance[f]
        BY <1>8, <2>2 DEF Cover
      <3>2. /\ left[f] \in Nat /\ after[f] \in Nat /\ left[f] >= after[f]
            /\ left[f] - position[f] = after[f] - balance[f]
        BY <1>1, <1>2, <1>4, <1>5, <2>2, <3>1, HolderIsKnown
      <3>3. \A u \in Users : u # f => left[u] = position[u] /\ after[u] = balance[u]
        BY <1>4, <1>5, HoldersAre
      <3>4. Thrown - Thrown = (left[f] - position[f]) - (after[f] - balance[f])
        BY <1>8, <3>1, <3>2
      <3> QED
        BY <1>8, <2>1, <2>2, <3>2, <3>3, <3>4, CoverMoves
    <2>3. CASE f \notin Users
      <3>1. \A u \in Users : left[u] = position[u] /\ after[u] = balance[u]
        BY <1>4, <1>5, <2>3, HoldersAre
      <3> QED
        BY <1>8, <2>1, <3>1, CoverOthers
    <2> QED
      BY <2>2, <2>3
  <1>11. Cover(position', balance', Thrown')
    <2>1. Thrown \in Int /\ Thrown' \in Int /\ Thrown' >= Thrown
      BY <1>8, <1>9
    <2>2. CASE h \in Users
      <3>1. left[h] \in Nat /\ after[h] \in Nat /\ left[h] >= after[h]
        BY <1>10, <2>2 DEF Cover
      <3>2. /\ position'[h] \in Nat /\ balance'[h] \in Nat /\ position'[h] >= balance'[h]
            /\ position'[h] - left[h] = s /\ balance'[h] - after[h] = s
        BY <1>1, <1>6, <1>7, <3>1
      <3>3. \A u \in Users : u # h => position'[u] = left[u] /\ balance'[u] = after[u]
        BY <1>6, <1>7, HoldersAre
      <3>4. Thrown' - Thrown = (position'[h] - left[h]) - (balance'[h] - after[h])
        BY <1>1, <1>8, <1>9, <3>2
      <3> QED
        BY <1>10, <2>1, <2>2, <3>2, <3>3, <3>4, CoverMoves
    <2>3. CASE h \notin Users
      <3>1. \A u \in Users : position'[u] = left[u] /\ balance'[u] = after[u]
        BY <1>6, <1>7, <2>3, HoldersAre
      <3> QED
        BY <1>10, <2>1, <3>1, CoverOthers
    <2> QED
      BY <2>2, <2>3
  <1>12. QueueRowsFollow'
    BY <1>2, <1>3, RowsNow, QueueStays
  <1>13. VaultRowFollows'
    BY <1>2, <1>3, RowsNow, RowStays
  <1>14. RowsOk'
    BY <1>3, <1>6, RowsNow DEF RowsOk
  <1>15. UnknownHoldNothing'
    <2> SUFFICES ASSUME NEW u \in Users, u \notin known' PROVE position'[u] = 0
      BY DEF UnknownHoldNothing
    <2>1. u # h /\ u \notin known /\ position[u] = 0 /\ u \in Holders
      BY <1>3, RowsNow, HoldersAre DEF UnknownHoldNothing
    <2>2. left[u] = 0
      BY <1>5, <2>1
    <2> QED
      BY <1>6, <2>1, <2>2
  <1> QED
    BY <1>11, <1>12, <1>13, <1>14, <1>15, CoverAfter DEF RowsFollow, IndexFollowsChain

-----------------------------------------------------------------------------
\* The steps.

\* No column that follows the chain has to move.
LEMMA NothingToFold ==
    ASSUME IndexInv, IInv', UNCHANGED <<position, known, request>>,
           UNCHANGED <<deployedAssets, claimableAssets, redeemState, totalPendingRedeemShares>>,
           \A u \in Users : balance'[u] = balance[u], balance'[Vault] = balance[Vault],
           row' \in VaultRows, row'.deployedAssets = row.deployedAssets,
           row'.claimableAssets = row.claimableAssets,
           row'.totalPendingRedeemShares = row.totalPendingRedeemShares
    PROVE  RowsFollow'
  <1>1. VaultRowFollows'
    BY RowsNow, RowStays
  <1> QED
    BY <1>1, LedgerStays

\* The vault's row is read again, nothing else moves but fees.
LEMMA Moved ==
    ASSUME IndexInv, IInv', OnMoved, UNCHANGED <<redeemState, totalPendingRedeemShares>>,
           \A u \in Users : balance'[u] = balance[u], balance'[Vault] = balance[Vault]
    PROVE  RowsFollow'
  <1>1. row' = Synced(row) /\ UNCHANGED <<position, known, request>>
    BY DEF OnMoved
  <1>2. VaultRowFollows' /\ row' \in VaultRows
    BY <1>1, RowsNow, RowSynced
  <1> QED
    BY <1>1, <1>2, LedgerStays

LEMMA HolderStepFollows ==
    ASSUME IndexInv, IInv', Users \cap Funds = {}, IHolderStep
    PROVE  RowsFollow'
  <1>1. ASSUME NEW a \in Amounts, NEW h \in Receivers, Deposit(a, h),
               OnDeposit(h, supply' - Fees.supply)
        PROVE  RowsFollow'
    <2> DEFINE n == ConvertToShares(a, TotalAssets, Fees.supply)
    <2>1. h \in Holders /\ a \in Nat
      BY VaultAssumption
    <2>2. n \in Nat /\ Fees.supply \in Nat
      BY <2>1, FeesSound, ConversionNat DEF IndexInv
    <2>3. /\ supply' = Fees.supply + n /\ balance' = Credit(FeeCredited, h, n)
          /\ UNCHANGED <<redeemState, totalPendingRedeemShares>>
      BY <1>1 DEF Deposit, queueVars
    <2> HIDE DEF n
    <2>4. supply' - Fees.supply = n
      BY <2>2, <2>3
    <2>5. OnDeposit(h, n)
      BY <1>1, <2>4
    <2> QED
      BY <2>1, <2>2, <2>3, <2>5, SharesIn
  <1>2. ASSUME NEW s \in ShareAmounts, NEW h \in Receivers, Mint(s, h), OnDeposit(h, s)
        PROVE  RowsFollow'
    <2>1. /\ h \in Holders /\ s \in Nat /\ balance' = Credit(FeeCredited, h, s)
          /\ UNCHANGED <<redeemState, totalPendingRedeemShares>>
      BY <1>2, VaultAssumption DEF Mint, queueVars
    <2> QED
      BY <1>2, <2>1, SharesIn
  <1>3. ASSUME NEW s \in ShareAmounts, NEW x \in Accounts, NEW c \in Accounts, NEW o \in Accounts,
               RequestRedeem(x, s, c, o), OnRedeemQueued(c, s)
        PROVE  RowsFollow'
    BY <1>3, SharesQueued
  <1>4. ASSUME NEW s \in ShareAmounts, NEW x \in Accounts, NEW c \in Accounts,
               NEW r \in Receivers, Redeem(x, s, r, c), OnClaim(c)
        PROVE  RowsFollow'
    <2>1. PICK a \in Nat : /\ s <= redeemState[c].claimableShares
                           /\ a <= redeemState[c].claimableAssets /\ Claim(x, c, r, s, a)
      BY <1>4, RedeemIsClaim DEF IndexInv
    <2> QED
      BY <1>4, <2>1, VaultAssumption, SharesClaimed
  <1>5. ASSUME NEW a \in Amounts, NEW x \in Accounts, NEW c \in Accounts,
               NEW r \in Receivers, Withdraw(x, a, r, c), OnClaim(c)
        PROVE  RowsFollow'
    <2>1. PICK s \in Nat : /\ s <= redeemState[c].claimableShares
                           /\ a <= redeemState[c].claimableAssets /\ Claim(x, c, r, s, a)
      BY <1>5, WithdrawIsClaim DEF IndexInv
    <2> QED
      BY <1>5, <2>1, VaultAssumption, SharesClaimed
  <1>6. ASSUME NEW s \in ShareAmounts, NEW f \in Accounts, NEW h \in Holders,
               TransferShares(f, h, s), OnTransfer(f, h, s)
        PROVE  RowsFollow'
    <2>1. CASE h = Vault
      <3>1. NoHandler
        BY <1>6, <2>1 DEF OnTransfer, BetweenHolders
      <3> QED
        BY <1>6, <2>1, <3>1, SharesThrown
    <2>2. CASE h # Vault
      BY <1>6, <2>2, SharesMoved
    <2> QED
      BY <2>1, <2>2
  <1> QED
    BY <1>1, <1>2, <1>3, <1>4, <1>5, <1>6 DEF IHolderStep

LEMMA AgentStepFollows ==
    ASSUME IndexInv, IInv', Users \cap Funds = {}, IAgentStep
    PROVE  RowsFollow'
  <1>1. ASSUME NEW r, NEW c \in Accounts, NEW s \in ShareAmounts, FulfillRedeem(r, c, s),
               OnRedeemFulfilled(c, MovedPending(c), claimableAssets' - claimableAssets)
        PROVE  RowsFollow'
    BY <1>1, SharesFulfilled
  <1>2. ASSUME NEW a \in Amounts, AgentWithdraw(a) \/ AgentReturn(a), OnMoved
        PROVE  RowsFollow'
    <2>1. UNCHANGED <<redeemState, totalPendingRedeemShares, balance>>
      BY <1>2 DEF AgentWithdraw, AgentReturn, queueVars, shareVars
    <2> QED
      BY <1>2, <2>1, Moved
  <1>3. ASSUME NEW v \in NavValues, NEW x \in Leverages, ReportNav(v, x), OnNavReported
        PROVE  RowsFollow'
    <2>1. PICK n : balance' = Credit(balance, insuranceFund, n)
      BY <1>3 DEF ReportNav
    <2>2. UNCHANGED <<redeemState, totalPendingRedeemShares>>
      BY <1>3 DEF ReportNav, queueVars
    <2>3. insuranceFund \in Funds /\ balance \in [Holders -> Nat]
      BY DEF IndexInv, IInv, TypeOK
    <2>4. insuranceFund \notin Users /\ insuranceFund # Vault
      BY <2>3, AccountsFinite DEF Accounts
    <2>5. (\A u \in Users : balance'[u] = balance[u]) /\ balance'[Vault] = balance[Vault]
      BY <2>1, <2>3, <2>4, HoldersAre, AccountsFinite DEF Credit
    <2> QED
      BY <1>3, <2>2, <2>5, Moved DEF OnNavReported
  <1>4. ASSUME NEW n \in 1 .. MaxActivity, ReportActivity(n), OnActivityReported(n)
        PROVE  RowsFollow'
    <2>1. UNCHANGED <<deployedAssets, claimableAssets, redeemState,
                      totalPendingRedeemShares, balance>>
      BY <1>4 DEF ReportActivity, queueVars, shareVars
    <2>2. /\ row' = [row EXCEPT !.activityCount = @ + n]
          /\ UNCHANGED <<position, known, request>>
      BY <1>4 DEF OnActivityReported
    <2>3. row \in VaultRows /\ n \in Int
      BY RowsNow
    <2>4. /\ row' \in VaultRows /\ row'.deployedAssets = row.deployedAssets
          /\ row'.claimableAssets = row.claimableAssets
          /\ row'.totalPendingRedeemShares = row.totalPendingRedeemShares
      BY <2>2, <2>3 DEF VaultRows
    <2> QED
      BY <2>1, <2>2, <2>4, NothingToFold
  <1> QED
    BY <1>1, <1>2, <1>3, <1>4 DEF IAgentStep

\* Settling the fees moves no column but the supply's.
LEMMA SettledOutside ==
    ASSUME IndexInv, Users \cap Funds = {}, balance' = FeeCredited
    PROVE  /\ \A u \in Users : balance'[u] = balance[u]
           /\ balance'[Vault] = balance[Vault]
  BY FeesOfNobody DEF IndexInv

LEMMA AdminStepFollows ==
    ASSUME IndexInv, IInv', Users \cap Funds = {}, IAdminStep
    PROVE  RowsFollow'
  <1>1. ASSUME NEW l \in LimitChoices, SetLimits(l), OnLimitsUpdated(l)
        PROVE  RowsFollow'
    <2>1. /\ balance' = FeeCredited
          /\ UNCHANGED <<deployedAssets, claimableAssets, redeemState, totalPendingRedeemShares>>
      BY <1>1 DEF SetLimits, SettleFees, queueVars
    <2>2. row' = [row EXCEPT !.limits = l] /\ UNCHANGED <<position, known, request>>
      BY <1>1 DEF OnLimitsUpdated
    <2>3. /\ row' \in VaultRows /\ row'.deployedAssets = row.deployedAssets
          /\ row'.claimableAssets = row.claimableAssets
          /\ row'.totalPendingRedeemShares = row.totalPendingRedeemShares
      BY <2>2, RowsNow DEF VaultRows
    <2> QED
      BY <2>1, <2>2, <2>3, SettledOutside, NothingToFold
  <1>2. ASSUME NEW f \in Funds, SetInsuranceFund(f), NoHandler PROVE RowsFollow'
    <2>1. /\ balance' = FeeCredited /\ UNCHANGED <<position, known, request, row>>
          /\ UNCHANGED <<deployedAssets, claimableAssets, redeemState, totalPendingRedeemShares>>
      BY <1>2 DEF SetInsuranceFund, SettleFees, queueVars, NoHandler, rows
    <2> QED
      BY <2>1, RowsNow, SettledOutside, NothingToFold
  <1>3. ASSUME SwitchOnly, OnSwitch PROVE RowsFollow'
    <2>1. UNCHANGED <<deployedAssets, claimableAssets, redeemState,
                      totalPendingRedeemShares, balance>>
      BY <1>3 DEF SwitchOnly, queueVars, shareVars
    <2>2. /\ row' = [row EXCEPT !.paused = paused', !.emergencyExit = emergencyExit']
          /\ UNCHANGED <<position, known, request>>
          /\ paused' \in BOOLEAN /\ emergencyExit' \in BOOLEAN
      BY <1>3 DEF OnSwitch, IInv, TypeOK
    <2>3. row \in VaultRows
      BY RowsNow
    <2>4. /\ row' \in VaultRows /\ row'.deployedAssets = row.deployedAssets
          /\ row'.claimableAssets = row.claimableAssets
          /\ row'.totalPendingRedeemShares = row.totalPendingRedeemShares
      BY <2>2, <2>3 DEF VaultRows
    <2> QED
      BY <2>1, <2>2, <2>4, NothingToFold
  <1> QED
    BY <1>1, <1>2, <1>3 DEF IAdminStep, SetEmergencyExit, Pause, Unpause

LEMMA OpenStepFollows ==
    ASSUME IndexInv, IInv', Users \cap Funds = {}, IOpenStep
    PROVE  RowsFollow'
  <1>1. UNCHANGED <<position, known, request, row>>
    BY DEF IOpenStep, NoHandler, rows
  <1>2. UNCHANGED <<deployedAssets, claimableAssets, redeemState, totalPendingRedeemShares>>
    BY DEF IOpenStep, Donate, SendUsdc, AccrueFeesCall, SettleFees, NextBlock, queueVars
  <1>3. balance' = FeeCredited \/ balance' = balance
    BY DEF IOpenStep, Donate, SendUsdc, AccrueFeesCall, SettleFees, NextBlock, shareVars
  <1>4. (\A u \in Users : balance'[u] = balance[u]) /\ balance'[Vault] = balance[Vault]
    BY <1>3, SettledOutside
  <1> QED
    BY <1>1, <1>2, <1>4, RowsNow, NothingToFold

-----------------------------------------------------------------------------
\* The theorem.

\* The indexer only watches: its steps are the vault's.
LEMMA StepsOfTheVault == [INext]_ivars => [Next]_vars
  <1>1. IHolderStep => HolderStep
    BY DEF IHolderStep, HolderStep
  <1>2. IAgentStep => AgentStep
    BY DEF IAgentStep, AgentStep
  <1>3. IAdminStep => AdminStep
    BY DEF IAdminStep, AdminStep
  <1>4. IOpenStep => OpenStep
    BY DEF IOpenStep, OpenStep
  <1> QED
    BY <1>1, <1>2, <1>3, <1>4 DEF INext, Next, ivars

\* No call here approves an operator.
LEMMA NobodyApproved == INext => UNCHANGED isOperator
  <1>1. IHolderStep => UNCHANGED isOperator
    BY DEF IHolderStep, Deposit, Mint, RequestRedeem, Redeem, Withdraw, Claim, TransferShares
  <1>2. IAgentStep => UNCHANGED isOperator
    BY DEF IAgentStep, FulfillRedeem, AgentWithdraw, AgentReturn, ReportNav, ReportActivity
  <1>3. IAdminStep => UNCHANGED isOperator
    BY DEF IAdminStep, SetLimits, SetInsuranceFund, SettleFees, SetEmergencyExit, Pause,
           Unpause, SwitchOnly
  <1>4. IOpenStep => UNCHANGED isOperator
    BY DEF IOpenStep, Donate, SendUsdc, AccrueFeesCall, SettleFees, NextBlock
  <1> QED
    BY <1>1, <1>2, <1>3, <1>4 DEF INext

\* VaultCreated: a row of zeros, like the vault it is made for.
LEMMA IndexInit == IInit => IndexInv
  <1> SUFFICES ASSUME IInit PROVE IndexInv
    OBVIOUS
  <1>1. IInv /\ NoOperators
    BY InitInv DEF IInit, Init, NoOperators
  <1>2. /\ idle = 0 /\ deployedAssets = 0 /\ claimableAssets = 0 /\ totalPendingRedeemShares = 0
        /\ balance = [h \in Holders |-> 0] /\ redeemState = [a \in Accounts |-> NoRequest]
        /\ position = [h \in Holders |-> 0] /\ request = [a \in Accounts |-> NoRow]
    BY DEF IInit, Init
  <1>3. limits \in LimitChoices
    BY <1>1 DEF IInv, TypeOK
  <1>4. row = [totalAssets |-> 0, totalSupply |-> 0, idleAssets |-> 0, deployedAssets |-> 0,
               claimableAssets |-> 0, totalPendingRedeemShares |-> 0, activityCount |-> 0,
               paused |-> FALSE, emergencyExit |-> FALSE, limits |-> limits]
    BY DEF IInit
  <1>5. RowsOk
    <2>1. row \in VaultRows
      BY <1>3, <1>4 DEF VaultRows
    <2>2. request \in [Accounts -> QueueRows]
      BY <1>2 DEF NoRow, QueueRows
    <2>3. position \in [Holders -> Int]
      BY <1>2
    <2> QED
      BY <2>1, <2>2, <2>3 DEF RowsOk
  <1>6. UnknownHoldNothing
    BY <1>2, HoldersAre DEF UnknownHoldNothing
  <1>7. QueueRowsFollow
    <2>1. \A a \in Accounts : SameRow(request[a], redeemState[a])
      BY <1>2 DEF NoRow, NoRequest, SameRow
    <2> QED
      BY <2>1, QueueRowsAre
  <1>8. VaultRowFollows
    <2>1. TotalAssets + claimableAssets - deployedAssets = idle
      BY <1>2 DEF TotalAssets, TotalAssetsOf
    <2> QED
      BY <1>2, <1>4, <2>1 DEF VaultRowFollows
  <1>9. PositionRowsCover
    <2>1. \A u \in Users : position[u] = 0 /\ balance[u] = 0
      BY <1>2, HoldersAre
    <2>2. Thrown = 0
      BY <1>2, AccountsFinite DEF Thrown
    <2>3. /\ [u \in Users |-> position[u]] = [u \in Users |-> 0]
          /\ [u \in Users |-> balance[u]] = [u \in Users |-> 0]
      BY <2>1
    <2>4. PartTotal(position, Users) = 0 /\ PartTotal(balance, Users) = 0
      BY <2>3, TotalZero DEF PartTotal
    <2>5. PartTotal(position, Users) <= PartTotal(balance, Users) + Thrown
      BY <2>2, <2>4
    <2>6. \A u \in Users : position[u] >= balance[u]
      BY <2>1
    <2> QED
      BY <2>5, <2>6, CoverIs
  <1> QED
    BY <1>1, <1>5, <1>6, <1>7, <1>8, <1>9 DEF IndexInv, RowsFollow, IndexFollowsChain

LEMMA IndexNext ==
    ASSUME Users \cap Funds = {}
    PROVE  IndexInv /\ [INext]_ivars => IndexInv'
  <1> SUFFICES ASSUME IndexInv, [INext]_ivars PROVE IndexInv'
    OBVIOUS
  <1>1. IInv'
    BY StepsOfTheVault, NextInv DEF IndexInv
  <1>2. CASE INext
    <2>1. NoOperators'
      BY <1>2, NobodyApproved DEF IndexInv, NoOperators
    <2>2. RowsFollow'
      BY <1>1, <1>2, HolderStepFollows, AgentStepFollows, AdminStepFollows, OpenStepFollows
         DEF INext
    <2> QED
      BY <1>1, <2>1, <2>2 DEF IndexInv
  <1>3. CASE UNCHANGED ivars
    <2>1. UNCHANGED <<balance, redeemState, totalPendingRedeemShares, deployedAssets,
                      claimableAssets, isOperator>>
      BY <1>3 DEF ivars, vars, shareVars, queueVars
    <2>2. UNCHANGED <<position, known, request, row>>
      BY <1>3 DEF ivars, rows
    <2>3. RowsFollow'
      BY <1>1, <2>1, <2>2, RowsNow, NothingToFold
    <2>4. NoOperators'
      BY <2>1 DEF IndexInv, NoOperators
    <2> QED
      BY <1>1, <2>3, <2>4 DEF IndexInv
  <1> QED
    BY <1>2, <1>3

\* The handlers only watch: what is proved of the vault holds of a vault that is indexed.
THEOREM IndexerOnlyWatches == ISpec => Spec
  BY StepsOfTheVault, PTL DEF ISpec, Spec, IInit

(***************************************************************************)
(* The queue's rows, the vault's row and, together, the position rows are  *)
(* the contract's after every call, when no depositor is the insurance     *)
(* fund: fee shares are minted to the fund without a handler's folding     *)
(* them in.                                                                *)
(***************************************************************************)
THEOREM IndexIsCurrent ==
    ASSUME Users \cap Funds = {}
    PROVE  ISpec => []IndexFollowsChain
  <1>1. IndexInv => IndexFollowsChain
    BY DEF IndexInv, RowsFollow
  <1>2. IndexInv /\ [INext]_ivars => IndexInv'
    BY IndexNext
  <1> QED
    BY <1>1, <1>2, IndexInit, PTL DEF ISpec
=============================================================================
