-------------------------- MODULE LemonVaultProofs --------------------------
(***************************************************************************)
(* Theorems about LemonVault and about its history, for any number of      *)
(* accounts, any amounts and any limits.  The inductive invariant IInv     *)
(* adds to the invariants of LemonVault only that the two clocks of the    *)
(* contract are not ahead of the block, which every elapsed-time           *)
(* subtraction needs.  HInv, in the last part, adds what the contract's    *)
(* own state keeps of its history.                                         *)
(***************************************************************************)
EXTENDS VaultHistory, SumTheorems

ClocksOk == lastFeeAccrualAt <= now /\ agentWindowStartedAt <= now

IInv == TypeOK /\ ClocksOk /\ ClaimsBacked /\ EscrowBacked /\ SupplyIsHeld

Buckets == [pendingShares : Nat, claimableShares : Nat, claimableAssets : Nat, requestedAt : Nat]

-----------------------------------------------------------------------------
\* Integer division, rounding down as mulDiv does.

\* The quotient is a natural.
LEMMA DivNat ==
    ASSUME NEW a \in Nat, NEW b \in Nat \ {0}
    PROVE  a \div b \in Nat
  OBVIOUS

\* A quotient does not exceed what its dividend is bounded by.
LEMMA DivLe ==
    ASSUME NEW a \in Nat, NEW b \in Nat, NEW c \in Nat \ {0}, a <= b * c
    PROVE  a \div c <= b
  OBVIOUS

\* Rounding down loses value, never makes it.
LEMMA DivFloor ==
    ASSUME NEW a \in Nat, NEW c \in Nat \ {0}
    PROVE  (a \div c) * c <= a
  OBVIOUS

\* Products of naturals are naturals.
LEMMA MulNat ==
    ASSUME NEW a \in Nat, NEW b \in Nat
    PROVE  a * b \in Nat
  OBVIOUS

\* Multiplication is monotonic.
LEMMA MulMono ==
    ASSUME NEW a \in Nat, NEW b \in Nat, NEW c \in Nat, a <= b
    PROVE  a * c <= b * c
  OBVIOUS

\* A fraction of a natural at most 1 stays below it: partial claims and decay.
LEMMA ShareOfLe ==
    ASSUME NEW part \in Nat, NEW whole \in Nat \ {0}, NEW amount \in Nat, part <= whole
    PROVE  /\ (part * amount) \div whole \in Nat
           /\ (part * amount) \div whole <= amount
  <1>1. part * amount \in Nat /\ part * amount <= amount * whole
    <2>1. part * amount <= whole * amount
      BY MulMono
    <2>2. whole * amount = amount * whole
      OBVIOUS
    <2> QED
      BY <2>1, <2>2, MulNat
  <1> QED
    BY <1>1, DivNat, DivLe

-----------------------------------------------------------------------------
\* Fees.

\* The units of UnitsAssumption, one by one.
LEMMA UnitsPositive ==
    /\ BPS \in Nat \ {0} /\ YEAR \in Nat \ {0}
    /\ VirtualShares \in Nat \ {0} /\ AssetUnit \in Nat \ {0}
  BY UnitsAssumption

\* A conversion to assets is defined whatever the supply: virtual shares keep
\* the denominator positive.
LEMMA ConversionNat ==
    ASSUME NEW n \in Nat, NEW total \in Nat, NEW issued \in Nat
    PROVE  /\ ConvertToAssets(n, total, issued) \in Nat
           /\ ConvertToShares(n, total, issued) \in Nat
           /\ AssetsToMint(n, total, issued) \in Nat
  <1>1. issued + VirtualShares \in Nat \ {0} /\ total + 1 \in Nat \ {0}
    BY UnitsPositive
  <1>2. n * (total + 1) \in Nat /\ n * (issued + VirtualShares) \in Nat
    BY <1>1, MulNat
  <1>3. n * (total + 1) + (issued + VirtualShares) - 1 \in Nat
    BY <1>1, <1>2
  <1> QED
    BY <1>1, <1>2, <1>3, DivNat DEF ConvertToAssets, ConvertToShares, AssetsToMint, CeilDiv

\* pricePerShare() is defined in every state.
LEMMA PriceNat ==
    ASSUME NEW total \in Nat, NEW issued \in Nat
    PROVE  PricePerShare(total, issued) \in Nat
  <1>1. PriceUnit \in Nat
    BY UnitsPositive, MulNat DEF PriceUnit
  <1> QED
    BY <1>1, ConversionNat DEF PricePerShare

\* _mintFeeShares never divides by zero: it skips a fee that would take everything.
LEMMA FeeSharesNat ==
    ASSUME NEW fee \in Nat, NEW total \in Nat, NEW issued \in Nat
    PROVE  FeeShares(fee, total, issued) \in Nat
  <1>1. CASE fee = 0 \/ total = 0 \/ fee >= total
    BY <1>1 DEF FeeShares
  <1>2. CASE ~(fee = 0 \/ total = 0 \/ fee >= total)
    <2>1. total - fee \in Nat \ {0}
      BY <1>2
    <2>2. fee * (issued + VirtualShares) \in Nat
      BY UnitsPositive, MulNat
    <2> QED
      BY <1>2, <2>1, <2>2, DivNat DEF FeeShares
  <1> QED
    BY <1>1, <1>2

\* Accruing fees is dilution only: it never burns a share.
LEMMA AccrueFeesDilutes ==
    ASSUME NEW total \in Nat, NEW issued \in Nat, NEW mark \in Nat, NEW elapsed \in Nat,
           NEW l, l.managementFeeBps \in Nat, l.performanceFeeBps \in Nat
    PROVE  /\ AccrueFees(total, issued, mark, elapsed, l).supply \in Nat
           /\ AccrueFees(total, issued, mark, elapsed, l).supply >= issued
           /\ AccrueFees(total, issued, mark, elapsed, l).mark \in Nat
  <1> DEFINE rent   == ManagementFee(total, elapsed, l)
             rented == issued + FeeShares(rent, total, issued)
             pps    == PricePerShare(total, rented)
             cut    == PerformanceFee(pps, mark, rented, l)
             taxed  == rented + FeeShares(cut, total, rented)
  <1>1. rent \in Nat
    <2>1. BPS * YEAR \in Nat \ {0}
      BY UnitsPositive
    <2>2. total * (l.managementFeeBps * elapsed) \in Nat
      BY MulNat
    <2> QED
      BY <2>1, <2>2, DivNat DEF ManagementFee
  <1>2. rented \in Nat /\ rented >= issued
    <2> HIDE DEF rent
    <2>1. FeeShares(rent, total, issued) \in Nat
      BY <1>1, FeeSharesNat
    <2> QED
      BY <2>1
  <1>3. pps \in Nat
    BY <1>2, PriceNat
  <1>4. ASSUME pps > mark
        PROVE  taxed \in Nat /\ taxed >= issued /\ PricePerShare(total, taxed) \in Nat
    <2>1. PriceUnit \in Nat \ {0}
      BY UnitsPositive DEF PriceUnit
    <2>2. (pps - mark) * rented \in Nat
      BY <1>2, <1>3, <1>4, MulNat
    <2>3. ((pps - mark) * rented) \div PriceUnit \in Nat
      BY <2>1, <2>2, DivNat
    <2>4. (((pps - mark) * rented) \div PriceUnit) * l.performanceFeeBps \in Nat
      BY <2>3, MulNat
    <2>5. cut \in Nat
      BY <2>4, UnitsPositive, DivNat DEF PerformanceFee
    <2>6. taxed \in Nat /\ taxed >= issued
      <3> HIDE DEF rented, cut
      <3>1. FeeShares(cut, total, rented) \in Nat
        BY <1>2, <2>5, FeeSharesNat
      <3> QED
        BY <1>2, <3>1
    <2> QED
      BY <2>6, PriceNat
  <1>5. AccrueFees(total, issued, mark, elapsed, l) =
            IF issued = 0
            THEN [supply |-> issued, mark |-> AssetUnit]
            ELSE IF l.performanceFeeBps > 0 /\ pps > mark
                 THEN [supply |-> taxed, mark |-> PricePerShare(total, taxed)]
                 ELSE [supply |-> rented, mark |-> mark]
    BY DEF AccrueFees, MarkAfterFee
  <1> HIDE DEF rent, rented, pps, cut, taxed
  <1>6. CASE issued = 0
    BY <1>5, <1>6, UnitsPositive
  <1>7. CASE issued # 0 /\ l.performanceFeeBps > 0 /\ pps > mark
    BY <1>4, <1>5, <1>7
  <1>8. CASE issued # 0 /\ ~(l.performanceFeeBps > 0 /\ pps > mark)
    BY <1>2, <1>5, <1>8
  <1> QED
    BY <1>6, <1>7, <1>8

\* totalAssets(): with what is owed in the contract, nothing saturates.
LEMMA IdleDerived ==
    ASSUME NEW i \in Nat, NEW d \in Nat, NEW k \in Nat, k <= i
    PROVE  TotalAssetsOf(i, d, k) + k - d = i /\ TotalAssetsOf(i, d, k) \in Nat
  BY DEF TotalAssetsOf

-----------------------------------------------------------------------------
\* Constants.

\* Accounts and holders are finite, and the vault is a holder but no account.
LEMMA AccountsFinite ==
    IsFiniteSet(Accounts) /\ IsFiniteSet(Holders) /\ Vault \in Holders /\ Vault \notin Accounts
  <1>1. IsFiniteSet(Accounts)
    BY VaultAssumption, FS_Union DEF Accounts
  <1>2. IsFiniteSet({Vault})
    BY FS_Singleton
  <1>3. IsFiniteSet(Holders)
    BY <1>1, <1>2, FS_Union DEF Holders
  <1> QED
    BY <1>1, <1>3, VaultAssumption DEF Holders

\* Every limit an action reads is a natural.
LEMMA LimitsNat ==
    ASSUME NEW l \in LimitChoices
    PROVE  /\ l.managementFeeBps \in Nat /\ l.performanceFeeBps \in Nat
           /\ l.agentWithdrawWindow \in Nat /\ l.agentWithdrawWindowCap \in Nat
           /\ l.minRedeemDelay \in Nat
  BY VaultAssumption DEF LimitFields

-----------------------------------------------------------------------------
\* The share ledger.

\* Crediting a holder adds the amount to the total and takes from nobody (_mint).
LEMMA CreditTotal ==
    ASSUME NEW b \in [Holders -> Nat], NEW h \in Holders, NEW n \in Nat
    PROVE  /\ Credit(b, h, n) \in [Holders -> Nat]
           /\ Total(Credit(b, h, n)) = Total(b) + n
           /\ \A x \in Holders : Credit(b, h, n)[x] >= b[x]
           /\ Credit(b, h, n)[h] = b[h] + n
           /\ \A x \in Holders : x # h => Credit(b, h, n)[x] = b[x]
  <1> DEFINE d == Credit(b, h, n)
  <1>1. /\ d \in [Holders -> Nat] /\ d[h] = b[h] + n
        /\ \A x \in Holders : x # h => d[x] = b[x]
    BY DEF Credit
  <1> HIDE DEF d
  <1>2. Total(d) + b[h] = Total(b) + d[h]
    BY <1>1, AccountsFinite, TotalChange
  <1>3. Total(b) \in Nat /\ Total(d) \in Nat
    BY <1>1, AccountsFinite, TotalNat
  <1>4. Total(d) = Total(b) + n
    BY <1>1, <1>2, <1>3
  <1>5. \A x \in Holders : b[x] \in Nat
    OBVIOUS
  <1> QED
    BY <1>1, <1>4, <1>5 DEF d

\* Debiting a holder what it has takes the amount from the total (_burn).
LEMMA DebitTotal ==
    ASSUME NEW b \in [Holders -> Nat], NEW h \in Holders, NEW n \in Nat, n <= b[h]
    PROVE  /\ Debit(b, h, n) \in [Holders -> Nat]
           /\ Total(Debit(b, h, n)) = Total(b) - n
           /\ Debit(b, h, n)[h] = b[h] - n
           /\ \A x \in Holders : x # h => Debit(b, h, n)[x] = b[x]
  <1> DEFINE d == Debit(b, h, n)
  <1>1. /\ d \in [Holders -> Nat] /\ d[h] = b[h] - n
        /\ \A x \in Holders : x # h => d[x] = b[x]
    BY DEF Debit
  <1> HIDE DEF d
  <1>2. Total(d) + b[h] = Total(b) + d[h]
    BY <1>1, AccountsFinite, TotalChange
  <1>3. Total(b) \in Nat /\ Total(d) \in Nat
    BY <1>1, AccountsFinite, TotalNat
  <1>4. Total(d) = Total(b) - n
    BY <1>1, <1>2, <1>3
  <1>5. \A x \in Holders : b[x] \in Nat
    OBVIOUS
  <1> QED
    BY <1>1, <1>4, <1>5 DEF d

\* What _accrueFees() leaves behind, wherever it is called.
LEMMA FeesSound ==
    ASSUME IInv
    PROVE  /\ TotalAssets \in Nat /\ FreeAssets \in Nat
           /\ Fees.supply \in Nat /\ Fees.supply >= supply /\ Fees.mark \in Nat
           /\ FeeCredited \in [Holders -> Nat]
           /\ Total(FeeCredited) = Fees.supply
           /\ FeeCredited[Vault] = balance[Vault]
           /\ \A h \in Holders : FeeCredited[h] >= balance[h]
  <1>1. TotalAssets \in Nat /\ FreeAssets \in Nat
    BY DEF IInv, TypeOK, TotalAssets, FreeAssets, TotalAssetsOf, FreeAssetsOf
  <1>2. now - lastFeeAccrualAt \in Nat /\ supply \in Nat /\ highWaterMarkPps \in Nat
    BY DEF IInv, TypeOK, ClocksOk
  <1>3. limits.managementFeeBps \in Nat /\ limits.performanceFeeBps \in Nat
    BY LimitsNat DEF IInv, TypeOK
  <1>4. Fees.supply \in Nat /\ Fees.supply >= supply /\ Fees.mark \in Nat
    BY <1>1, <1>2, <1>3, AccrueFeesDilutes DEF Fees
  <1>5. insuranceFund \in Holders /\ insuranceFund # Vault
    BY AccountsFinite DEF IInv, TypeOK, Holders, Accounts
  <1>6. Fees.supply - supply \in Nat /\ balance \in [Holders -> Nat] /\ supply = Total(balance)
    BY <1>2, <1>4 DEF IInv, TypeOK, SupplyIsHeld
  <1>7. /\ FeeCredited \in [Holders -> Nat]
        /\ Total(FeeCredited) = Total(balance) + (Fees.supply - supply)
        /\ \A h \in Holders : FeeCredited[h] >= balance[h]
        /\ \A h \in Holders : h # insuranceFund => FeeCredited[h] = balance[h]
    BY <1>5, <1>6, CreditTotal DEF FeeCredited
  <1> QED
    BY <1>1, <1>2, <1>4, <1>5, <1>6, <1>7, AccountsFinite

\* A mint to any holder on top of the fee shares.
LEMMA FeeCreditTotal ==
    ASSUME IInv, NEW h \in Holders, NEW n \in Nat
    PROVE  /\ Credit(FeeCredited, h, n) \in [Holders -> Nat]
           /\ Total(Credit(FeeCredited, h, n)) = Fees.supply + n
           /\ Credit(FeeCredited, h, n)[Vault] >= balance[Vault]
  <1> DEFINE c == FeeCredited
  <1>1. /\ c \in [Holders -> Nat] /\ Total(c) = Fees.supply /\ c[Vault] = balance[Vault]
    BY FeesSound
  <1> HIDE DEF c
  <1>2. /\ Credit(c, h, n) \in [Holders -> Nat] /\ Total(Credit(c, h, n)) = Total(c) + n
        /\ \A x \in Holders : Credit(c, h, n)[x] >= c[x]
    BY <1>1, CreditTotal
  <1> QED
    BY <1>1, <1>2, AccountsFinite DEF c

-----------------------------------------------------------------------------
\* The redemption queue: one bucket changes, the sums change with it.

\* One controller's bucket changes, and the two sums change with it.
LEMMA BucketUpdate ==
    ASSUME IInv, NEW c \in Accounts, NEW r \in Buckets,
           redeemState' = [redeemState EXCEPT ![c] = r]
    PROVE  /\ redeemState' \in [Accounts -> Buckets]
           /\ Total(ClaimsOf') + redeemState[c].claimableAssets = Total(ClaimsOf) + r.claimableAssets
           /\ Total(PendingOf') + redeemState[c].pendingShares = Total(PendingOf) + r.pendingShares
           /\ Total(ClaimsOf) \in Nat /\ Total(ClaimsOf') \in Nat
           /\ Total(PendingOf) \in Nat /\ Total(PendingOf') \in Nat
           /\ redeemState[c] \in Buckets
           /\ redeemState[c].claimableAssets <= Total(ClaimsOf)
           /\ redeemState[c].pendingShares <= Total(PendingOf)
  <1>1. redeemState \in [Accounts -> Buckets]
    BY DEF IInv, TypeOK, Buckets
  <1>2. redeemState' \in [Accounts -> Buckets]
    BY <1>1
  <1>3. ClaimsOf \in [Accounts -> Nat] /\ PendingOf \in [Accounts -> Nat]
    BY <1>1 DEF ClaimsOf, PendingOf, Buckets
  <1>4. /\ ClaimsOf' = [ClaimsOf EXCEPT ![c] = r.claimableAssets]
        /\ PendingOf' = [PendingOf EXCEPT ![c] = r.pendingShares]
    BY <1>1 DEF ClaimsOf, PendingOf, Buckets
  <1>5. /\ ClaimsOf[c] = redeemState[c].claimableAssets
        /\ PendingOf[c] = redeemState[c].pendingShares
    BY DEF ClaimsOf, PendingOf
  <1>6. r.claimableAssets \in Nat /\ r.pendingShares \in Nat
    BY DEF Buckets
  <1>7. ClaimsOf' \in [Accounts -> Nat] /\ PendingOf' \in [Accounts -> Nat]
    BY <1>3, <1>4, <1>6
  <1>8. /\ Total(ClaimsOf) \in Nat /\ Total(ClaimsOf') \in Nat
        /\ Total(PendingOf) \in Nat /\ Total(PendingOf') \in Nat
    BY <1>3, <1>7, AccountsFinite, TotalNat
  <1>9. /\ Total(ClaimsOf') + ClaimsOf[c] = Total(ClaimsOf) + r.claimableAssets
        /\ Total(PendingOf') + PendingOf[c] = Total(PendingOf) + r.pendingShares
    <2>1. /\ ClaimsOf'[c] = r.claimableAssets /\ \A y \in Accounts : y # c => ClaimsOf'[y] = ClaimsOf[y]
          /\ PendingOf'[c] = r.pendingShares /\ \A y \in Accounts : y # c => PendingOf'[y] = PendingOf[y]
      BY <1>3, <1>4
    <2>2. Total(ClaimsOf') + ClaimsOf[c] = Total(ClaimsOf) + ClaimsOf'[c]
      BY <1>3, <1>7, <2>1, AccountsFinite, TotalChange
    <2>3. Total(PendingOf') + PendingOf[c] = Total(PendingOf) + PendingOf'[c]
      BY <1>3, <1>7, <2>1, AccountsFinite, TotalChange
    <2> QED
      BY <2>1, <2>2, <2>3
  <1>10. ClaimsOf[c] <= Total(ClaimsOf) /\ PendingOf[c] <= Total(PendingOf)
    BY <1>3, AccountsFinite, TotalCovers
  <1> QED
    BY <1>1, <1>2, <1>5, <1>8, <1>9, <1>10

\* A call that leaves the queue alone leaves its sums alone.
LEMMA QueueKept ==
    ASSUME IInv, UNCHANGED queueVars
    PROVE  /\ Total(ClaimsOf') = Total(ClaimsOf)
           /\ Total(PendingOf') = Total(PendingOf)
  BY DEF queueVars, ClaimsOf, PendingOf

\* What the three edits of a bucket do to the fields the invariants speak of.
LEMMA AddPendingBucket ==
    ASSUME NEW b \in Buckets, NEW n \in Nat, now \in Nat
    PROVE  /\ AddPending(b, n) \in Buckets
           /\ AddPending(b, n).claimableAssets = b.claimableAssets
           /\ AddPending(b, n).pendingShares = b.pendingShares + n
  <1>1. /\ b.pendingShares \in Nat /\ b.claimableShares \in Nat
        /\ b.claimableAssets \in Nat /\ b.requestedAt \in Nat
    BY DEF Buckets
  <1> DEFINE c == [b EXCEPT !.pendingShares = b.pendingShares + n]
             d == [c EXCEPT !.requestedAt = now]
  <1>2. c \in Buckets
    BY <1>1 DEF Buckets
  <1>3. d \in Buckets
    <2> HIDE DEF c
    <2> QED
      BY <1>1, <1>2 DEF Buckets
  <1>4. AddPending(b, n) = d
    BY DEF AddPending
  <1>5. /\ AddPending(b, n).claimableAssets = b.claimableAssets
        /\ AddPending(b, n).pendingShares = b.pendingShares + n
    BY DEF AddPending, Buckets
  <1> HIDE DEF c, d
  <1> QED
    BY <1>3, <1>4, <1>5

\* fulfillRedeem moves shares from pending to claimable and adds their price.
LEMMA FulfilledBucket ==
    ASSUME NEW b \in Buckets, NEW n \in Nat, NEW a \in Nat, n <= b.pendingShares
    PROVE  /\ Fulfilled(b, n, a) \in Buckets
           /\ Fulfilled(b, n, a).claimableAssets = b.claimableAssets + a
           /\ Fulfilled(b, n, a).pendingShares = b.pendingShares - n
  <1>1. /\ b.pendingShares \in Nat /\ b.claimableShares \in Nat
        /\ b.claimableAssets \in Nat /\ b.requestedAt \in Nat
    BY DEF Buckets
  <1> DEFINE c == [b EXCEPT !.pendingShares = b.pendingShares - n]
             d == [c EXCEPT !.claimableShares = b.claimableShares + n]
             e == [d EXCEPT !.claimableAssets = b.claimableAssets + a]
  <1>2. c \in Buckets
    BY <1>1 DEF Buckets
  <1>3. d \in Buckets
    <2> HIDE DEF c
    <2> QED
      BY <1>1, <1>2 DEF Buckets
  <1>4. e \in Buckets
    <2> HIDE DEF d
    <2> QED
      BY <1>1, <1>3 DEF Buckets
  <1>5. Fulfilled(b, n, a) = e
    BY DEF Fulfilled
  <1>6. /\ Fulfilled(b, n, a).claimableAssets = b.claimableAssets + a
        /\ Fulfilled(b, n, a).pendingShares = b.pendingShares - n
    BY DEF Fulfilled, Buckets
  <1> HIDE DEF c, d, e
  <1> QED
    BY <1>4, <1>5, <1>6

\* _claim strikes what it pays and leaves the pending shares.
LEMMA ClaimedBucket ==
    ASSUME NEW b \in Buckets, NEW n \in Nat, NEW a \in Nat,
           n <= b.claimableShares, a <= b.claimableAssets
    PROVE  /\ Claimed(b, n, a) \in Buckets
           /\ Claimed(b, n, a).claimableAssets = b.claimableAssets - a
           /\ Claimed(b, n, a).pendingShares = b.pendingShares
  <1>1. /\ b.pendingShares \in Nat /\ b.claimableShares \in Nat
        /\ b.claimableAssets \in Nat /\ b.requestedAt \in Nat
    BY DEF Buckets
  <1> DEFINE c == [b EXCEPT !.claimableShares = b.claimableShares - n]
             d == [c EXCEPT !.claimableAssets = b.claimableAssets - a]
  <1>2. c \in Buckets
    BY <1>1 DEF Buckets
  <1>3. d \in Buckets
    <2> HIDE DEF c
    <2> QED
      BY <1>1, <1>2 DEF Buckets
  <1>4. Claimed(b, n, a) = d
    BY DEF Claimed
  <1>5. /\ Claimed(b, n, a).claimableAssets = b.claimableAssets - a
        /\ Claimed(b, n, a).pendingShares = b.pendingShares
    BY DEF Claimed, Buckets
  <1> HIDE DEF c, d
  <1> QED
    BY <1>3, <1>4, <1>5

\* The initial state.
LEMMA InitInv == Init => IInv
  <1> SUFFICES ASSUME Init PROVE IInv
    OBVIOUS
  <1>1. /\ now = 1 /\ AssetUnit \in Nat /\ limits \in LimitChoices /\ ValidLimits(limits)
        /\ insuranceFund \in Funds
    BY UnitsPositive DEF Init
  <1>2. TypeOK
    <2>1. balance \in [Holders -> Nat]
      BY DEF Init
    <2>2. NoRequest \in Buckets
      BY DEF NoRequest, Buckets
    <2>3. redeemState \in [Accounts -> Buckets]
      BY <2>2 DEF Init
    <2>4. isOperator \in [Accounts -> SUBSET Operators]
      BY DEF Init
    <2>5. {now, idle, deployedAssets, claimableAssets, supply, totalPendingRedeemShares,
           highWaterMarkPps, lastFeeAccrualAt, lastNavReportAt, navEpochStartedAt,
           navEpochAnchor, lastObservedLeverageBps, agentWindowStartedAt,
           agentWithdrawnInWindow, activityCount} \subseteq Nat
      BY <1>1 DEF Init
    <2>6. paused \in BOOLEAN /\ emergencyExit \in BOOLEAN
      BY DEF Init
    <2> QED
      BY <1>1, <2>1, <2>3, <2>4, <2>5, <2>6 DEF TypeOK, Buckets
  <1>3. ClocksOk
    BY DEF Init, ClocksOk
  <1>4. Total(balance) = 0
    BY TotalZero DEF Init
  <1>5. ClaimsOf = [a \in Accounts |-> 0] /\ PendingOf = [a \in Accounts |-> 0]
    BY DEF Init, ClaimsOf, PendingOf, NoRequest
  <1>6. Total(ClaimsOf) = 0 /\ Total(PendingOf) = 0
    BY <1>5, TotalZero
  <1>7. ClaimsBacked
    BY <1>6 DEF Init, ClaimsBacked
  <1>8. EscrowBacked
    BY <1>6, AccountsFinite DEF Init, EscrowBacked
  <1>9. SupplyIsHeld
    BY <1>4 DEF Init, SupplyIsHeld
  <1> QED
    BY <1>2, <1>3, <1>7, <1>8, <1>9 DEF IInv

\* A step that leaves the queue alone, takes no USDC out and moves no escrowed share.
LEMMA LedgerStep ==
    ASSUME IInv, UNCHANGED <<queueVars, claimableAssets>>,
           idle' \in Nat, idle' >= idle,
           balance' \in [Holders -> Nat], supply' = Total(balance'),
           balance'[Vault] >= balance[Vault]
    PROVE  ClaimsBacked' /\ EscrowBacked' /\ SupplyIsHeld'
  <1>1. ClaimsBacked'
    BY QueueKept DEF IInv, ClaimsBacked, TypeOK
  <1>2. EscrowBacked'
    BY QueueKept, AccountsFinite DEF IInv, EscrowBacked, TypeOK, queueVars
  <1> QED
    BY <1>1, <1>2 DEF SupplyIsHeld

-----------------------------------------------------------------------------
\* Deposits.

\* deposit() preserves the invariant.
LEMMA DepositInv ==
    ASSUME IInv, NEW assets \in Amounts, NEW receiver \in Receivers, Deposit(assets, receiver)
    PROVE  IInv'
  <1> DEFINE shares == ConvertToShares(assets, TotalAssets, Fees.supply)
  <1>1. /\ supply' = Fees.supply + shares
        /\ balance' = Credit(FeeCredited, receiver, shares)
        /\ idle' = idle + assets
        /\ highWaterMarkPps' = Fees.mark /\ lastFeeAccrualAt' = now
        /\ UNCHANGED <<now, deployedAssets, claimableAssets, queueVars, isOperator,
                       navVars, windowVars, adminVars, activityCount>>
    BY DEF Deposit, FeesSettled
  <1>2. assets \in Nat /\ receiver \in Holders
    BY VaultAssumption
  <1>3. shares \in Nat
    BY <1>2, FeesSound, ConversionNat
  <1> HIDE DEF shares
  <1>4. /\ balance' \in [Holders -> Nat] /\ Total(balance') = Fees.supply + shares
        /\ balance'[Vault] >= balance[Vault]
    BY <1>1, <1>2, <1>3, FeeCreditTotal
  <1>5. TypeOK'
    BY <1>1, <1>2, <1>3, <1>4, FeesSound
       DEF IInv, TypeOK, queueVars, navVars, windowVars, adminVars
  <1>6. ClocksOk'
    BY <1>1 DEF IInv, ClocksOk, TypeOK, windowVars
  <1>7. idle' \in Nat /\ idle' >= idle
    BY <1>1, <1>2 DEF IInv, TypeOK
  <1>8. ClaimsBacked' /\ EscrowBacked' /\ SupplyIsHeld'
    BY <1>1, <1>4, <1>7, LedgerStep
  <1> QED
    BY <1>5, <1>6, <1>8 DEF IInv

\* mint() preserves the invariant.
LEMMA MintInv ==
    ASSUME IInv, NEW shares \in ShareAmounts, NEW receiver \in Receivers, Mint(shares, receiver)
    PROVE  IInv'
  <1> DEFINE assets == AssetsToMint(shares, TotalAssets, Fees.supply)
  <1>1. /\ supply' = Fees.supply + shares
        /\ balance' = Credit(FeeCredited, receiver, shares)
        /\ idle' = idle + assets
        /\ highWaterMarkPps' = Fees.mark /\ lastFeeAccrualAt' = now
        /\ UNCHANGED <<now, deployedAssets, claimableAssets, queueVars, isOperator,
                       navVars, windowVars, adminVars, activityCount>>
    BY DEF Mint, FeesSettled
  <1>2. shares \in Nat /\ receiver \in Holders
    BY VaultAssumption
  <1>3. assets \in Nat
    BY <1>2, FeesSound, ConversionNat
  <1> HIDE DEF assets
  <1>4. /\ balance' \in [Holders -> Nat] /\ Total(balance') = Fees.supply + shares
        /\ balance'[Vault] >= balance[Vault]
    BY <1>1, <1>2, <1>3, FeeCreditTotal
  <1>5. TypeOK'
    BY <1>1, <1>2, <1>3, <1>4, FeesSound
       DEF IInv, TypeOK, queueVars, navVars, windowVars, adminVars
  <1>6. ClocksOk'
    BY <1>1 DEF IInv, ClocksOk, TypeOK, windowVars
  <1>7. idle' \in Nat /\ idle' >= idle
    BY <1>1, <1>3 DEF IInv, TypeOK
  <1>8. ClaimsBacked' /\ EscrowBacked' /\ SupplyIsHeld'
    BY <1>1, <1>4, <1>7, LedgerStep
  <1> QED
    BY <1>5, <1>6, <1>8 DEF IInv

-----------------------------------------------------------------------------
\* Redemptions.

\* requestRedeem(): the shares leave the owner and reach the escrow in one call.
LEMMA RequestRedeemInv ==
    ASSUME IInv, NEW shares \in ShareAmounts,
           NEW caller \in Accounts, NEW controller \in Accounts, NEW owner \in Accounts,
           RequestRedeem(caller, shares, controller, owner)
    PROVE  IInv'
  <1> DEFINE r == AddPending(redeemState[controller], shares)
             credited == FeeCredited
  <1>1. /\ shares <= credited[owner]
        /\ supply' = Fees.supply
        /\ balance' = Credit(Debit(credited, owner, shares), Vault, shares)
        /\ redeemState' = [redeemState EXCEPT ![controller] = r]
        /\ totalPendingRedeemShares' = totalPendingRedeemShares + shares
        /\ highWaterMarkPps' = Fees.mark /\ lastFeeAccrualAt' = now
        /\ UNCHANGED <<now, idle, deployedAssets, claimableAssets, isOperator,
                       navVars, windowVars, adminVars, activityCount>>
    BY DEF RequestRedeem, FeesSettled
  <1>2. shares \in Nat /\ owner \in Holders /\ owner # Vault /\ Vault \in Holders
    BY VaultAssumption, AccountsFinite DEF Holders
  <1>3. /\ credited \in [Holders -> Nat] /\ Total(credited) = Fees.supply
        /\ credited[Vault] = balance[Vault]
    BY FeesSound
  <1>4. /\ r \in Buckets
        /\ r.claimableAssets = redeemState[controller].claimableAssets
        /\ r.pendingShares = redeemState[controller].pendingShares + shares
    <2>1. redeemState[controller] \in Buckets /\ now \in Nat
      BY DEF IInv, TypeOK, Buckets
    <2> QED
      BY <1>2, <2>1, AddPendingBucket
  <1> HIDE DEF r, credited
  <1> DEFINE d == Debit(credited, owner, shares)
  <1>5. /\ d \in [Holders -> Nat] /\ Total(d) = Fees.supply - shares
        /\ d[Vault] = balance[Vault]
    BY <1>1, <1>2, <1>3, DebitTotal
  <1> HIDE DEF d
  <1>6. /\ Credit(d, Vault, shares) \in [Holders -> Nat]
        /\ Total(Credit(d, Vault, shares)) = Total(d) + shares
        /\ Credit(d, Vault, shares)[Vault] = d[Vault] + shares
    BY <1>2, <1>5, CreditTotal
  <1>7. /\ balance' \in [Holders -> Nat] /\ Total(balance') = Fees.supply
        /\ balance'[Vault] = balance[Vault] + shares
    BY <1>1, <1>2, <1>5, <1>6, FeesSound DEF d
  <1>8. /\ redeemState' \in [Accounts -> Buckets]
        /\ Total(ClaimsOf') + redeemState[controller].claimableAssets
             = Total(ClaimsOf) + r.claimableAssets
        /\ Total(PendingOf') + redeemState[controller].pendingShares
             = Total(PendingOf) + r.pendingShares
        /\ Total(ClaimsOf) \in Nat /\ Total(ClaimsOf') \in Nat
        /\ Total(PendingOf) \in Nat /\ Total(PendingOf') \in Nat
        /\ redeemState[controller].claimableAssets \in Nat
        /\ redeemState[controller].pendingShares \in Nat
    BY <1>1, <1>4, BucketUpdate DEF Buckets
  <1>9. Total(ClaimsOf') = Total(ClaimsOf) /\ Total(PendingOf') = Total(PendingOf) + shares
    BY <1>2, <1>4, <1>8
  <1>10. TypeOK'
    BY <1>1, <1>2, <1>7, <1>8, FeesSound
       DEF IInv, TypeOK, Buckets, navVars, windowVars, adminVars
  <1>11. ClocksOk'
    BY <1>1 DEF IInv, ClocksOk, TypeOK, windowVars
  <1>12. ClaimsBacked'
    BY <1>1, <1>9 DEF IInv, ClaimsBacked
  <1>13. EscrowBacked'
    BY <1>1, <1>2, <1>7, <1>9, AccountsFinite DEF IInv, TypeOK, EscrowBacked
  <1>14. SupplyIsHeld'
    BY <1>1, <1>7 DEF SupplyIsHeld
  <1> QED
    BY <1>10, <1>11, <1>12, <1>13, <1>14 DEF IInv

\* fulfillRedeem(): what leaves the escrow is burned, what is set aside was free.
LEMMA FulfillRedeemInv ==
    ASSUME IInv, NEW role, NEW controller \in Accounts, NEW shares \in ShareAmounts,
           FulfillRedeem(role, controller, shares)
    PROVE  IInv'
  <1> DEFINE assets == ConvertToAssets(shares, TotalAssets, Fees.supply)
             r == Fulfilled(redeemState[controller], shares, assets)
             credited == FeeCredited
  <1>1. /\ shares <= redeemState[controller].pendingShares
        /\ assets <= FreeAssets
        /\ shares <= totalPendingRedeemShares /\ shares <= balance[Vault]
        /\ redeemState' = [redeemState EXCEPT ![controller] = r]
        /\ totalPendingRedeemShares' = totalPendingRedeemShares - shares
        /\ claimableAssets' = claimableAssets + assets
        /\ supply' = Fees.supply - shares
        /\ balance' = Debit(credited, Vault, shares)
        /\ highWaterMarkPps' = Fees.mark /\ lastFeeAccrualAt' = now
        /\ UNCHANGED <<now, idle, deployedAssets, isOperator,
                       navVars, windowVars, adminVars, activityCount>>
    BY DEF FulfillRedeem, FeesSettled, BurnedEscrow
  <1>2. shares \in Nat /\ Vault \in Holders
    BY VaultAssumption, AccountsFinite
  <1>3. assets \in Nat
    BY <1>2, FeesSound, ConversionNat
  <1> HIDE DEF assets
  <1>4. /\ credited \in [Holders -> Nat] /\ Total(credited) = Fees.supply
        /\ credited[Vault] = balance[Vault]
    BY FeesSound
  <1>5. /\ r \in Buckets
        /\ r.claimableAssets = redeemState[controller].claimableAssets + assets
        /\ r.pendingShares = redeemState[controller].pendingShares - shares
    <2>1. redeemState[controller] \in Buckets
      BY DEF IInv, TypeOK, Buckets
    <2> QED
      BY <1>1, <1>2, <1>3, <2>1, FulfilledBucket
  <1> HIDE DEF r, credited
  <1>6. /\ Debit(credited, Vault, shares) \in [Holders -> Nat]
        /\ Total(Debit(credited, Vault, shares)) = Total(credited) - shares
        /\ Debit(credited, Vault, shares)[Vault] = credited[Vault] - shares
    BY <1>1, <1>2, <1>4, DebitTotal
  <1>7. /\ balance' \in [Holders -> Nat] /\ Total(balance') = Fees.supply - shares
        /\ balance'[Vault] = balance[Vault] - shares
    BY <1>1, <1>4, <1>6
  <1>8. /\ redeemState' \in [Accounts -> Buckets]
        /\ Total(ClaimsOf') + redeemState[controller].claimableAssets
             = Total(ClaimsOf) + r.claimableAssets
        /\ Total(PendingOf') + redeemState[controller].pendingShares
             = Total(PendingOf) + r.pendingShares
        /\ Total(ClaimsOf) \in Nat /\ Total(ClaimsOf') \in Nat
        /\ Total(PendingOf) \in Nat /\ Total(PendingOf') \in Nat
        /\ redeemState[controller].claimableAssets \in Nat
        /\ redeemState[controller].pendingShares \in Nat
    BY <1>1, <1>5, BucketUpdate DEF Buckets
  <1>9. /\ Total(ClaimsOf') = Total(ClaimsOf) + assets
        /\ Total(PendingOf') = Total(PendingOf) - shares
    BY <1>1, <1>2, <1>3, <1>5, <1>8
  <1>10. supply' \in Nat
    BY <1>1, <1>7, TotalNat, AccountsFinite
  <1>11. TypeOK'
    BY <1>1, <1>2, <1>3, <1>7, <1>8, <1>10, FeesSound
       DEF IInv, TypeOK, Buckets, navVars, windowVars, adminVars
  <1>12. ClocksOk'
    BY <1>1 DEF IInv, ClocksOk, TypeOK, windowVars
  <1>13. ClaimsBacked'
    BY <1>1, <1>3, <1>9 DEF IInv, TypeOK, ClaimsBacked, FreeAssets, FreeAssetsOf
  <1>14. EscrowBacked'
    BY <1>1, <1>2, <1>7, <1>9, AccountsFinite DEF IInv, TypeOK, EscrowBacked
  <1>15. SupplyIsHeld'
    BY <1>1, <1>7 DEF SupplyIsHeld
  <1> QED
    BY <1>11, <1>12, <1>13, <1>14, <1>15 DEF IInv

\* A claim of no more than the bucket holds, whoever sends it and wherever it goes.
LEMMA ClaimInv ==
    ASSUME IInv, NEW caller, NEW controller \in Accounts, NEW receiver,
           NEW shares \in Nat, NEW assets \in Nat,
           shares <= redeemState[controller].claimableShares,
           assets <= redeemState[controller].claimableAssets,
           Claim(caller, controller, receiver, shares, assets)
    PROVE  IInv'
  <1> DEFINE r == Claimed(redeemState[controller], shares, assets)
  <1>1. /\ assets <= claimableAssets /\ assets <= idle
        /\ redeemState' = [redeemState EXCEPT ![controller] = r]
        /\ claimableAssets' = claimableAssets - assets
        /\ idle' = IF receiver = Vault THEN idle ELSE idle - assets
        /\ UNCHANGED <<now, deployedAssets, shareVars, totalPendingRedeemShares, isOperator,
                       feeVars, navVars, windowVars, adminVars, activityCount>>
    BY DEF Claim
  <1>2. /\ r \in Buckets
        /\ r.claimableAssets = redeemState[controller].claimableAssets - assets
        /\ r.pendingShares = redeemState[controller].pendingShares
    <2>1. redeemState[controller] \in Buckets
      BY DEF IInv, TypeOK, Buckets
    <2> QED
      BY <2>1, ClaimedBucket
  <1> HIDE DEF r
  <1>3. /\ redeemState' \in [Accounts -> Buckets]
        /\ Total(ClaimsOf') + redeemState[controller].claimableAssets
             = Total(ClaimsOf) + r.claimableAssets
        /\ Total(PendingOf') + redeemState[controller].pendingShares
             = Total(PendingOf) + r.pendingShares
        /\ Total(ClaimsOf) \in Nat /\ Total(ClaimsOf') \in Nat
        /\ Total(PendingOf) \in Nat /\ Total(PendingOf') \in Nat
        /\ redeemState[controller].claimableAssets \in Nat
        /\ redeemState[controller].pendingShares \in Nat
    BY <1>1, <1>2, BucketUpdate DEF Buckets
  <1>4. /\ Total(ClaimsOf') = Total(ClaimsOf) - assets
        /\ Total(PendingOf') = Total(PendingOf)
    BY <1>2, <1>3
  <1>5. idle' \in Nat /\ claimableAssets' \in Nat /\ claimableAssets' <= idle'
    BY <1>1 DEF IInv, TypeOK, ClaimsBacked
  <1>6. TypeOK'
    BY <1>1, <1>3, <1>5
       DEF IInv, TypeOK, Buckets, shareVars, feeVars, navVars, windowVars, adminVars
  <1>7. ClocksOk'
    BY <1>1 DEF IInv, ClocksOk, feeVars, windowVars
  <1>8. ClaimsBacked'
    BY <1>1, <1>4, <1>5 DEF IInv, ClaimsBacked
  <1>9. EscrowBacked'
    BY <1>1, <1>4 DEF IInv, EscrowBacked, shareVars
  <1>10. SupplyIsHeld'
    BY <1>1 DEF IInv, SupplyIsHeld, shareVars
  <1> QED
    BY <1>6, <1>7, <1>8, <1>9, <1>10 DEF IInv

\* redeem(): the pro-rata assets of a partial claim never exceed the bucket.
LEMMA RedeemIsClaim ==
    ASSUME IInv, NEW caller, NEW shares \in ShareAmounts, NEW receiver,
           NEW controller \in Accounts, Redeem(caller, shares, receiver, controller)
    PROVE  \E assets \in Nat :
             /\ shares <= redeemState[controller].claimableShares
             /\ assets <= redeemState[controller].claimableAssets
             /\ Claim(caller, controller, receiver, shares, assets)
  <1> DEFINE r == redeemState[controller]
             assets == (shares * r.claimableAssets) \div r.claimableShares
  <1>1. shares <= r.claimableShares /\ Claim(caller, controller, receiver, shares, assets)
    BY DEF Redeem
  <1>2. shares \in Nat \ {0}
    BY VaultAssumption
  <1>3. r.claimableShares \in Nat /\ r.claimableAssets \in Nat
    BY DEF IInv, TypeOK
  <1>4. assets \in Nat /\ assets <= r.claimableAssets
    <2>1. r.claimableShares \in Nat \ {0}
      BY <1>1, <1>2, <1>3
    <2> HIDE DEF r
    <2> QED
      BY <1>1, <1>2, <1>3, <2>1, ShareOfLe
  <1> HIDE DEF assets
  <1> QED
    BY <1>1, <1>4

LEMMA RedeemInv ==
    ASSUME IInv, NEW caller, NEW shares \in ShareAmounts, NEW receiver,
           NEW controller \in Accounts, Redeem(caller, shares, receiver, controller)
    PROVE  IInv'
  BY RedeemIsClaim, ClaimInv, VaultAssumption

\* withdraw(): the shares struck, rounded up, are capped by the bucket.
LEMMA WithdrawIsClaim ==
    ASSUME IInv, NEW caller, NEW assets \in Amounts, NEW receiver,
           NEW controller \in Accounts, Withdraw(caller, assets, receiver, controller)
    PROVE  \E shares \in Nat :
             /\ shares <= redeemState[controller].claimableShares
             /\ assets <= redeemState[controller].claimableAssets
             /\ Claim(caller, controller, receiver, shares, assets)
  <1> DEFINE r == redeemState[controller]
             q == CeilDiv(assets * r.claimableShares, r.claimableAssets)
             shares == IF q > r.claimableShares THEN r.claimableShares ELSE q
  <1>1. assets <= r.claimableAssets /\ Claim(caller, controller, receiver, shares, assets)
    BY DEF Withdraw
  <1>2. assets \in Nat \ {0}
    BY VaultAssumption
  <1>3. r.claimableShares \in Nat /\ r.claimableAssets \in Nat
    BY DEF IInv, TypeOK
  <1>4. q \in Nat
    <2>1. r.claimableAssets \in Nat \ {0}
      BY <1>1, <1>2, <1>3
    <2>2. assets * r.claimableShares \in Nat
      BY <1>2, <1>3, MulNat
    <2>3. assets * r.claimableShares + r.claimableAssets - 1 \in Nat
      <3> HIDE DEF r
      <3> QED
        BY <2>1, <2>2
    <2> QED
      BY <2>1, <2>3, DivNat DEF CeilDiv
  <1> HIDE DEF q
  <1>5. shares \in Nat /\ shares <= r.claimableShares
    BY <1>3, <1>4
  <1> HIDE DEF shares
  <1> QED
    BY <1>1, <1>5

LEMMA WithdrawInv ==
    ASSUME IInv, NEW caller, NEW assets \in Amounts, NEW receiver,
           NEW controller \in Accounts, Withdraw(caller, assets, receiver, controller)
    PROVE  IInv'
  BY WithdrawIsClaim, ClaimInv, VaultAssumption

\* Operator approvals touch nothing else.
LEMMA SetOperatorInv ==
    ASSUME IInv, NEW caller \in Accounts, NEW operator \in Operators, NEW approved \in BOOLEAN,
           SetOperator(caller, operator, approved)
    PROVE  IInv'
  <1>1. /\ isOperator' = [isOperator EXCEPT ![caller] =
                             IF approved THEN @ \cup {operator} ELSE @ \ {operator}]
        /\ UNCHANGED <<now, idle, deployedAssets, claimableAssets, shareVars, queueVars,
                       feeVars, navVars, windowVars, adminVars, activityCount>>
    BY DEF SetOperator
  <1>2. isOperator' \in [Accounts -> SUBSET Operators]
    BY <1>1 DEF IInv, TypeOK
  <1>3. TypeOK'
    BY <1>1, <1>2
       DEF IInv, TypeOK, shareVars, queueVars, feeVars, navVars, windowVars, adminVars
  <1>4. ClocksOk'
    BY <1>1 DEF IInv, ClocksOk, feeVars, windowVars
  <1>5. ClaimsBacked' /\ EscrowBacked' /\ SupplyIsHeld'
    BY <1>1, QueueKept
       DEF IInv, ClaimsBacked, EscrowBacked, SupplyIsHeld, shareVars, queueVars
  <1> QED
    BY <1>3, <1>4, <1>5 DEF IInv

-----------------------------------------------------------------------------
\* Capital movement.

\* What is left of the leaky bucket is between nothing and what was drawn.
LEMMA DrawnNowNat ==
    ASSUME IInv
    PROVE  DrawnNow \in Nat /\ DrawnNow <= agentWithdrawnInWindow
  <1> DEFINE elapsed == now - agentWindowStartedAt
             w == limits.agentWithdrawWindow
             n == agentWithdrawnInWindow
  <1>1. elapsed \in Nat /\ w \in Nat /\ n \in Nat
    BY LimitsNat DEF IInv, TypeOK, ClocksOk
  <1>2. DrawnNow = IF elapsed >= w THEN 0 ELSE n - ((n * elapsed) \div w)
    BY DEF DrawnNow
  <1> HIDE DEF elapsed, w, n
  <1>3. CASE elapsed >= w
    BY <1>1, <1>2, <1>3 DEF n
  <1>4. CASE elapsed < w
    <2>1. w \in Nat \ {0} /\ elapsed <= w
      BY <1>1, <1>4
    <2>2. (elapsed * n) \div w \in Nat /\ (elapsed * n) \div w <= n
      BY <1>1, <2>1, ShareOfLe
    <2>3. elapsed * n = n * elapsed
      BY <1>1
    <2>4. DrawnNow \in Nat /\ DrawnNow <= n
      BY <1>1, <1>2, <1>4, <2>2, <2>3
    <2> QED
      BY <2>4 DEF n
  <1> QED
    BY <1>1, <1>3, <1>4

\* agentWithdraw() can only take free assets, so claims stay backed.
LEMMA AgentWithdrawInv ==
    ASSUME IInv, NEW amount \in Amounts, AgentWithdraw(amount)
    PROVE  IInv'
  <1>1. /\ amount <= FreeAssets
        /\ agentWindowStartedAt' = now
        /\ agentWithdrawnInWindow' = DrawnNow + amount
        /\ deployedAssets' = deployedAssets + amount
        /\ navEpochAnchor' = navEpochAnchor + amount
        /\ idle' = idle - amount
        /\ UNCHANGED <<now, claimableAssets, shareVars, queueVars, isOperator, feeVars,
                       lastNavReportAt, navEpochStartedAt, lastObservedLeverageBps,
                       adminVars, activityCount>>
    BY DEF AgentWithdraw, WindowRestart, AnchorAfterWithdraw
  <1>2. amount \in Nat /\ amount # 0
    BY VaultAssumption
  <1>3. idle' \in Nat /\ claimableAssets <= idle'
    BY <1>1, <1>2 DEF IInv, TypeOK, FreeAssets, FreeAssetsOf
  <1>4. agentWithdrawnInWindow' \in Nat
    BY <1>1, <1>2, DrawnNowNat
  <1>5. TypeOK'
    BY <1>1, <1>2, <1>3, <1>4 DEF IInv, TypeOK, shareVars, queueVars, feeVars, adminVars
  <1>6. ClocksOk'
    BY <1>1 DEF IInv, TypeOK, ClocksOk, feeVars
  <1>7. ClaimsBacked' /\ EscrowBacked' /\ SupplyIsHeld'
    BY <1>1, <1>3, QueueKept
       DEF IInv, ClaimsBacked, EscrowBacked, SupplyIsHeld, shareVars, queueVars
  <1> QED
    BY <1>5, <1>6, <1>7 DEF IInv

\* agentReturn(): the anchor and the deployed assets never underflow.
LEMMA AgentReturnInv ==
    ASSUME IInv, NEW amount \in Amounts, AgentReturn(amount)
    PROVE  IInv'
  <1> DEFINE credited == IF amount < deployedAssets THEN amount ELSE deployedAssets
  <1>1. /\ idle' = idle + amount
        /\ deployedAssets' = deployedAssets - credited
        /\ navEpochAnchor' = AnchorAfterReturn(credited)
        /\ UNCHANGED <<now, claimableAssets, shareVars, queueVars, isOperator, feeVars,
                       lastNavReportAt, navEpochStartedAt, lastObservedLeverageBps,
                       windowVars, adminVars, activityCount>>
    BY DEF AgentReturn
  <1>2. amount \in Nat
    BY VaultAssumption
  <1>3. idle' \in Nat /\ idle' >= idle /\ deployedAssets' \in Nat /\ navEpochAnchor' \in Nat
    BY <1>1, <1>2 DEF IInv, TypeOK, AnchorAfterReturn
  <1>4. TypeOK'
    BY <1>1, <1>3 DEF IInv, TypeOK, shareVars, queueVars, feeVars, windowVars, adminVars
  <1>5. ClocksOk'
    BY <1>1 DEF IInv, ClocksOk, feeVars, windowVars
  <1>6. ClaimsBacked' /\ EscrowBacked' /\ SupplyIsHeld'
    BY <1>1, <1>3, QueueKept
       DEF IInv, TypeOK, ClaimsBacked, EscrowBacked, SupplyIsHeld, shareVars, queueVars
  <1> QED
    BY <1>4, <1>5, <1>6 DEF IInv

\* A transfer of USDC straight to the vault, with no function of it called.
LEMMA SendUsdcInv ==
    ASSUME IInv, NEW amount \in Amounts, SendUsdc(amount)
    PROVE  IInv'
  <1>1. /\ idle' = idle + amount
        /\ UNCHANGED <<now, deployedAssets, claimableAssets, shareVars, queueVars, isOperator,
                       feeVars, navVars, windowVars, adminVars, activityCount>>
    BY DEF SendUsdc
  <1>2. idle' \in Nat /\ idle' >= idle
    BY <1>1, VaultAssumption DEF IInv, TypeOK
  <1>3. TypeOK'
    BY <1>1, <1>2
       DEF IInv, TypeOK, shareVars, queueVars, feeVars, navVars, windowVars, adminVars
  <1>4. ClocksOk'
    BY <1>1 DEF IInv, ClocksOk, feeVars, windowVars
  <1>5. ClaimsBacked' /\ EscrowBacked' /\ SupplyIsHeld'
    BY <1>1, <1>2, QueueKept
       DEF IInv, TypeOK, ClaimsBacked, EscrowBacked, SupplyIsHeld, shareVars, queueVars
  <1> QED
    BY <1>3, <1>4, <1>5 DEF IInv

\* donate() preserves the invariant.
LEMMA DonateInv ==
    ASSUME IInv, NEW amount \in Amounts, Donate(amount)
    PROVE  IInv'
  <1> DEFINE pps == PricePerShare(TotalAssetsOf(idle + amount, deployedAssets, claimableAssets),
                                  Fees.supply)
  <1>1. /\ idle' = idle + amount
        /\ supply' = Fees.supply
        /\ balance' = FeeCredited
        /\ highWaterMarkPps' = DonatedMark(pps, Fees.mark)
        /\ lastFeeAccrualAt' = now
        /\ UNCHANGED <<now, deployedAssets, claimableAssets, queueVars, isOperator,
                       navVars, windowVars, adminVars, activityCount>>
    BY DEF Donate
  <1>2. idle' \in Nat /\ idle' >= idle
    BY <1>1, VaultAssumption DEF IInv, TypeOK
  <1>3. pps \in Nat
    <2>1. TotalAssetsOf(idle + amount, deployedAssets, claimableAssets) \in Nat
      BY <1>1, <1>2 DEF IInv, TypeOK, TotalAssetsOf
    <2> QED
      BY <2>1, FeesSound, PriceNat
  <1> HIDE DEF pps
  <1>4. highWaterMarkPps' \in Nat
    BY <1>1, <1>3, FeesSound DEF DonatedMark
  <1>5. TypeOK'
    BY <1>1, <1>2, <1>4, FeesSound DEF IInv, TypeOK, queueVars, navVars, windowVars, adminVars
  <1>6. ClocksOk'
    BY <1>1 DEF IInv, TypeOK, ClocksOk, windowVars
  <1>7. ClaimsBacked' /\ EscrowBacked' /\ SupplyIsHeld'
    <2>1. /\ balance' \in [Holders -> Nat] /\ supply' = Total(balance')
          /\ balance'[Vault] >= balance[Vault]
      BY <1>1, FeesSound, AccountsFinite DEF IInv, TypeOK
    <2> QED
      BY <1>1, <1>2, <2>1, LedgerStep
  <1> QED
    BY <1>5, <1>6, <1>7 DEF IInv

-----------------------------------------------------------------------------
\* Reports.

\* reportNav(): both accruals mint to the insurance fund and nothing else moves.
LEMMA ReportNavInv ==
    ASSUME IInv, NEW new \in NavValues, NEW leverage \in Leverages, ReportNav(new, leverage)
    PROVE  IInv'
  <1> DEFINE total == TotalAssetsOf(idle, new, claimableAssets)
             repriced == AccrueFees(total, Fees.supply, Fees.mark, 0, limits)
  <1>1. /\ navEpochStartedAt' = IF NavEpochOver THEN now ELSE navEpochStartedAt
        /\ navEpochAnchor' = AnchorNow
        /\ deployedAssets' = new
        /\ lastObservedLeverageBps' = leverage
        /\ lastNavReportAt' = now
        /\ supply' = repriced.supply
        /\ balance' = Credit(balance, insuranceFund, repriced.supply - supply)
        /\ highWaterMarkPps' = repriced.mark
        /\ lastFeeAccrualAt' = now
        /\ UNCHANGED <<now, idle, claimableAssets, queueVars, isOperator, windowVars,
                       adminVars, activityCount>>
    BY DEF ReportNav
  <1>2. new \in Nat /\ leverage \in Nat
    BY VaultAssumption
  <1>3. total \in Nat
    BY <1>2 DEF IInv, TypeOK, TotalAssetsOf
  <1>4. limits.managementFeeBps \in Nat /\ limits.performanceFeeBps \in Nat
    BY LimitsNat DEF IInv, TypeOK
  <1>5. Fees.supply \in Nat /\ Fees.supply >= supply /\ Fees.mark \in Nat
    BY FeesSound
  <1>6. /\ repriced.supply \in Nat /\ repriced.supply >= Fees.supply /\ repriced.mark \in Nat
    <2> HIDE DEF total
    <2> QED
      BY <1>3, <1>4, <1>5, AccrueFeesDilutes
  <1> HIDE DEF repriced
  <1>7. /\ repriced.supply - supply \in Nat
        /\ balance \in [Holders -> Nat] /\ supply = Total(balance) /\ supply \in Nat
        /\ insuranceFund \in Holders
    BY <1>5, <1>6 DEF IInv, TypeOK, SupplyIsHeld, Holders, Accounts
  <1> DEFINE minted == repriced.supply - supply
  <1>8. minted \in Nat /\ minted + supply = repriced.supply
    BY <1>6, <1>7
  <1> HIDE DEF minted
  <1>9. /\ Credit(balance, insuranceFund, minted) \in [Holders -> Nat]
        /\ Total(Credit(balance, insuranceFund, minted)) = supply + minted
        /\ \A x \in Holders : Credit(balance, insuranceFund, minted)[x] >= balance[x]
    BY <1>7, <1>8, CreditTotal
  <1>10. /\ balance' \in [Holders -> Nat] /\ supply' = Total(balance')
         /\ balance'[Vault] >= balance[Vault] /\ supply' \in Nat
    BY <1>1, <1>6, <1>7, <1>8, <1>9, AccountsFinite DEF minted
  <1>11. navEpochAnchor' \in Nat /\ navEpochStartedAt' \in Nat
    BY <1>1 DEF IInv, TypeOK, AnchorNow
  <1>12. TypeOK'
    BY <1>1, <1>2, <1>6, <1>10, <1>11 DEF IInv, TypeOK, queueVars, windowVars, adminVars
  <1>13. ClocksOk'
    BY <1>1 DEF IInv, TypeOK, ClocksOk, windowVars
  <1>14. ClaimsBacked' /\ EscrowBacked' /\ SupplyIsHeld'
    <2>1. idle' \in Nat /\ idle' >= idle
      BY <1>1 DEF IInv, TypeOK
    <2> QED
      BY <1>1, <1>10, <2>1, LedgerStep
  <1> QED
    BY <1>12, <1>13, <1>14 DEF IInv

\* reportActivity() and reportActivityBatch() move no value.
LEMMA ReportActivityInv ==
    ASSUME IInv, NEW n \in 1 .. MaxActivity, ReportActivity(n)
    PROVE  IInv'
  <1>1. /\ activityCount' = activityCount + n
        /\ UNCHANGED <<now, idle, deployedAssets, claimableAssets, shareVars, queueVars,
                       isOperator, feeVars, navVars, windowVars, adminVars>>
    BY DEF ReportActivity
  <1>2. activityCount' \in Nat
    BY <1>1, VaultAssumption DEF IInv, TypeOK
  <1>3. TypeOK'
    BY <1>1, <1>2
       DEF IInv, TypeOK, shareVars, queueVars, feeVars, navVars, windowVars, adminVars
  <1>4. ClocksOk'
    BY <1>1 DEF IInv, ClocksOk, feeVars, windowVars
  <1>5. ClaimsBacked' /\ EscrowBacked' /\ SupplyIsHeld'
    BY <1>1, QueueKept
       DEF IInv, ClaimsBacked, EscrowBacked, SupplyIsHeld, shareVars, queueVars
  <1> QED
    BY <1>3, <1>4, <1>5 DEF IInv

-----------------------------------------------------------------------------
\* Administration: fees settle, then limits or fund change.

\* Settling the fees preserves the invariant whatever the administrator sets next.
LEMMA SettleFeesInv ==
    ASSUME IInv, SettleFees, limits' \in LimitChoices, ValidLimits(limits)',
           paused' \in BOOLEAN, emergencyExit' \in BOOLEAN, insuranceFund' \in Funds
    PROVE  IInv'
  <1>1. /\ supply' = Fees.supply /\ balance' = FeeCredited
        /\ highWaterMarkPps' = Fees.mark /\ lastFeeAccrualAt' = now
        /\ UNCHANGED <<now, idle, deployedAssets, claimableAssets, queueVars, isOperator,
                       navVars, windowVars, activityCount>>
    BY DEF SettleFees, FeesSettled
  <1>2. TypeOK'
    BY <1>1, FeesSound DEF IInv, TypeOK, queueVars, navVars, windowVars
  <1>3. ClocksOk'
    BY <1>1 DEF IInv, TypeOK, ClocksOk, windowVars
  <1>4. /\ balance' \in [Holders -> Nat] /\ supply' = Total(balance')
        /\ balance'[Vault] >= balance[Vault] /\ idle' \in Nat /\ idle' >= idle
    BY <1>1, FeesSound, AccountsFinite DEF IInv, TypeOK
  <1>5. ClaimsBacked' /\ EscrowBacked' /\ SupplyIsHeld'
    BY <1>1, <1>4, LedgerStep
  <1> QED
    BY <1>2, <1>3, <1>5 DEF IInv

\* accrueFees(), setLimits() and setInsuranceFund() preserve the invariant.
LEMMA AdminInv ==
    ASSUME IInv,
           \/ AccrueFeesCall
           \/ \E l \in LimitChoices : SetLimits(l)
           \/ \E f \in Funds : SetInsuranceFund(f)
    PROVE  IInv'
  <1>1. CASE AccrueFeesCall
    BY <1>1, SettleFeesInv DEF AccrueFeesCall, adminVars, IInv, TypeOK, ValidLimits
  <1>2. ASSUME NEW l \in LimitChoices, SetLimits(l) PROVE IInv'
    BY <1>2, SettleFeesInv DEF SetLimits, IInv, TypeOK, ValidLimits
  <1>3. ASSUME NEW f \in Funds, SetInsuranceFund(f) PROVE IInv'
    BY <1>3, SettleFeesInv DEF SetInsuranceFund, IInv, TypeOK, ValidLimits
  <1> QED
    BY <1>1, <1>2, <1>3

\* pause(), unpause() and setEmergencyExit() preserve the invariant.
LEMMA SwitchInv ==
    ASSUME IInv, SwitchOnly, paused' \in BOOLEAN, emergencyExit' \in BOOLEAN
    PROVE  IInv'
  <1>1. TypeOK'
    BY DEF IInv, TypeOK, SwitchOnly, shareVars, queueVars, feeVars, navVars, windowVars
  <1>2. ClocksOk'
    BY DEF IInv, ClocksOk, SwitchOnly, feeVars, windowVars
  <1>3. ClaimsBacked' /\ EscrowBacked' /\ SupplyIsHeld'
    BY QueueKept
       DEF IInv, ClaimsBacked, EscrowBacked, SupplyIsHeld, SwitchOnly, shareVars, queueVars
  <1> QED
    BY <1>1, <1>2, <1>3 DEF IInv

-----------------------------------------------------------------------------
\* The environment.

\* A transfer of shares, to the vault's own address too, keeps the escrow backed.
LEMMA TransferSharesInv ==
    ASSUME IInv, NEW from \in Accounts, NEW to \in Holders, NEW shares \in ShareAmounts,
           TransferShares(from, to, shares)
    PROVE  IInv'
  <1> DEFINE d == Debit(balance, from, shares)
  <1>1. /\ shares <= balance[from]
        /\ balance' = Credit(d, to, shares)
        /\ UNCHANGED <<now, idle, deployedAssets, claimableAssets, supply, queueVars,
                       isOperator, feeVars, navVars, windowVars, adminVars, activityCount>>
    BY DEF TransferShares
  <1>2. /\ shares \in Nat /\ from \in Holders /\ from # Vault /\ Vault \in Holders
        /\ balance \in [Holders -> Nat] /\ supply = Total(balance) /\ supply \in Nat
    BY VaultAssumption, AccountsFinite DEF Holders, IInv, TypeOK, SupplyIsHeld
  <1>3. d \in [Holders -> Nat] /\ Total(d) = Total(balance) - shares /\ d[Vault] = balance[Vault]
    BY <1>1, <1>2, DebitTotal
  <1> HIDE DEF d
  <1>4. /\ Credit(d, to, shares) \in [Holders -> Nat]
        /\ Total(Credit(d, to, shares)) = Total(d) + shares
        /\ \A x \in Holders : Credit(d, to, shares)[x] >= d[x]
    BY <1>2, <1>3, CreditTotal
  <1>5. /\ balance' \in [Holders -> Nat] /\ supply' = Total(balance')
        /\ balance'[Vault] >= balance[Vault]
    BY <1>1, <1>2, <1>3, <1>4
  <1>6. TypeOK'
    BY <1>1, <1>5 DEF IInv, TypeOK, queueVars, feeVars, navVars, windowVars, adminVars
  <1>7. ClocksOk'
    BY <1>1 DEF IInv, ClocksOk, feeVars, windowVars
  <1>8. idle' \in Nat /\ idle' >= idle
    BY <1>1 DEF IInv, TypeOK
  <1>9. ClaimsBacked' /\ EscrowBacked' /\ SupplyIsHeld'
    BY <1>1, <1>5, <1>8, LedgerStep
  <1> QED
    BY <1>6, <1>7, <1>9 DEF IInv

\* Time passing preserves the invariant.
LEMMA NextBlockInv == ASSUME IInv, NextBlock PROVE IInv'
  <1>1. /\ now' = now + 1
        /\ UNCHANGED <<idle, deployedAssets, claimableAssets, shareVars, queueVars, isOperator,
                       feeVars, navVars, windowVars, adminVars, activityCount>>
    BY DEF NextBlock
  <1>2. TypeOK'
    BY <1>1 DEF IInv, TypeOK, shareVars, queueVars, feeVars, navVars, windowVars, adminVars
  <1>3. ClocksOk'
    BY <1>1 DEF IInv, TypeOK, ClocksOk, feeVars, windowVars
  <1>4. ClaimsBacked' /\ EscrowBacked' /\ SupplyIsHeld'
    BY <1>1, QueueKept
       DEF IInv, ClaimsBacked, EscrowBacked, SupplyIsHeld, shareVars, queueVars
  <1> QED
    BY <1>2, <1>3, <1>4 DEF IInv

\* A step of something else preserves the invariant.
LEMMA StutterInv == ASSUME IInv, UNCHANGED vars PROVE IInv'
  <1>1. TypeOK' /\ ClocksOk'
    BY DEF IInv, TypeOK, ClocksOk, vars, shareVars, queueVars, feeVars, navVars, windowVars,
           adminVars
  <1>2. ClaimsBacked' /\ EscrowBacked' /\ SupplyIsHeld'
    BY QueueKept
       DEF IInv, ClaimsBacked, EscrowBacked, SupplyIsHeld, vars, shareVars, queueVars
  <1> QED
    BY <1>1, <1>2 DEF IInv

-----------------------------------------------------------------------------
\* The theorems.

\* Every call of every caller preserves the inductive invariant.
LEMMA NextInv == IInv /\ [Next]_vars => IInv'
  <1> SUFFICES ASSUME IInv, [Next]_vars PROVE IInv'
    OBVIOUS
  <1>1. CASE HolderStep
    <2>1. ASSUME NEW a \in Amounts, NEW h \in Receivers, Deposit(a, h) PROVE IInv'
      BY <2>1, DepositInv
    <2>2. ASSUME NEW s \in ShareAmounts, NEW h \in Receivers, Mint(s, h) PROVE IInv'
      BY <2>2, MintInv
    <2>3. ASSUME NEW c \in Accounts, NEW o \in Operators, NEW b \in BOOLEAN, SetOperator(c, o, b)
          PROVE  IInv'
      BY <2>3, SetOperatorInv
    <2>4. ASSUME NEW s \in ShareAmounts, NEW x \in Accounts, NEW c \in Accounts,
                 NEW o \in Accounts, RequestRedeem(x, s, c, o)
          PROVE  IInv'
      BY <2>4, RequestRedeemInv
    <2>5. ASSUME NEW s \in ShareAmounts, NEW x \in Accounts, NEW c \in Accounts,
                 NEW r \in Receivers, Redeem(x, s, r, c)
          PROVE  IInv'
      BY <2>5, RedeemInv
    <2>6. ASSUME NEW a \in Amounts, NEW x \in Accounts, NEW c \in Accounts,
                 NEW r \in Receivers, Withdraw(x, a, r, c)
          PROVE  IInv'
      BY <2>6, WithdrawInv
    <2>7. ASSUME NEW s \in ShareAmounts, NEW f \in Accounts, NEW h \in Holders,
                 TransferShares(f, h, s)
          PROVE  IInv'
      BY <2>7, TransferSharesInv
    <2> QED
      BY <1>1, <2>1, <2>2, <2>3, <2>4, <2>5, <2>6, <2>7 DEF HolderStep
  <1>2. CASE AgentStep
    <2>1. ASSUME NEW r, NEW c \in Accounts, NEW s \in ShareAmounts, FulfillRedeem(r, c, s)
          PROVE  IInv'
      BY <2>1, FulfillRedeemInv
    <2>2. ASSUME NEW a \in Amounts, AgentWithdraw(a) PROVE IInv'
      BY <2>2, AgentWithdrawInv
    <2>3. ASSUME NEW a \in Amounts, AgentReturn(a) PROVE IInv'
      BY <2>3, AgentReturnInv
    <2>4. ASSUME NEW v \in NavValues, NEW x \in Leverages, ReportNav(v, x) PROVE IInv'
      BY <2>4, ReportNavInv
    <2>5. ASSUME NEW n \in 1 .. MaxActivity, ReportActivity(n) PROVE IInv'
      BY <2>5, ReportActivityInv
    <2> QED
      BY <1>2, <2>1, <2>2, <2>3, <2>4, <2>5 DEF AgentStep
  <1>3. CASE AdminStep
    <2>1. ASSUME NEW l \in LimitChoices, SetLimits(l) PROVE IInv'
      BY <2>1, AdminInv
    <2>2. ASSUME NEW f \in Funds, SetInsuranceFund(f) PROVE IInv'
      BY <2>2, AdminInv
    <2>3. ASSUME NEW b \in BOOLEAN, SetEmergencyExit(b) PROVE IInv'
      BY <2>3, SwitchInv DEF SetEmergencyExit, IInv, TypeOK
    <2>4. CASE Pause \/ Unpause
      BY <2>4, SwitchInv DEF Pause, Unpause, IInv, TypeOK
    <2> QED
      BY <1>3, <2>1, <2>2, <2>3, <2>4 DEF AdminStep
  <1>4. CASE OpenStep
    <2>1. ASSUME NEW a \in Amounts, Donate(a) PROVE IInv'
      BY <2>1, DonateInv
    <2>2. ASSUME NEW a \in Amounts, SendUsdc(a) PROVE IInv'
      BY <2>2, SendUsdcInv
    <2>3. CASE AccrueFeesCall
      BY <2>3, AdminInv
    <2>4. CASE NextBlock
      BY <2>4, NextBlockInv
    <2> QED
      BY <1>4, <2>1, <2>2, <2>3, <2>4 DEF OpenStep
  <1>5. CASE UNCHANGED vars
    BY <1>5, StutterInv
  <1> QED
    BY <1>1, <1>2, <1>3, <1>4, <1>5 DEF Next

\* The inductive invariant holds in every state the vault reaches.
THEOREM Inductive == Spec => []IInv
  BY InitInv, NextInv, PTL DEF Spec

\* Every variable keeps its Solidity type: no subtraction of the contract underflows.
THEOREM TypeCorrect == Spec => []TypeOK
  <1>1. IInv => TypeOK
    BY DEF IInv
  <1> QED
    BY <1>1, Inductive, PTL

(***************************************************************************)
(* Solvency of the queue: what fulfilled redemptions may claim is exactly  *)
(* claimableAssets, and it is in the contract, whatever the agent draws,   *)
(* reports or returns.                                                     *)
(***************************************************************************)
THEOREM Solvent == Spec => []ClaimsBacked
  <1>1. IInv => ClaimsBacked
    BY DEF IInv
  <1> QED
    BY <1>1, Inductive, PTL

\* The shares of every pending request are in escrow until they are priced.
THEOREM QueueEscrowed == Spec => []EscrowBacked
  <1>1. IInv => EscrowBacked
    BY DEF IInv
  <1> QED
    BY <1>1, Inductive, PTL

\* No call creates or destroys a share without the supply moving with it.
THEOREM Conserved == Spec => []SupplyIsHeld
  <1>1. IInv => SupplyIsHeld
    BY DEF IInv
  <1> QED
    BY <1>1, Inductive, PTL

(***************************************************************************)
(* The epoch anchor follows capital exactly: only a report can open a gap  *)
(* between what is deployed and what it is compared with, so no sequence   *)
(* of draws and returns can manufacture, or hide, a profit.                *)
(***************************************************************************)
THEOREM CapitalIsNotProfit == Spec => MovedCapitalIsNotProfit
  <1> DEFINE A == \/ Reported
                  \/ navEpochAnchor' = 0
                  \/ deployedAssets' + navEpochAnchor = deployedAssets + navEpochAnchor'
  <1>1. ASSUME IInv, [Next]_vars PROVE [A]_vars
    <2>1. deployedAssets \in Nat /\ navEpochAnchor \in Nat
      BY <1>1 DEF IInv, TypeOK
    <2>2. ASSUME UNCHANGED <<deployedAssets, navVars>> PROVE A
      BY <2>1, <2>2 DEF navVars
    <2>3. CASE HolderStep
      <3>1. UNCHANGED <<deployedAssets, navVars>>
        BY <2>3 DEF HolderStep, Deposit, Mint, SetOperator, RequestRedeem, Redeem, Withdraw,
                    Claim, TransferShares
      <3> QED
        BY <2>2, <3>1
    <2>4. CASE AgentStep
      <3>1. ASSUME NEW r, NEW c \in Accounts, NEW s \in ShareAmounts, FulfillRedeem(r, c, s)
            PROVE  A
        BY <2>2, <3>1 DEF FulfillRedeem
      <3>2. ASSUME NEW a \in Amounts, AgentWithdraw(a) PROVE A
        <4>1. /\ deployedAssets' = deployedAssets + a /\ navEpochAnchor' = navEpochAnchor + a
              /\ a \in Nat
          BY <3>2, VaultAssumption DEF AgentWithdraw, AnchorAfterWithdraw
        <4> QED
          BY <2>1, <4>1
      <3>3. ASSUME NEW a \in Amounts, AgentReturn(a) PROVE A
        <4> DEFINE credited == IF a < deployedAssets THEN a ELSE deployedAssets
        <4>1. /\ deployedAssets' = deployedAssets - credited
              /\ navEpochAnchor' = AnchorAfterReturn(credited)
          BY <3>3 DEF AgentReturn
        <4>2. credited \in Nat
          BY <2>1, VaultAssumption
        <4> HIDE DEF credited
        <4> QED
          BY <2>1, <4>1, <4>2 DEF AnchorAfterReturn
      <3>4. ASSUME NEW v \in NavValues, NEW x \in Leverages, ReportNav(v, x) PROVE A
        BY <3>4 DEF Reported
      <3>5. ASSUME NEW n \in 1 .. MaxActivity, ReportActivity(n) PROVE A
        BY <2>2, <3>5 DEF ReportActivity
      <3> QED
        BY <2>4, <3>1, <3>2, <3>3, <3>4, <3>5 DEF AgentStep
    <2>5. CASE AdminStep
      <3>1. UNCHANGED <<deployedAssets, navVars>>
        BY <2>5 DEF AdminStep, SetLimits, SetInsuranceFund, SettleFees, SetEmergencyExit,
                    Pause, Unpause, SwitchOnly
      <3> QED
        BY <2>2, <3>1
    <2>6. CASE OpenStep
      <3>1. UNCHANGED <<deployedAssets, navVars>>
        BY <2>6 DEF OpenStep, Donate, SendUsdc, AccrueFeesCall, SettleFees, NextBlock
      <3> QED
        BY <2>2, <3>1
    <2>7. CASE UNCHANGED vars
      BY <2>7
    <2> QED
      BY <1>1, <2>3, <2>4, <2>5, <2>6, <2>7 DEF Next
  <1> QED
    BY <1>1, Inductive, PTL DEF Spec, MovedCapitalIsNotProfit

-----------------------------------------------------------------------------
(***************************************************************************)
(* What the contract promises of its steps, on top of IInv: no rounding    *)
(* takes from the holders who stay, a gain is charged once, a gift is not  *)
(* charged, and the queue implements AsyncRedeem.                          *)
(***************************************************************************)

\* The arithmetic of a fee.

\* A quotient is at least what its dividend covers.
LEMMA DivGe ==
    ASSUME NEW a \in Nat, NEW b \in Nat, NEW c \in Nat \ {0}, a * c <= b
    PROVE  a <= b \div c
  OBVIOUS

\* What is less by a common positive factor is less.
LEMMA CancelLe ==
    ASSUME NEW a \in Nat, NEW b \in Nat, NEW c \in Nat \ {0}, a * c <= b * c
    PROVE  a <= b
  OBVIOUS

\* At a price above par there is a whole unit of assets behind every share.
LEMMA AboveParIsBacked ==
    ASSUME NEW T \in Nat, NEW S \in Nat, NEW V \in Nat \ {0}, NEW u \in Nat \ {0},
           NEW pps \in Nat, pps > u, pps * (S + V) <= (u * V) * (T + 1)
    PROVE  S <= V * T
  <1>1. (u + 1) * (S + V) <= pps * (S + V)
    BY MulMono
  <1>2. (u + 1) * (S + V) = u * S + u * V + S + V
    OBVIOUS
  <1>3. (u * V) * (T + 1) = u * (V * T) + u * V
    OBVIOUS
  <1>4. u * S \in Nat /\ u * V \in Nat /\ V * T \in Nat /\ u * (V * T) \in Nat
    BY MulNat
  <1>5. (u + 1) * (S + V) \in Nat /\ pps * (S + V) \in Nat /\ (u * V) * (T + 1) \in Nat
    BY <1>4, MulNat
  <1>6. u * S <= u * (V * T)
    BY <1>1, <1>2, <1>3, <1>4, <1>5
  <1>7. S * u <= (V * T) * u
    BY <1>6
  <1> QED
    BY <1>4, <1>7, CancelLe

(***************************************************************************)
(* A fee of no more than the gain, minted as shares at the price it leaves *)
(* behind, leaves that price at the mark at least: T the assets, S and V   *)
(* the shares, F the fee, n the shares minted for it.                      *)
(***************************************************************************)
LEMMA DilutionKeepsMark ==
    ASSUME NEW T \in Nat, NEW S \in Nat, NEW V \in Nat \ {0}, NEW u \in Nat \ {0},
           NEW mark \in Nat, NEW pps \in Nat, mark >= u, pps > mark,
           NEW F \in Nat, F < T, NEW n \in Nat,
           pps * (S + V) <= (u * V) * (T + 1),
           F * (u * V) <= (pps - mark) * S,
           n * (T - F) <= F * (S + V)
    PROVE  mark * (S + n + V) <= (u * V) * (T + 1)
  <1> PICK D \in Nat \ {0} : D = T - F
    OBVIOUS
  <1> PICK g \in Nat : g = pps - mark
    OBVIOUS
  <1> PICK X \in Nat : X = S + V
    OBVIOUS
  <1> PICK P \in Nat : P = u * V
    OBVIOUS
  <1>1. T = D + F /\ pps = mark + g
    OBVIOUS
  <1>2. pps * X <= P * (T + 1) /\ F * P <= g * S /\ n * D <= F * X
    OBVIOUS
  <1>3. S <= V * T
    BY AboveParIsBacked
  <1>4. F * P <= g * (V * T)
    <2>1. S * g <= (V * T) * g
      BY <1>3, MulMono, MulNat
    <2> QED
      BY <1>2, <2>1
  <1>5. mark * X + g * X <= P * (T + 1)
    <2>1. (mark + g) * X = mark * X + g * X
      OBVIOUS
    <2> QED
      BY <1>1, <1>2, <2>1
  <1>6. mark * X + g * V + F * P <= P * (T + 1)
    <2>1. g * X = g * S + g * V
      OBVIOUS
    <2>2. mark * X \in Nat /\ g * V \in Nat /\ g * S \in Nat /\ F * P \in Nat
      BY MulNat
    <2>3. P * (T + 1) \in Nat /\ g * X \in Nat
      BY MulNat
    <2> QED
      BY <1>2, <1>5, <2>1, <2>2, <2>3
  <1>7. (mark * X) * T <= (P * (T + 1)) * D
    <2> PICK a \in Nat : a = mark * X
      BY MulNat
    <2> PICK b \in Nat : b = g * V
      BY MulNat
    <2> PICK c \in Nat : c = F * P
      BY MulNat
    <2> PICK d \in Nat : d = P * (T + 1)
      BY MulNat
    <2>1. (a + b + c) * T <= d * T
      BY <1>6, MulMono
    <2>2. (a + b + c) * T = a * T + b * T + c * T
      OBVIOUS
    <2>3. d * T = d * D + d * F
      BY <1>1
    <2>4. d * F = c * T + c
      OBVIOUS
    <2>5. b * T >= c
      BY <1>4
    <2>6. a * T \in Nat /\ b * T \in Nat /\ c * T \in Nat /\ d * D \in Nat /\ d * F \in Nat
      BY MulNat
    <2>7. a * T <= d * D
      BY <2>1, <2>2, <2>3, <2>4, <2>5, <2>6
    <2> QED
      BY <2>7
  <1>8. (mark * (X + n)) * D <= (mark * X) * T
    <2>1. (X + n) * D <= X * T
      <3>1. (X + n) * D = X * D + n * D
        OBVIOUS
      <3>2. X * T = X * D + F * X
        BY <1>1
      <3> QED
        BY <1>2, <3>1, <3>2, MulNat
    <2>2. ((X + n) * D) * mark <= (X * T) * mark
      BY <2>1, MulMono, MulNat
    <2> QED
      BY <2>2
  <1>9. (mark * (X + n)) * D <= (P * (T + 1)) * D
    <2>1. (mark * (X + n)) * D \in Nat /\ (mark * X) * T \in Nat /\ (P * (T + 1)) * D \in Nat
      BY MulNat
    <2> QED
      BY <1>7, <1>8, <2>1
  <1>10. mark * (X + n) <= P * (T + 1)
    BY <1>9, CancelLe, MulNat
  <1>11. X + n = S + n + V
    OBVIOUS
  <1> QED
    BY <1>10, <1>11

-----------------------------------------------------------------------------
\* The high-water mark.

\* _mintFeeShares mints what the fee is worth once the shares exist, or nothing.
LEMMA FeeSharesWorth ==
    ASSUME NEW fee \in Nat, NEW total \in Nat, NEW issued \in Nat
    PROVE  \/ FeeShares(fee, total, issued) = 0
           \/ /\ fee < total
              /\ FeeShares(fee, total, issued) * (total - fee) <= fee * (issued + VirtualShares)
  <1> SUFFICES ASSUME ~(fee = 0 \/ total = 0 \/ fee >= total)
               PROVE  /\ fee < total
                      /\ FeeShares(fee, total, issued) * (total - fee)
                           <= fee * (issued + VirtualShares)
    BY DEF FeeShares
  <1>1. total - fee \in Nat \ {0} /\ fee * (issued + VirtualShares) \in Nat
    BY UnitsPositive, MulNat
  <1> QED
    BY <1>1, DivFloor, SMTT(30) DEF FeeShares

\* The performance fee is a part of the gain over the mark.
LEMMA FeeWithinGain ==
    ASSUME NEW pps \in Nat, NEW mark \in Nat, pps > mark, NEW issued \in Nat,
           NEW l, l.performanceFeeBps \in Nat, l.performanceFeeBps <= BPS
    PROVE  /\ PerformanceFee(pps, mark, issued, l) \in Nat
           /\ PerformanceFee(pps, mark, issued, l) * PriceUnit <= (pps - mark) * issued
  <1> PICK gain \in Nat : gain = (pps - mark) * issued
    BY MulNat
  <1> PICK unit \in Nat \ {0} : unit = PriceUnit
    BY UnitsPositive DEF PriceUnit
  <1> PICK whole \in Nat : whole = gain \div unit
    BY DivNat
  <1> PICK bps \in Nat : bps = l.performanceFeeBps
    OBVIOUS
  <1>1. whole * unit <= gain
    BY DivFloor
  <1>2. PerformanceFee(pps, mark, issued, l) = (whole * bps) \div BPS
    BY DEF PerformanceFee
  <1>3. (whole * bps) \div BPS \in Nat /\ (whole * bps) \div BPS <= whole
    <2>1. bps * whole <= BPS * whole
      BY MulMono, UnitsPositive
    <2>2. whole * bps \in Nat /\ whole * bps <= whole * BPS
      BY <2>1, MulNat, UnitsPositive
    <2> QED
      BY <2>2, DivNat, DivLe, UnitsPositive
  <1> PICK fee \in Nat : fee = (whole * bps) \div BPS
    BY <1>3
  <1>4. fee * unit <= whole * unit
    BY <1>3, MulMono
  <1>5. fee * unit \in Nat /\ whole * unit \in Nat
    BY MulNat
  <1>6. fee * unit <= gain
    BY <1>1, <1>4, <1>5
  <1> QED
    BY <1>2, <1>6

\* The price of a share after a performance fee is not below the mark it was taken over.
LEMMA PriceAfterFee ==
    ASSUME NEW total \in Nat, NEW issued \in Nat, NEW mark \in Nat, mark >= AssetUnit,
           NEW l, l.performanceFeeBps \in Nat, l.performanceFeeBps <= BPS,
           NEW pps, pps = PricePerShare(total, issued), pps > mark,
           NEW fee, fee = PerformanceFee(pps, mark, issued, l)
    PROVE  PricePerShare(total, issued + FeeShares(fee, total, issued)) >= mark
  <1> PICK n \in Nat : n = FeeShares(fee, total, issued)
    BY PriceNat, FeeWithinGain, FeeSharesNat
  <1>1. /\ VirtualShares \in Nat \ {0} /\ AssetUnit \in Nat \ {0}
        /\ PriceUnit = AssetUnit * VirtualShares /\ PriceUnit \in Nat
    BY UnitsPositive, MulNat DEF PriceUnit
  <1>2. pps \in Nat
    BY PriceNat
  <1>3. fee \in Nat /\ fee * PriceUnit <= (pps - mark) * issued
    BY <1>2, FeeWithinGain
  <1>4. pps * (issued + VirtualShares) <= PriceUnit * (total + 1)
    <2>1. issued + VirtualShares \in Nat \ {0} /\ PriceUnit * (total + 1) \in Nat
      BY <1>1, MulNat
    <2> QED
      BY <2>1, DivFloor DEF PricePerShare, ConvertToAssets
  <1>5. CASE n = 0
    BY <1>2, <1>5
  <1>6. CASE n # 0
    <2>1. fee < total /\ n * (total - fee) <= fee * (issued + VirtualShares)
      BY <1>3, <1>6, FeeSharesWorth
    <2>2. mark * (issued + n + VirtualShares) <= (AssetUnit * VirtualShares) * (total + 1)
      BY <1>1, <1>2, <1>3, <1>4, <2>1, DilutionKeepsMark
    <2>3. /\ issued + n + VirtualShares \in Nat \ {0} /\ PriceUnit * (total + 1) \in Nat
          /\ mark * (issued + n + VirtualShares) <= PriceUnit * (total + 1)
      BY <1>1, <2>2, MulNat
    <2>4. mark <= (PriceUnit * (total + 1)) \div (issued + n + VirtualShares)
      BY <2>3, DivGe
    <2> QED
      BY <2>4 DEF PricePerShare, ConvertToAssets
  <1> QED
    BY <1>5, <1>6

\* Without shares the mark is par; with shares it never falls and never is below par.
LEMMA MarkRises ==
    ASSUME NEW total \in Nat, NEW issued \in Nat, NEW mark \in Nat, mark >= AssetUnit,
           NEW elapsed \in Nat, NEW l, l.managementFeeBps \in Nat,
           l.performanceFeeBps \in Nat, l.performanceFeeBps <= BPS
    PROVE  LET after == AccrueFees(total, issued, mark, elapsed, l)
           IN  /\ after.mark \in Nat /\ after.mark >= AssetUnit
               /\ issued # 0 => after.mark >= mark
  <1> DEFINE rented == issued + FeeShares(ManagementFee(total, elapsed, l), total, issued)
             pps    == PricePerShare(total, rented)
             taxed  == rented + FeeShares(PerformanceFee(pps, mark, rented, l), total, rented)
             after  == AccrueFees(total, issued, mark, elapsed, l)
  <1>1. after = IF issued = 0
                THEN [supply |-> issued, mark |-> AssetUnit]
                ELSE IF l.performanceFeeBps > 0 /\ pps > mark
                     THEN [supply |-> taxed, mark |-> PricePerShare(total, taxed)]
                     ELSE [supply |-> rented, mark |-> mark]
    BY DEF AccrueFees, MarkAfterFee
  <1>2. after.mark \in Nat
    BY AccrueFeesDilutes
  <1>3. rented \in Nat
    <2>1. ManagementFee(total, elapsed, l) \in Nat
      <3>1. BPS * YEAR \in Nat \ {0}
        BY UnitsPositive
      <3>2. total * (l.managementFeeBps * elapsed) \in Nat
        BY MulNat
      <3> QED
        BY <3>1, <3>2, DivNat DEF ManagementFee
    <2>2. FeeShares(ManagementFee(total, elapsed, l), total, issued) \in Nat
      BY <2>1, FeeSharesNat
    <2> QED
      BY <2>2
  <1>4. ASSUME pps > mark PROVE PricePerShare(total, taxed) >= mark
    <2> HIDE DEF rented
    <2> QED
      BY <1>3, <1>4, PriceAfterFee
  <1> HIDE DEF rented, pps, taxed, after
  <1>5. CASE issued = 0
    BY <1>1, <1>2, <1>5, UnitsPositive DEF after
  <1>6. CASE issued # 0 /\ l.performanceFeeBps > 0 /\ pps > mark
    <2>1. after.mark = PricePerShare(total, taxed)
      BY <1>1, <1>6
    <2>2. after.mark >= mark
      BY <1>4, <1>6, <2>1
    <2> QED
      BY <1>2, <2>2, UnitsPositive DEF after
  <1>7. CASE issued # 0 /\ ~(l.performanceFeeBps > 0 /\ pps > mark)
    BY <1>1, <1>2, <1>7 DEF after
  <1> QED
    BY <1>5, <1>6, <1>7

\* Once the fees are settled there is nothing to settle in the same block.
LEMMA SettledOnce ==
    ASSUME NEW total \in Nat, NEW issued \in Nat, NEW mark \in Nat, NEW l,
           l.managementFeeBps \in Nat,
           issued = 0 \/ l.performanceFeeBps = 0 \/ PricePerShare(total, issued) <= mark,
           l.performanceFeeBps \in Nat
    PROVE  AccrueFees(total, issued, mark, 0, l).supply = issued
  <1>1. ManagementFee(total, 0, l) = 0
    <2>1. total * (l.managementFeeBps * 0) = 0
      OBVIOUS
    <2>2. BPS * YEAR \in Nat \ {0}
      BY UnitsPositive
    <2> QED
      BY <2>1, <2>2 DEF ManagementFee
  <1>2. issued + FeeShares(ManagementFee(total, 0, l), total, issued) = issued
    BY <1>1 DEF FeeShares
  <1>3. PricePerShare(total, issued) \in Nat
    BY PriceNat
  <1> QED
    BY <1>2, <1>3 DEF AccrueFees

\* Fees settle at a price that is not above the mark they leave, unless nobody is charged.
LEMMA SettledPrice ==
    ASSUME NEW total \in Nat, NEW issued \in Nat, NEW mark \in Nat, NEW elapsed \in Nat,
           NEW l, l.managementFeeBps \in Nat, l.performanceFeeBps \in Nat
    PROVE  LET after == AccrueFees(total, issued, mark, elapsed, l)
           IN  \/ after.supply = 0 \/ l.performanceFeeBps = 0
               \/ PricePerShare(total, after.supply) <= after.mark
  <1> DEFINE rented == issued + FeeShares(ManagementFee(total, elapsed, l), total, issued)
             pps    == PricePerShare(total, rented)
             taxed  == rented + FeeShares(PerformanceFee(pps, mark, rented, l), total, rented)
             after  == AccrueFees(total, issued, mark, elapsed, l)
  <1>1. after = IF issued = 0
                THEN [supply |-> issued, mark |-> AssetUnit]
                ELSE IF l.performanceFeeBps > 0 /\ pps > mark
                     THEN [supply |-> taxed, mark |-> PricePerShare(total, taxed)]
                     ELSE [supply |-> rented, mark |-> mark]
    BY DEF AccrueFees, MarkAfterFee
  <1>2. after.supply \in Nat /\ after.mark \in Nat
    BY AccrueFeesDilutes
  <1>3. PricePerShare(total, after.supply) \in Nat
    BY <1>2, PriceNat
  <1>4. CASE issued = 0
    BY <1>1, <1>4
  <1>5. CASE issued # 0 /\ l.performanceFeeBps > 0 /\ pps > mark
    <2>1. after.mark = PricePerShare(total, after.supply)
      BY <1>1, <1>5
    <2> QED
      BY <1>2, <2>1
  <1>6. CASE issued # 0 /\ ~(l.performanceFeeBps > 0 /\ pps > mark)
    <2>1. after.supply = rented /\ after.mark = mark
      BY <1>1, <1>6
    <2>2. PricePerShare(total, after.supply) = pps
      BY <2>1
    <2> HIDE DEF pps, after
    <2>3. l.performanceFeeBps = 0 \/ pps <= mark
      BY <1>3, <1>6, <2>2
    <2> QED
      BY <2>1, <2>2, <2>3 DEF after
  <1> QED
    BY <1>4, <1>5, <1>6

-----------------------------------------------------------------------------
\* The mark of the vault.

MarkAbovePar == highWaterMarkPps >= AssetUnit

\* What the accrual reads, in every state.
LEMMA FeeInputs ==
    ASSUME IInv
    PROVE  /\ TotalAssets \in Nat /\ supply \in Nat /\ highWaterMarkPps \in Nat
           /\ now - lastFeeAccrualAt \in Nat
           /\ limits.managementFeeBps \in Nat /\ limits.performanceFeeBps \in Nat
           /\ limits.performanceFeeBps <= BPS
  <1>1. limits.managementFeeBps \in Nat /\ limits.performanceFeeBps \in Nat
    BY LimitsNat DEF IInv, TypeOK
  <1>2. limits.performanceFeeBps <= MAX_PERFORMANCE_FEE_BPS
    BY DEF IInv, TypeOK, ValidLimits
  <1>3. MAX_PERFORMANCE_FEE_BPS \in Nat /\ MAX_PERFORMANCE_FEE_BPS <= BPS /\ BPS \in Nat
    BY VaultAssumption, UnitsPositive
  <1>4. limits.performanceFeeBps <= BPS
    BY <1>1, <1>2, <1>3
  <1>5. now - lastFeeAccrualAt \in Nat /\ supply \in Nat /\ highWaterMarkPps \in Nat
    BY DEF IInv, TypeOK, ClocksOk
  <1> QED
    BY <1>1, <1>4, <1>5, FeesSound

\* Settling the fees leaves a mark at par at least, and no lower than it was.
LEMMA MarkSettles ==
    ASSUME IInv, MarkAbovePar
    PROVE  /\ Fees.mark \in Nat /\ Fees.mark >= AssetUnit
           /\ supply # 0 => Fees.mark >= highWaterMarkPps
  BY FeeInputs, MarkRises DEF Fees, MarkAbovePar

\* A report settles them twice, with the same result.
LEMMA MarkReports ==
    ASSUME IInv, MarkAbovePar, NEW new \in NavValues, NEW x \in Leverages, ReportNav(new, x)
    PROVE  /\ highWaterMarkPps' \in Nat /\ highWaterMarkPps' >= AssetUnit
           /\ supply # 0 => highWaterMarkPps' >= highWaterMarkPps
  <1>1. PICK T : T = TotalAssetsOf(idle, new, claimableAssets)
    OBVIOUS
  <1>2. T \in Nat
    BY <1>1, VaultAssumption DEF IInv, TypeOK, TotalAssetsOf
  <1>3. highWaterMarkPps' = AccrueFees(T, Fees.supply, Fees.mark, 0, limits).mark
    BY <1>1 DEF ReportNav
  <1>4. Fees.supply \in Nat /\ Fees.supply >= supply /\ supply \in Nat /\ highWaterMarkPps \in Nat
    BY FeesSound, FeeInputs
  <1> DEFINE mark == Fees.mark
             settled == Fees.supply
  <1>5. /\ mark \in Nat /\ mark >= AssetUnit /\ (supply # 0 => mark >= highWaterMarkPps)
        /\ settled \in Nat /\ (supply # 0 => settled # 0)
    BY <1>4, MarkSettles
  <1>6. highWaterMarkPps' = AccrueFees(T, settled, mark, 0, limits).mark
    BY <1>3
  <1> HIDE DEF mark, settled
  <1>7. PICK again : again = AccrueFees(T, settled, mark, 0, limits).mark
    OBVIOUS
  <1>8. again \in Nat /\ again >= AssetUnit /\ (settled # 0 => again >= mark)
    BY <1>2, <1>5, <1>7, FeeInputs, MarkRises
  <1>9. again >= AssetUnit /\ (supply # 0 => again >= highWaterMarkPps)
    BY <1>4, <1>5, <1>8
  <1> QED
    BY <1>6, <1>7, <1>8, <1>9

\* No step lowers the mark while anyone holds shares, or below par at any time.
LEMMA MarkStep ==
    ASSUME IInv, MarkAbovePar, [Next]_vars
    PROVE  /\ MarkAbovePar'
           /\ highWaterMarkPps' >= highWaterMarkPps \/ supply = 0
  <1> DEFINE Kept == /\ highWaterMarkPps' >= AssetUnit
                     /\ highWaterMarkPps' >= highWaterMarkPps \/ supply = 0
  <1>1. highWaterMarkPps \in Nat /\ highWaterMarkPps >= AssetUnit
    BY FeeInputs DEF MarkAbovePar
  <1>2. ASSUME highWaterMarkPps' = highWaterMarkPps PROVE Kept
    BY <1>1, <1>2
  <1>3. ASSUME highWaterMarkPps' = Fees.mark PROVE Kept
    BY <1>1, <1>3, MarkSettles
  <1>4. ASSUME NEW a \in Amounts, Donate(a) PROVE Kept
    <2>1. PICK pps : highWaterMarkPps' = DonatedMark(pps, Fees.mark)
                     /\ pps = PricePerShare(TotalAssetsOf(idle + a, deployedAssets, claimableAssets),
                                            Fees.supply)
      BY <1>4 DEF Donate
    <2>2. pps \in Nat
      <3>1. TotalAssetsOf(idle + a, deployedAssets, claimableAssets) \in Nat
        BY VaultAssumption DEF IInv, TypeOK, TotalAssetsOf
      <3> QED
        BY <2>1, <3>1, FeesSound, PriceNat
    <2>3. PICK mark \in Nat : /\ mark = Fees.mark /\ mark >= AssetUnit
                              /\ supply # 0 => mark >= highWaterMarkPps
      BY MarkSettles
    <2>4. PICK m : m = highWaterMarkPps' /\ m = DonatedMark(pps, mark)
      BY <2>1, <2>3
    <2>5. m \in Nat /\ m >= mark
      BY <2>2, <2>3, <2>4 DEF DonatedMark
    <2>6. m >= AssetUnit /\ (supply # 0 => m >= highWaterMarkPps)
      BY <1>1, <2>3, <2>5, UnitsPositive
    <2> QED
      BY <2>4, <2>6
  <1> SUFFICES Kept
    BY DEF MarkAbovePar
  <1> HIDE DEF Kept
  <1>5. CASE HolderStep
    <2>1. highWaterMarkPps' = highWaterMarkPps \/ highWaterMarkPps' = Fees.mark
      BY <1>5 DEF HolderStep, Deposit, Mint, SetOperator, RequestRedeem, Redeem, Withdraw, Claim,
                  TransferShares, FeesSettled, feeVars
    <2> QED
      BY <1>2, <1>3, <2>1
  <1>6. CASE AgentStep
    <2>1. ASSUME NEW v \in NavValues, NEW x \in Leverages, ReportNav(v, x) PROVE Kept
      BY <2>1, MarkReports DEF Kept
    <2>2. \/ \E v \in NavValues, x \in Leverages : ReportNav(v, x)
          \/ highWaterMarkPps' = highWaterMarkPps \/ highWaterMarkPps' = Fees.mark
      BY <1>6 DEF AgentStep, FulfillRedeem, AgentWithdraw, AgentReturn, ReportActivity,
                  FeesSettled, feeVars
    <2> QED
      BY <1>2, <1>3, <2>1, <2>2
  <1>7. CASE AdminStep
    <2>1. highWaterMarkPps' = highWaterMarkPps \/ highWaterMarkPps' = Fees.mark
      BY <1>7 DEF AdminStep, SetLimits, SetInsuranceFund, SettleFees, SetEmergencyExit, Pause,
                  Unpause, SwitchOnly, FeesSettled, feeVars
    <2> QED
      BY <1>2, <1>3, <2>1
  <1>8. CASE OpenStep
    <2>1. \/ \E a \in Amounts : Donate(a)
          \/ highWaterMarkPps' = highWaterMarkPps \/ highWaterMarkPps' = Fees.mark
      BY <1>8 DEF OpenStep, SendUsdc, AccrueFeesCall, SettleFees, NextBlock, FeesSettled, feeVars
    <2> QED
      BY <1>2, <1>3, <1>4, <2>1
  <1>9. CASE UNCHANGED vars
    <2>1. highWaterMarkPps' = highWaterMarkPps
      BY <1>9 DEF vars, feeVars
    <2> QED
      BY <1>2, <2>1
  <1> QED
    BY <1>5, <1>6, <1>7, <1>8, <1>9 DEF Next

\* The invariant, with the mark.
LEMMA MarkInductive == Spec => [](IInv /\ MarkAbovePar)
  <1>1. Init => IInv /\ MarkAbovePar
    BY InitInv, UnitsPositive DEF Init, MarkAbovePar
  <1>2. IInv /\ MarkAbovePar /\ [Next]_vars => (IInv /\ MarkAbovePar)'
    BY NextInv, MarkStep
  <1> QED
    BY <1>1, <1>2, PTL DEF Spec

\* accrueFees() called twice in a block mints nothing the second time.
LEMMA SettlesOnce ==
    ASSUME IInv, MarkAbovePar
    PROVE  AccrueFees(TotalAssets, Fees.supply, Fees.mark, 0, limits).supply = Fees.supply
  <1> DEFINE s == Fees.supply
             m == Fees.mark
  <1>1. s \in Nat /\ m \in Nat /\ TotalAssets \in Nat
    BY FeesSound
  <1>2. s = 0 \/ limits.performanceFeeBps = 0 \/ PricePerShare(TotalAssets, s) <= m
    BY FeeInputs, SettledPrice DEF Fees
  <1> HIDE DEF s, m
  <1>3. AccrueFees(TotalAssets, s, m, 0, limits).supply = s
    BY <1>1, <1>2, FeeInputs, SettledOnce
  <1> QED
    BY <1>3 DEF s, m

(***************************************************************************)
(* A gain is charged once.  The second half is where the order of the      *)
(* accrual matters: the mark is read again after the fee shares have       *)
(* diluted the price, and what keeps that price at the old mark is that a  *)
(* fee is at most the gain and that a share above par has a whole unit of  *)
(* assets behind it.                                                       *)
(***************************************************************************)
THEOREM GainsAreTaxedOnce == Spec => GainTaxedOnce
  <1>1. IInv /\ MarkAbovePar
          => AccrueFees(TotalAssets, Fees.supply, Fees.mark, 0, limits).supply = Fees.supply
    BY SettlesOnce
  <1>2. IInv /\ MarkAbovePar /\ [Next]_vars
          => [highWaterMarkPps' >= highWaterMarkPps \/ supply = 0]_vars
    BY MarkStep
  <1> QED
    BY <1>1, <1>2, MarkInductive, PTL DEF Spec, GainTaxedOnce

\* What a step leaves behind, where its successor reads it.
LEMMA AfterNat ==
    ASSUME IInv'
    PROVE  TotalAssets' \in Nat /\ supply' \in Nat /\ highWaterMarkPps' \in Nat
  <1>1. /\ idle' \in Nat /\ deployedAssets' \in Nat /\ claimableAssets' \in Nat
        /\ claimableAssets' <= idle'
    BY DEF IInv, TypeOK, ClaimsBacked
  <1>2. TotalAssetsOf(idle', deployedAssets', claimableAssets') \in Nat
    BY <1>1, IdleDerived
  <1>3. TotalAssets' = TotalAssetsOf(idle', deployedAssets', claimableAssets')
    BY DEF TotalAssets
  <1>4. supply' \in Nat /\ highWaterMarkPps' \in Nat
    BY DEF IInv, TypeOK
  <1> QED
    BY <1>2, <1>3, <1>4

(***************************************************************************)
(* A donation is not performance: it lifts the mark with the price, so an  *)
(* accrual that follows in the same block finds no gain to charge.         *)
(***************************************************************************)
THEOREM DonationsAreUntaxed == Spec => DonationUntaxed
  <1>1. ASSUME IInv, IInv', NEW a \in Amounts, Donate(a) PROVE Fees.supply' = supply'
    <2>1. PICK T, s, m, l, e : /\ T = TotalAssets' /\ s = supply' /\ m = highWaterMarkPps'
                               /\ l = limits' /\ e = now' - lastFeeAccrualAt'
      OBVIOUS
    <2>2. T \in Nat /\ s \in Nat /\ m \in Nat
      BY <1>1, <2>1, AfterNat
    <2>3. l = limits /\ e = 0
      BY <1>1, <2>1 DEF Donate, adminVars, IInv, TypeOK
    <2>4. PICK pps : /\ pps = PricePerShare(T, s) /\ m = DonatedMark(pps, Fees.mark)
      BY <1>1, <2>1 DEF Donate, TotalAssets
    <2>5. pps \in Nat /\ Fees.mark \in Nat
      BY <1>1, <2>2, <2>4, PriceNat, FeesSound
    <2>6. pps <= m
      BY <2>4, <2>5 DEF DonatedMark
    <2>7. AccrueFees(T, s, m, 0, l).supply = s
      <3>1. l.managementFeeBps \in Nat /\ l.performanceFeeBps \in Nat
        BY <1>1, <2>3, FeeInputs
      <3>2. PricePerShare(T, s) <= m
        BY <2>4, <2>6
      <3> QED
        BY <2>2, <3>1, <3>2, SettledOnce
    <2>8. Fees' = AccrueFees(T, s, m, e, l)
      BY <2>1 DEF Fees
    <2> QED
      BY <2>1, <2>3, <2>7, <2>8
  <1>2. IInv /\ IInv' /\ [Next]_vars
          => [(\E a \in Amounts : Donate(a)) => Fees.supply' = supply']_vars
    BY <1>1
  <1> QED
    BY <1>2, Inductive, PTL DEF Spec, DonationUntaxed

-----------------------------------------------------------------------------
\* Rounding.  T the total assets, S the shares with the virtual ones, before a call.

\* Products distribute over sums.
LEMMA Distribute ==
    ASSUME NEW a \in Nat, NEW b \in Nat, NEW c \in Nat
    PROVE  (a + b) * c = a * c + b * c
  OBVIOUS

\* deposit(): the shares are rounded down.
LEMMA DepositRounds ==
    ASSUME NEW T \in Nat, NEW S \in Nat, NEW a \in Nat, NEW n \in Nat,
           n = (a * S) \div (T + 1)
    PROVE  (T + a + 1) * S >= (T + 1) * (S + n)
  <1>1. n * (T + 1) <= a * S
    BY DivFloor, MulNat, SMTT(30)
  <1>2. /\ (T + a + 1) * S = (T + 1) * S + a * S
        /\ (T + 1) * (S + n) = (T + 1) * S + n * (T + 1)
    <2>1. PICK U \in Nat, m \in Nat : U = T + 1 /\ m = n
      OBVIOUS
    <2>2. (U + a) * S = U * S + a * S
      BY Distribute
    <2>3. (S + m) * U = S * U + m * U
      BY Distribute
    <2>4. U * (S + m) = (S + m) * U /\ U * S = S * U
      OBVIOUS
    <2>5. T + a + 1 = U + a
      BY <2>1
    <2> QED
      BY <2>1, <2>2, <2>3, <2>4, <2>5
  <1>3. (T + 1) * S \in Nat /\ a * S \in Nat /\ n * (T + 1) \in Nat
    BY MulNat
  <1> QED
    BY <1>1, <1>2, <1>3

\* mint(): the assets are rounded up.
LEMMA MintRounds ==
    ASSUME NEW T \in Nat, NEW S \in Nat \ {0}, NEW n \in Nat, NEW a \in Nat,
           a = CeilDiv(n * (T + 1), S)
    PROVE  (T + a + 1) * S >= (T + 1) * (S + n)
  <1> PICK x \in Nat : x = n * (T + 1)
    BY MulNat
  <1>1. x <= a * S
    <2>1. a = (x + S - 1) \div S /\ x + S - 1 \in Nat
      BY DEF CeilDiv
    <2> QED
      BY <2>1
  <1>2. (T + a + 1) * S = (T + 1) * S + a * S /\ (T + 1) * (S + n) = (T + 1) * S + x
    OBVIOUS
  <1>3. (T + 1) * S \in Nat /\ a * S \in Nat
    BY MulNat
  <1> QED
    BY <1>1, <1>2, <1>3

\* fulfillRedeem(): the assets are rounded down.
LEMMA FulfillRounds ==
    ASSUME NEW T \in Nat, NEW S \in Nat \ {0}, NEW n \in Nat, n <= S, NEW a \in Nat, a <= T,
           a = (n * (T + 1)) \div S
    PROVE  (T - a + 1) * S >= (T + 1) * (S - n)
  <1>1. a * S <= n * (T + 1)
    BY DivFloor, MulNat
  <1>2. /\ (T - a + 1) * S = (T + 1) * S - a * S
        /\ (T + 1) * (S - n) = (T + 1) * S - n * (T + 1)
    OBVIOUS
  <1>3. (T + 1) * S \in Nat /\ a * S \in Nat /\ n * (T + 1) \in Nat
    BY MulNat
  <1> QED
    BY <1>1, <1>2, <1>3

\* More USDC, more assets.
LEMMA MoreIdle ==
    ASSUME NEW i \in Nat, NEW i2 \in Nat, NEW d \in Nat, NEW k \in Nat, i2 >= i
    PROVE  TotalAssetsOf(i2, d, k) >= TotalAssetsOf(i, d, k)
  BY DEF TotalAssetsOf

\* No assets leave and no shares come but the fee's.
LEMMA NoneLost ==
    ASSUME NEW T \in Nat, NEW T2 \in Nat, T2 >= T, NEW S \in Nat, NEW S2 \in Nat, S2 <= S
    PROVE  (T2 + 1) * S >= (T + 1) * S2
  <1>1. S2 * (T + 1) <= S * (T + 1)
    BY MulMono
  <1>2. (T + 1) * S <= (T2 + 1) * S
    BY MulMono
  <1>3. S2 * (T + 1) \in Nat /\ (T + 1) * S \in Nat /\ (T2 + 1) * S \in Nat
    BY MulNat
  <1> QED
    BY <1>1, <1>2, <1>3

\* What the holders who stay have left, once the fees they owe are taken.
StayersKeep == (TotalAssets' + 1) * (Fees.supply + VirtualShares)
                 >= (TotalAssets + 1) * (supply' + VirtualShares)

\* A step that takes no assets and mints no share but the fee's.
LEMMA KeepsAll ==
    ASSUME IInv, IInv', TotalAssets' >= TotalAssets, supply' <= Fees.supply
    PROVE  StayersKeep
  <1>1. PICK T2, s2 : T2 = TotalAssets' /\ s2 = supply'
    OBVIOUS
  <1>2. T2 \in Nat /\ s2 \in Nat
    BY <1>1, AfterNat
  <1>3. PICK s \in Nat : s = Fees.supply
    BY FeesSound
  <1>4. PICK T \in Nat : T = TotalAssets
    BY FeesSound
  <1>5. (T2 + 1) * (s + VirtualShares) >= (T + 1) * (s2 + VirtualShares)
    <2>1. T2 >= T /\ s2 <= s
      BY <1>1, <1>3, <1>4
    <2>2. /\ s + VirtualShares \in Nat /\ s2 + VirtualShares \in Nat
          /\ s2 + VirtualShares <= s + VirtualShares
      BY <1>2, <1>3, <2>1, UnitsPositive
    <2> QED
      BY <1>2, <2>1, <2>2, NoneLost
  <1> QED
    BY <1>1, <1>3, <1>4, <1>5 DEF StayersKeep

LEMMA DepositKeeps ==
    ASSUME IInv, NEW a \in Amounts, NEW h \in Receivers, Deposit(a, h)
    PROVE  StayersKeep
  <1>1. PICK T \in Nat, s \in Nat : T = TotalAssets /\ s = Fees.supply
    BY FeesSound
  <1>2. PICK n : n = ConvertToShares(a, T, s)
    OBVIOUS
  <1>3. a \in Nat /\ n \in Nat
    BY <1>1, <1>2, VaultAssumption, ConversionNat
  <1>4. supply' = s + n
    BY <1>1, <1>2 DEF Deposit
  <1>5. TotalAssets' = T + a
    <2>1. idle' = idle + a /\ UNCHANGED <<deployedAssets, claimableAssets>>
      BY DEF Deposit
    <2>2. /\ idle \in Nat /\ deployedAssets \in Nat /\ claimableAssets \in Nat
          /\ claimableAssets <= idle
      BY DEF IInv, TypeOK, ClaimsBacked
    <2>3. TotalAssetsOf(idle + a, deployedAssets, claimableAssets)
            = TotalAssetsOf(idle, deployedAssets, claimableAssets) + a
      BY <1>3, <2>2 DEF TotalAssetsOf
    <2> QED
      BY <1>1, <2>1, <2>3 DEF TotalAssets
  <1>6. (T + a + 1) * (s + VirtualShares) >= (T + 1) * (s + VirtualShares + n)
    <2>1. s + VirtualShares \in Nat
      BY UnitsPositive
    <2> QED
      BY <1>2, <1>3, <2>1, DepositRounds DEF ConvertToShares
  <1>7. s + VirtualShares + n = s + n + VirtualShares
    BY <1>3, UnitsPositive
  <1> QED
    BY <1>1, <1>4, <1>5, <1>6, <1>7 DEF StayersKeep

LEMMA MintKeeps ==
    ASSUME IInv, NEW n \in ShareAmounts, NEW h \in Receivers, Mint(n, h)
    PROVE  StayersKeep
  <1>1. PICK T \in Nat, s \in Nat : T = TotalAssets /\ s = Fees.supply
    BY FeesSound
  <1>2. PICK a : a = AssetsToMint(n, T, s)
    OBVIOUS
  <1>3. n \in Nat /\ a \in Nat
    BY <1>1, <1>2, VaultAssumption, ConversionNat
  <1>4. supply' = s + n
    BY <1>1 DEF Mint
  <1>5. TotalAssets' = T + a
    <2>1. idle' = idle + a /\ UNCHANGED <<deployedAssets, claimableAssets>>
      BY <1>1, <1>2 DEF Mint
    <2>2. /\ idle \in Nat /\ deployedAssets \in Nat /\ claimableAssets \in Nat
          /\ claimableAssets <= idle
      BY DEF IInv, TypeOK, ClaimsBacked
    <2>3. TotalAssetsOf(idle + a, deployedAssets, claimableAssets)
            = TotalAssetsOf(idle, deployedAssets, claimableAssets) + a
      BY <1>3, <2>2 DEF TotalAssetsOf
    <2> QED
      BY <1>1, <2>1, <2>3 DEF TotalAssets
  <1>6. (T + a + 1) * (s + VirtualShares) >= (T + 1) * (s + VirtualShares + n)
    <2>1. s + VirtualShares \in Nat \ {0}
      BY UnitsPositive
    <2> QED
      BY <1>2, <1>3, <2>1, MintRounds DEF AssetsToMint
  <1>7. s + VirtualShares + n = s + n + VirtualShares
    BY <1>3, UnitsPositive
  <1> QED
    BY <1>1, <1>4, <1>5, <1>6, <1>7 DEF StayersKeep

LEMMA FulfillKeeps ==
    ASSUME IInv, NEW role, NEW c \in Accounts, NEW n \in ShareAmounts, FulfillRedeem(role, c, n)
    PROVE  StayersKeep
  <1>1. PICK T \in Nat, s \in Nat : T = TotalAssets /\ s = Fees.supply
    BY FeesSound
  <1>2. PICK a : a = ConvertToAssets(n, T, s)
    OBVIOUS
  <1>3. n \in Nat /\ a \in Nat
    BY <1>1, <1>2, VaultAssumption, ConversionNat
  <1>4. supply' = s - n /\ n <= balance[Vault] /\ a <= FreeAssets
    BY <1>1, <1>2 DEF FulfillRedeem
  <1>5. n <= s
    <2>1. balance[Vault] <= Total(balance) /\ Total(balance) = supply /\ supply <= s
      BY <1>1, AccountsFinite, TotalCovers, FeesSound DEF IInv, TypeOK, SupplyIsHeld
    <2>2. balance[Vault] \in Nat /\ supply \in Nat
      BY AccountsFinite DEF IInv, TypeOK
    <2> QED
      BY <1>3, <1>4, <2>1, <2>2
  <1>6. TotalAssets' = T - a /\ a <= T
    <2>1. claimableAssets' = claimableAssets + a /\ UNCHANGED <<deployedAssets, idle>>
      BY <1>1, <1>2 DEF FulfillRedeem
    <2>2. /\ idle \in Nat /\ deployedAssets \in Nat /\ claimableAssets \in Nat
          /\ claimableAssets <= idle
      BY DEF IInv, TypeOK, ClaimsBacked
    <2>3. claimableAssets + a <= idle
      BY <1>3, <1>4, <2>2 DEF FreeAssets, FreeAssetsOf
    <2>4. /\ TotalAssetsOf(idle, deployedAssets, claimableAssets + a)
               = TotalAssetsOf(idle, deployedAssets, claimableAssets) - a
          /\ a <= TotalAssetsOf(idle, deployedAssets, claimableAssets)
      BY <1>3, <2>2, <2>3 DEF TotalAssetsOf
    <2> QED
      BY <1>1, <2>1, <2>4 DEF TotalAssets
  <1>7. PICK S \in Nat \ {0} : S = s + VirtualShares /\ n <= S
    BY <1>3, <1>5, UnitsPositive
  <1>8. (T - a + 1) * S >= (T + 1) * (S - n)
    <2>1. a = (n * (T + 1)) \div S
      BY <1>2, <1>7 DEF ConvertToAssets
    <2> QED
      BY <1>3, <1>6, <1>7, <2>1, FulfillRounds
  <1>9. S - n = s - n + VirtualShares
    BY <1>3, <1>7, UnitsPositive
  <1>10. TotalAssets' + 1 = T - a + 1 /\ supply' + VirtualShares = S - n
    BY <1>4, <1>6, <1>9
  <1> QED
    BY <1>1, <1>7, <1>8, <1>10 DEF StayersKeep

\* redeem() and withdraw(): what is paid was no longer the holders'.
LEMMA ClaimKeeps ==
    ASSUME IInv, IInv', NEW x, NEW c, NEW r, NEW s, NEW a \in Nat, Claim(x, c, r, s, a)
    PROVE  StayersKeep
  <1>1. /\ a <= claimableAssets /\ a <= idle /\ claimableAssets' = claimableAssets - a
        /\ idle' = (IF r = Vault THEN idle ELSE idle - a)
        /\ UNCHANGED <<deployedAssets, supply>>
    BY DEF Claim, shareVars
  <1>2. PICK i \in Nat, d \in Nat, k \in Nat :
          i = idle /\ d = deployedAssets /\ k = claimableAssets /\ k <= i
    BY DEF IInv, TypeOK, ClaimsBacked
  <1>3. /\ TotalAssetsOf(i - a, d, k - a) >= TotalAssetsOf(i, d, k)
        /\ TotalAssetsOf(i, d, k - a) >= TotalAssetsOf(i, d, k)
    BY <1>1, <1>2 DEF TotalAssetsOf
  <1>4. TotalAssets' >= TotalAssets
    BY <1>1, <1>2, <1>3 DEF TotalAssets
  <1>5. supply' <= Fees.supply
    BY <1>1, FeesSound DEF IInv, TypeOK
  <1> QED
    BY <1>4, <1>5, KeepsAll

\* A call that moves neither assets nor shares, fees apart.
LEMMA OthersKeep ==
    ASSUME IInv, IInv', UNCHANGED <<deployedAssets, claimableAssets>>,
           idle' >= idle, supply' = Fees.supply \/ supply' = supply
    PROVE  StayersKeep
  <1>1. PICK i \in Nat, d \in Nat, k \in Nat, i2 \in Nat :
          /\ i = idle /\ d = deployedAssets /\ k = claimableAssets
          /\ i2 = idle' /\ i2 >= i /\ k <= i
    BY DEF IInv, TypeOK, ClaimsBacked
  <1>2. TotalAssetsOf(i2, d, k) >= TotalAssetsOf(i, d, k)
    BY <1>1, MoreIdle
  <1>3. TotalAssets' >= TotalAssets
    BY <1>1, <1>2 DEF TotalAssets
  <1>4. supply' <= Fees.supply
    BY FeesSound DEF IInv, TypeOK
  <1> QED
    BY <1>3, <1>4, KeepsAll

\* Capital that the agent draws or returns is still the holders'.
LEMMA DrawKeeps ==
    ASSUME IInv, IInv', NEW a \in Amounts, AgentWithdraw(a) \/ AgentReturn(a)
    PROVE  StayersKeep
  <1>1. PICK i \in Nat, d \in Nat, k \in Nat :
          i = idle /\ d = deployedAssets /\ k = claimableAssets /\ k <= i
    BY DEF IInv, TypeOK, ClaimsBacked
  <1>2. a \in Nat
    BY VaultAssumption
  <1>3. CASE AgentWithdraw(a)
    <2>1. /\ idle' = i - a /\ deployedAssets' = d + a /\ claimableAssets' = k
          /\ supply' = supply /\ a <= FreeAssetsOf(i, k)
      BY <1>1, <1>3 DEF AgentWithdraw, shareVars, FreeAssets
    <2>2. TotalAssetsOf(i - a, d + a, k) >= TotalAssetsOf(i, d, k)
      BY <1>1, <1>2, <2>1 DEF TotalAssetsOf, FreeAssetsOf
    <2>3. TotalAssets' >= TotalAssets
      BY <1>1, <2>1, <2>2 DEF TotalAssets
    <2>4. supply' <= Fees.supply
      BY <2>1, FeesSound DEF IInv, TypeOK
    <2> QED
      BY <2>3, <2>4, KeepsAll
  <1>4. CASE AgentReturn(a)
    <2>1. PICK c : /\ c = (IF a < d THEN a ELSE d)
                   /\ idle' = i + a /\ deployedAssets' = d - c /\ claimableAssets' = k
                   /\ supply' = supply
      BY <1>1, <1>4 DEF AgentReturn, shareVars
    <2>2. TotalAssetsOf(i + a, d - c, k) >= TotalAssetsOf(i, d, k)
      BY <1>1, <1>2, <2>1 DEF TotalAssetsOf
    <2>3. TotalAssets' >= TotalAssets
      BY <1>1, <2>1, <2>2 DEF TotalAssets
    <2>4. supply' <= Fees.supply
      BY <2>1, FeesSound DEF IInv, TypeOK
    <2> QED
      BY <2>3, <2>4, KeepsAll
  <1> QED
    BY <1>3, <1>4

(***************************************************************************)
(* The holders who stay never pay for a call of somebody else: with virtual*)
(* assets and shares in every conversion, and each rounded against the     *)
(* caller, the value of a share after the fees owed does not fall but by   *)
(* what the agent reports.                                                 *)
(***************************************************************************)
THEOREM RoundingIsForTheHolders == Spec => RoundingFavoursHolders
  <1>1. ASSUME IInv, IInv', Next PROVE Reported \/ StayersKeep
    <2>1. CASE HolderStep
      <3>1. ASSUME NEW a \in Amounts, NEW h \in Receivers, Deposit(a, h) PROVE StayersKeep
        BY <1>1, <3>1, DepositKeeps
      <3>2. ASSUME NEW n \in ShareAmounts, NEW h \in Receivers, Mint(n, h) PROVE StayersKeep
        BY <1>1, <3>2, MintKeeps
      <3>3. ASSUME NEW n \in ShareAmounts, NEW x \in Accounts, NEW c \in Accounts,
                   NEW r \in Receivers, Redeem(x, n, r, c)
            PROVE  StayersKeep
        BY <1>1, <3>3, RedeemIsClaim, ClaimKeeps
      <3>4. ASSUME NEW a \in Amounts, NEW x \in Accounts, NEW c \in Accounts,
                   NEW r \in Receivers, Withdraw(x, a, r, c)
            PROVE  StayersKeep
        <4>1. a \in Nat
          BY VaultAssumption
        <4>2. PICK n \in Nat : Claim(x, c, r, n, a)
          BY <1>1, <3>4, WithdrawIsClaim
        <4> QED
          BY <1>1, <4>1, <4>2, ClaimKeeps
      <3>5. ASSUME \/ \E c \in Accounts, o \in Operators, b \in BOOLEAN : SetOperator(c, o, b)
                   \/ \E n \in ShareAmounts, x, c, o \in Accounts : RequestRedeem(x, n, c, o)
                   \/ \E n \in ShareAmounts, f \in Accounts, h \in Holders :
                         TransferShares(f, h, n)
            PROVE  StayersKeep
        <4>1. UNCHANGED <<idle, deployedAssets, claimableAssets>>
          BY <3>5 DEF SetOperator, RequestRedeem, TransferShares
        <4>2. supply' = Fees.supply \/ supply' = supply
          BY <3>5 DEF SetOperator, RequestRedeem, TransferShares, shareVars
        <4>3. idle' >= idle
          BY <1>1, <4>1 DEF IInv, TypeOK
        <4> QED
          BY <1>1, <4>1, <4>2, <4>3, OthersKeep
      <3> QED
        BY <2>1, <3>1, <3>2, <3>3, <3>4, <3>5 DEF HolderStep
    <2>2. CASE AgentStep
      <3>1. ASSUME NEW r, NEW c \in Accounts, NEW n \in ShareAmounts, FulfillRedeem(r, c, n)
            PROVE  StayersKeep
        BY <1>1, <3>1, FulfillKeeps
      <3>2. ASSUME NEW a \in Amounts, AgentWithdraw(a) \/ AgentReturn(a) PROVE StayersKeep
        BY <1>1, <3>2, DrawKeeps
      <3>3. ASSUME NEW n \in 1 .. MaxActivity, ReportActivity(n) PROVE StayersKeep
        <4>1. UNCHANGED <<idle, deployedAssets, claimableAssets, supply>>
          BY <3>3 DEF ReportActivity, shareVars
        <4>2. idle' >= idle
          BY <1>1, <4>1 DEF IInv, TypeOK
        <4> QED
          BY <1>1, <4>1, <4>2, OthersKeep
      <3>4. Reported \/ ~\E v \in NavValues, x \in Leverages : ReportNav(v, x)
        BY DEF Reported
      <3> QED
        BY <2>2, <3>1, <3>2, <3>3, <3>4 DEF AgentStep
    <2>3. CASE AdminStep
      <3>1. /\ UNCHANGED <<idle, deployedAssets, claimableAssets>>
            /\ supply' = Fees.supply \/ supply' = supply
        BY <2>3 DEF AdminStep, SetLimits, SetInsuranceFund, SettleFees, SetEmergencyExit, Pause,
                    Unpause, SwitchOnly, shareVars
      <3>2. idle' >= idle
        BY <1>1, <3>1 DEF IInv, TypeOK
      <3> QED
        BY <1>1, <3>1, <3>2, OthersKeep
    <2>4. CASE OpenStep
      <3>1. ASSUME NEW a \in Amounts, Donate(a) \/ SendUsdc(a) PROVE idle' >= idle
        BY <1>1, <3>1, VaultAssumption DEF Donate, SendUsdc, IInv, TypeOK
      <3>2. ASSUME AccrueFeesCall \/ NextBlock PROVE idle' >= idle
        BY <1>1, <3>2 DEF AccrueFeesCall, SettleFees, NextBlock, IInv, TypeOK
      <3>3. idle' >= idle
        BY <2>4, <3>1, <3>2 DEF OpenStep
      <3>4. /\ UNCHANGED <<deployedAssets, claimableAssets>>
            /\ supply' = Fees.supply \/ supply' = supply
        BY <2>4 DEF OpenStep, Donate, SendUsdc, AccrueFeesCall, SettleFees, NextBlock, shareVars
      <3> QED
        BY <1>1, <3>3, <3>4, OthersKeep
    <2> QED
      BY <1>1, <2>1, <2>2, <2>3, <2>4 DEF Next
  <1>2. IInv /\ IInv' /\ [Next]_vars
          => [\/ Reported
              \/ (TotalAssets' + 1) * (Fees.supply + VirtualShares)
                   >= (TotalAssets + 1) * (supply' + VirtualShares)]_vars
    BY <1>1 DEF StayersKeep
  <1> QED
    BY <1>2, Inductive, PTL DEF Spec, RoundingFavoursHolders

-----------------------------------------------------------------------------
\* The queue implements AsyncRedeem: the contract writes its bounds against the
\* running total claimableAssets, AsyncRedeem against the sum over the controllers.


\* What AsyncRedeem calls owed is what the contract counts in claimableAssets.
LEMMA OwedIsClaimable ==
    ASSUME IInv PROVE Redemptions!OwedTotal = claimableAssets
  <1>1. Redemptions!OwedTotal = Total(ClaimsOf)
    BY DEF Redemptions!OwedTotal, Redemptions!Total, Redemptions!Units, Total, Units,
           Cardinality, Redemptions!Cardinality
  <1> QED
    BY <1>1 DEF IInv, ClaimsBacked

\* One controller's bucket is replaced: the three views change at that controller.
LEMMA OneBucket ==
    ASSUME IInv, NEW c \in Accounts, NEW r \in Buckets,
           redeemState' = [redeemState EXCEPT ![c] = r]
    PROVE  /\ PendingOf' = [PendingOf EXCEPT ![c] = r.pendingShares]
           /\ PricedOf' = [PricedOf EXCEPT ![c] = r.claimableShares]
           /\ ClaimsOf' = [ClaimsOf EXCEPT ![c] = r.claimableAssets]
           /\ PendingOf'[c] = r.pendingShares /\ PricedOf'[c] = r.claimableShares
           /\ ClaimsOf'[c] = r.claimableAssets
           /\ PendingOf[c] = redeemState[c].pendingShares
           /\ PricedOf[c] = redeemState[c].claimableShares
           /\ ClaimsOf[c] = redeemState[c].claimableAssets
  <1>1. redeemState \in [Accounts -> Buckets]
    BY DEF IInv, TypeOK, Buckets
  <1>2. /\ PendingOf' = [PendingOf EXCEPT ![c] = r.pendingShares]
        /\ PricedOf' = [PricedOf EXCEPT ![c] = r.claimableShares]
        /\ ClaimsOf' = [ClaimsOf EXCEPT ![c] = r.claimableAssets]
    BY <1>1 DEF PendingOf, PricedOf, ClaimsOf
  <1>3. /\ PendingOf[c] = redeemState[c].pendingShares
        /\ PricedOf[c] = redeemState[c].claimableShares
        /\ ClaimsOf[c] = redeemState[c].claimableAssets
    BY DEF PendingOf, PricedOf, ClaimsOf
  <1>4. /\ PendingOf'[c] = r.pendingShares /\ PricedOf'[c] = r.claimableShares
        /\ ClaimsOf'[c] = r.claimableAssets
    BY <1>2 DEF PendingOf, PricedOf, ClaimsOf
  <1> QED
    BY <1>2, <1>3, <1>4

\* A call that leaves the buckets alone leaves the three views alone.
LEMMA ViewsKept ==
    ASSUME UNCHANGED redeemState PROVE UNCHANGED <<PendingOf, PricedOf, ClaimsOf>>
  BY DEF PendingOf, PricedOf, ClaimsOf

\* A call that keeps the buckets and what backs them only moves cash.
LEMMA CashStep ==
    ASSUME IInv, IInv', UNCHANGED redeemState PROVE Redemptions!Next
  <1>1. UNCHANGED <<PendingOf, PricedOf, ClaimsOf>>
    BY ViewsKept
  <1>2. Redemptions!OwedTotal = claimableAssets
    BY OwedIsClaimable
  <1>3. claimableAssets' = claimableAssets /\ claimableAssets' <= idle'
    BY <1>1 DEF IInv, ClaimsBacked
  <1>4. Redemptions!MoveCash
    BY <1>1, <1>2, <1>3 DEF Redemptions!MoveCash, Redemptions!queue
  <1> QED
    BY <1>4 DEF Redemptions!Next

-----------------------------------------------------------------------------
\* The three calls of the queue.

\* requestRedeem() is a Request.
LEMMA RequestStep ==
    ASSUME IInv, NEW shares \in ShareAmounts,
           NEW caller \in Accounts, NEW controller \in Accounts, NEW owner \in Accounts,
           RequestRedeem(caller, shares, controller, owner)
    PROVE  Redemptions!Next
  <1> DEFINE b == redeemState[controller]
             r == AddPending(b, shares)
  <1>1. redeemState' = [redeemState EXCEPT ![controller] = r] /\ idle' = idle
    BY DEF RequestRedeem
  <1>2. shares \in Nat \ {0} /\ b \in Buckets /\ now \in Nat
    BY VaultAssumption DEF IInv, TypeOK, Buckets
  <1>3. r \in Buckets /\ r.claimableAssets = b.claimableAssets
        /\ r.pendingShares = b.pendingShares + shares
    BY <1>2, AddPendingBucket
  <1>4. r.claimableShares = b.claimableShares /\ b.pendingShares \in Nat
    BY <1>2 DEF AddPending, Buckets
  <1> HIDE DEF r
  <1>5. /\ PendingOf' = [PendingOf EXCEPT ![controller] = r.pendingShares]
        /\ PricedOf' = [PricedOf EXCEPT ![controller] = r.claimableShares]
        /\ ClaimsOf' = [ClaimsOf EXCEPT ![controller] = r.claimableAssets]
        /\ PendingOf'[controller] = r.pendingShares
        /\ PendingOf[controller] = b.pendingShares
        /\ PricedOf[controller] = b.claimableShares /\ ClaimsOf[controller] = b.claimableAssets
    BY <1>1, <1>3, OneBucket
  <1>6. PricedOf' = PricedOf /\ ClaimsOf' = ClaimsOf
    BY <1>3, <1>4, <1>5, ZenonT(60) DEF PricedOf, ClaimsOf
  <1>7. PendingOf'[controller] > PendingOf[controller]
    BY <1>2, <1>3, <1>4, <1>5
  <1>8. Redemptions!Request(controller)
    BY <1>1, <1>5, <1>6, <1>7 DEF Redemptions!Request, Redemptions!Only
  <1> QED
    BY <1>8 DEF Redemptions!Next

\* fulfillRedeem() is a Fulfill: what it sets aside was free.
LEMMA FulfillStep ==
    ASSUME IInv, NEW role, NEW controller \in Accounts, NEW shares \in ShareAmounts,
           FulfillRedeem(role, controller, shares)
    PROVE  Redemptions!Next
  <1> DEFINE assets == ConvertToAssets(shares, TotalAssets, Fees.supply)
             b == redeemState[controller]
             r == Fulfilled(b, shares, assets)
  <1>1. /\ shares <= b.pendingShares /\ assets <= FreeAssets
        /\ redeemState' = [redeemState EXCEPT ![controller] = r] /\ idle' = idle
    BY DEF FulfillRedeem
  <1>2. shares \in Nat \ {0} /\ b \in Buckets
    BY VaultAssumption DEF IInv, TypeOK, Buckets
  <1>3. assets \in Nat
    BY <1>2, FeesSound, ConversionNat
  <1> HIDE DEF assets
  <1>4. r \in Buckets /\ r.claimableAssets = b.claimableAssets + assets
        /\ r.pendingShares = b.pendingShares - shares
    BY <1>1, <1>2, <1>3, FulfilledBucket
  <1>5. /\ r.claimableShares = b.claimableShares + shares
        /\ b.pendingShares \in Nat /\ b.claimableShares \in Nat /\ b.claimableAssets \in Nat
    BY <1>2 DEF Fulfilled, Buckets
  <1> HIDE DEF r
  <1>6. /\ PendingOf' = [PendingOf EXCEPT ![controller] = r.pendingShares]
        /\ PricedOf' = [PricedOf EXCEPT ![controller] = r.claimableShares]
        /\ ClaimsOf' = [ClaimsOf EXCEPT ![controller] = r.claimableAssets]
        /\ PendingOf'[controller] = r.pendingShares /\ PricedOf'[controller] = r.claimableShares
        /\ ClaimsOf'[controller] = r.claimableAssets
        /\ PendingOf[controller] = b.pendingShares
        /\ PricedOf[controller] = b.claimableShares /\ ClaimsOf[controller] = b.claimableAssets
    BY <1>1, <1>4, OneBucket
  <1>7. assets <= idle - Redemptions!OwedTotal
    BY <1>1, <1>3, OwedIsClaimable DEF IInv, TypeOK, ClaimsBacked, FreeAssets, FreeAssetsOf
  <1> DEFINE p == PendingOf[controller]
             q == PricedOf[controller]
             o == ClaimsOf[controller]
             p1 == PendingOf'[controller]
             q1 == PricedOf'[controller]
             o1 == ClaimsOf'[controller]
  <1>8. p1 < p /\ p1 >= 0 /\ p1 + q1 = p + q /\ o1 >= o /\ o1 - o = assets
    BY <1>1, <1>2, <1>3, <1>4, <1>5, <1>6
  <1>9. /\ PendingOf' = [PendingOf EXCEPT ![controller] = p1]
        /\ PricedOf' = [PricedOf EXCEPT ![controller] = q1]
        /\ ClaimsOf' = [ClaimsOf EXCEPT ![controller] = o1]
    BY <1>6
  <1>10. Redemptions!Fulfill(controller)
    BY <1>1, <1>7, <1>8, <1>9 DEF Redemptions!Fulfill, Redemptions!Only
  <1> QED
    BY <1>10 DEF Redemptions!Next

\* A claim of no more than the bucket holds is a Claim.
LEMMA ClaimStep ==
    ASSUME IInv, NEW caller, NEW controller \in Accounts, NEW receiver,
           NEW shares \in Nat, NEW assets \in Nat,
           shares <= redeemState[controller].claimableShares,
           assets <= redeemState[controller].claimableAssets,
           Claim(caller, controller, receiver, shares, assets)
    PROVE  Redemptions!Next
  <1> DEFINE b == redeemState[controller]
             r == Claimed(b, shares, assets)
  <1>1. /\ redeemState' = [redeemState EXCEPT ![controller] = r]
        /\ idle' = IF receiver = Vault THEN idle ELSE idle - assets
    BY DEF Claim
  <1>2. b \in Buckets
    BY DEF IInv, TypeOK, Buckets
  <1>3. r \in Buckets /\ r.claimableAssets = b.claimableAssets - assets
        /\ r.pendingShares = b.pendingShares
    BY <1>2, ClaimedBucket
  <1>4. /\ r.claimableShares = b.claimableShares - shares
        /\ b.claimableShares \in Nat /\ b.claimableAssets \in Nat
    BY <1>2 DEF Claimed, Buckets
  <1> HIDE DEF r
  <1>5. /\ PendingOf' = [PendingOf EXCEPT ![controller] = r.pendingShares]
        /\ PricedOf' = [PricedOf EXCEPT ![controller] = r.claimableShares]
        /\ ClaimsOf' = [ClaimsOf EXCEPT ![controller] = r.claimableAssets]
        /\ PricedOf'[controller] = r.claimableShares /\ ClaimsOf'[controller] = r.claimableAssets
        /\ PendingOf[controller] = b.pendingShares
        /\ PricedOf[controller] = b.claimableShares /\ ClaimsOf[controller] = b.claimableAssets
    BY <1>1, <1>3, OneBucket
  <1>6. PendingOf' = PendingOf
    BY <1>3, <1>5 DEF PendingOf
  <1> DEFINE q == PricedOf[controller]
             o == ClaimsOf[controller]
             q1 == PricedOf'[controller]
             o1 == ClaimsOf'[controller]
  <1>7. q1 <= q /\ q1 >= 0 /\ o1 <= o /\ o1 >= 0 /\ o - o1 = assets
    BY <1>3, <1>4, <1>5
  <1>8. /\ PricedOf' = [PricedOf EXCEPT ![controller] = q1]
        /\ ClaimsOf' = [ClaimsOf EXCEPT ![controller] = o1]
    BY <1>5
  <1>9. Redemptions!Claim(controller)
    BY <1>1, <1>6, <1>7, <1>8 DEF Redemptions!Claim, Redemptions!Only
  <1> QED
    BY <1>9 DEF Redemptions!Next

-----------------------------------------------------------------------------
\* Every call of the contract is a step of AsyncRedeem.

LEMMA StepSimulates == IInv /\ IInv' /\ Next => Redemptions!Next
  <1> SUFFICES ASSUME IInv, IInv', Next PROVE Redemptions!Next
    OBVIOUS
  <1>1. ASSUME UNCHANGED redeemState PROVE Redemptions!Next
    BY <1>1, CashStep
  <1>2. CASE HolderStep
    <2>1. ASSUME NEW s \in ShareAmounts, NEW x \in Accounts, NEW c \in Accounts,
                 NEW o \in Accounts, RequestRedeem(x, s, c, o)
          PROVE  Redemptions!Next
      BY <2>1, RequestStep
    <2>2. ASSUME NEW s \in ShareAmounts, NEW x \in Accounts, NEW c \in Accounts,
                 NEW r \in Receivers, Redeem(x, s, r, c)
          PROVE  Redemptions!Next
      BY <2>2, RedeemIsClaim, ClaimStep, VaultAssumption
    <2>3. ASSUME NEW a \in Amounts, NEW x \in Accounts, NEW c \in Accounts,
                 NEW r \in Receivers, Withdraw(x, a, r, c)
          PROVE  Redemptions!Next
      BY <2>3, WithdrawIsClaim, ClaimStep, VaultAssumption
    <2>4. ASSUME NEW a \in Amounts, NEW h \in Receivers, Deposit(a, h) PROVE Redemptions!Next
      BY <1>1, <2>4 DEF Deposit, queueVars
    <2>5. ASSUME NEW s \in ShareAmounts, NEW h \in Receivers, Mint(s, h) PROVE Redemptions!Next
      BY <1>1, <2>5 DEF Mint, queueVars
    <2>6. ASSUME NEW c \in Accounts, NEW o \in Operators, NEW b \in BOOLEAN, SetOperator(c, o, b)
          PROVE  Redemptions!Next
      BY <1>1, <2>6 DEF SetOperator, queueVars
    <2>7. ASSUME NEW s \in ShareAmounts, NEW f \in Accounts, NEW h \in Holders,
                 TransferShares(f, h, s)
          PROVE  Redemptions!Next
      BY <1>1, <2>7 DEF TransferShares, queueVars
    <2> QED
      BY <1>2, <2>1, <2>2, <2>3, <2>4, <2>5, <2>6, <2>7 DEF HolderStep
  <1>3. CASE AgentStep
    <2>1. ASSUME NEW r, NEW c \in Accounts, NEW s \in ShareAmounts, FulfillRedeem(r, c, s)
          PROVE  Redemptions!Next
      BY <2>1, FulfillStep
    <2>2. ASSUME NEW a \in Amounts, AgentWithdraw(a) PROVE Redemptions!Next
      BY <1>1, <2>2 DEF AgentWithdraw, queueVars
    <2>3. ASSUME NEW a \in Amounts, AgentReturn(a) PROVE Redemptions!Next
      BY <1>1, <2>3 DEF AgentReturn, queueVars
    <2>4. ASSUME NEW v \in NavValues, NEW x \in Leverages, ReportNav(v, x)
          PROVE  Redemptions!Next
      BY <1>1, <2>4 DEF ReportNav, queueVars
    <2>5. ASSUME NEW n \in 1 .. MaxActivity, ReportActivity(n) PROVE Redemptions!Next
      BY <1>1, <2>5 DEF ReportActivity, queueVars
    <2> QED
      BY <1>3, <2>1, <2>2, <2>3, <2>4, <2>5 DEF AgentStep
  <1>4. CASE AdminStep
    <2>1. UNCHANGED redeemState
      BY <1>4 DEF AdminStep, SetLimits, SetInsuranceFund, SettleFees, SetEmergencyExit, Pause,
                  Unpause, SwitchOnly, queueVars
    <2> QED
      BY <1>1, <2>1
  <1>5. CASE OpenStep
    <2>1. UNCHANGED redeemState
      BY <1>5 DEF OpenStep, Donate, SendUsdc, AccrueFeesCall, SettleFees, NextBlock, queueVars
    <2> QED
      BY <1>1, <2>1
  <1> QED
    BY <1>2, <1>3, <1>4, <1>5 DEF Next

\* An empty vault owes nothing.
LEMMA InitSimulates == Init => Redemptions!Init
  BY DEF Init, NoRequest, PendingOf, PricedOf, ClaimsOf, Redemptions!Init, Redemptions!Idle

(***************************************************************************)
(* The redemption queue keeps its promise to every controller: a request   *)
(* only grows until it is priced, what it was priced at is set aside out of*)
(* USDC that was free and is paid to nobody else, and no draw, report, fee *)
(* or claim of another takes the contract's USDC below it.                 *)
(***************************************************************************)
THEOREM RedemptionsAreKept == Spec => RedemptionsKept
  <1>1. ASSUME IInv, IInv', [Next]_vars
        PROVE  [Redemptions!Next]_<<Redemptions!queue, idle>>
    <2>1. CASE UNCHANGED vars
      <3>1. UNCHANGED redeemState /\ UNCHANGED idle
        BY <2>1 DEF vars, queueVars
      <3> QED
        BY <3>1, ViewsKept DEF Redemptions!queue
    <2> QED
      BY <1>1, <2>1, StepSimulates
  <1> QED
    BY <1>1, InitSimulates, Inductive, PTL DEF Spec, RedemptionsKept, Redemptions!Spec
-----------------------------------------------------------------------------
(***************************************************************************)
(* What the contract promises over several calls and blocks, for any       *)
(* accounts, amounts, limits and clock.  Each promise rests on what the    *)
(* contract's own state keeps of its history: the time of a request, the   *)
(* anchor of an epoch, the counter of the leaky bucket.                    *)
(***************************************************************************)

\* The newest share of a bucket is no older than the bucket's clock.
QueueOk ==
    /\ arrivedAt \in [Accounts -> Nat]
    /\ \A a \in Accounts : arrivedAt[a] <= redeemState[a].requestedAt

\* The gap between the position and its anchor is what was reported.
GapIsReported ==
    /\ deployedAssets - navEpochAnchor = epochProfit
    /\ navEpochAnchor <= epochOut
    /\ navEpochAnchor = 0 => deployedAssets = 0

EpochOk ==
    /\ epochProfit \in Int /\ epochOut \in Nat /\ epochBps \in Nat /\ anchorSpent \in BOOLEAN
    /\ epochBps >= limits.maxNavEpochDeviationBps
    /\ anchorSpent \/ GapIsReported
    /\ EpochProfitBounded

\* What the agent drew at s or later.
DrawnSince(s) == Total([u \in s .. MaxTime |-> drawn[u]])

(***************************************************************************)
(* The counter of the bucket remembers all but what leaked: one cap for    *)
(* each window between the first draw counted and the last.                *)
(***************************************************************************)
CounterRemembers ==
    \A s \in 1 .. agentWindowStartedAt :
        limits.agentWithdrawWindow * DrawnSince(s)
            <= limits.agentWithdrawWindow * agentWithdrawnInWindow
               + limits.agentWithdrawWindowCap * (agentWindowStartedAt - s)

CounterOk ==
    /\ now \in 1 .. MaxTime
    /\ drawn \in [1 .. MaxTime -> Nat]
    /\ \A u \in 1 .. MaxTime : u > agentWindowStartedAt => drawn[u] = 0
    /\ agentWithdrawnInWindow <= limits.agentWithdrawWindowCap \/ drawn = NothingDrawn
    /\ CounterRemembers

WindowOk == CounterOk /\ BurstWithinTwiceCap

HInv == IInv /\ QueueOk /\ EpochOk /\ WindowOk

-----------------------------------------------------------------------------
\* What a step of the contract may do to each piece of its state.

\* Only the agent's three calls touch the position, its anchor or the window.
LEMMA PositionStep ==
    ASSUME Next
    PROVE  \/ UNCHANGED <<deployedAssets, navVars, windowVars>>
           \/ \E a \in Amounts : AgentWithdraw(a)
           \/ \E a \in Amounts : AgentReturn(a)
           \/ Reported
  <1>1. CASE HolderStep
    BY <1>1 DEF HolderStep, Deposit, Mint, SetOperator, RequestRedeem, Redeem, Withdraw, Claim,
                TransferShares
  <1>2. CASE AgentStep
    BY <1>2 DEF AgentStep, FulfillRedeem, ReportActivity, Reported
  <1>3. CASE AdminStep
    BY <1>3 DEF AdminStep, SetLimits, SetInsuranceFund, SettleFees, SetEmergencyExit, Pause,
                Unpause, SwitchOnly
  <1>4. CASE OpenStep
    BY <1>4 DEF OpenStep, Donate, SendUsdc, AccrueFeesCall, SettleFees, NextBlock
  <1> QED
    BY <1>1, <1>2, <1>3, <1>4 DEF Next

\* Only setLimits changes the limits, and only a block the time.
LEMMA LimitsStep ==
    ASSUME Next
    PROVE  \/ UNCHANGED <<limits, now>>
           \/ /\ UNCHANGED <<deployedAssets, navVars, windowVars, now>>
              /\ limits' \in LimitChoices /\ ValidLimits(limits')
           \/ /\ now < MaxTime /\ now' = now + 1
              /\ UNCHANGED <<limits, deployedAssets, navVars, windowVars>>
  <1>1. CASE HolderStep
    BY <1>1 DEF HolderStep, Deposit, Mint, SetOperator, RequestRedeem, Redeem, Withdraw, Claim,
                TransferShares, adminVars
  <1>2. CASE AgentStep
    BY <1>2 DEF AgentStep, FulfillRedeem, AgentWithdraw, AgentReturn, ReportNav, ReportActivity,
                adminVars
  <1>3. CASE AdminStep
    BY <1>3 DEF AdminStep, SetLimits, SetInsuranceFund, SettleFees, SetEmergencyExit, Pause,
                Unpause, SwitchOnly
  <1>4. CASE OpenStep
    BY <1>4 DEF OpenStep, Donate, SendUsdc, AccrueFeesCall, SettleFees, NextBlock, adminVars
  <1> QED
    BY <1>1, <1>2, <1>3, <1>4 DEF Next

\* What a call may do to one controller's pending shares and their clock.
BucketMoves(a) ==
    LET before == redeemState[a]
        after  == redeemState'[a]
    IN  \/ after.pendingShares = before.pendingShares /\ after.requestedAt = before.requestedAt
        \/ after.pendingShares > before.pendingShares /\ after.requestedAt = now
        \/ /\ after.pendingShares < before.pendingShares
           /\ after.requestedAt = before.requestedAt
           /\ now >= before.requestedAt + limits.minRedeemDelay

\* A request restarts the clock, and only a ripe request is fulfilled.
LEMMA BucketStep ==
    ASSUME IInv, Next, NEW a \in Accounts
    PROVE  BucketMoves(a)
  <1>0. /\ redeemState \in [Accounts -> Buckets] /\ ShareAmounts \subseteq Nat \ {0}
        /\ redeemState[a].pendingShares \in Nat /\ redeemState[a].requestedAt \in Nat
    BY VaultAssumption DEF IInv, TypeOK, Buckets
  <1>1. ASSUME UNCHANGED redeemState PROVE BucketMoves(a)
    BY <1>1 DEF BucketMoves
  <1>2. ASSUME NEW s \in ShareAmounts, NEW x \in Accounts, NEW c \in Accounts,
               NEW o \in Accounts, RequestRedeem(x, s, c, o)
        PROVE  BucketMoves(a)
    <2>1. redeemState' = [redeemState EXCEPT ![c] = AddPending(redeemState[c], s)]
      BY <1>2 DEF RequestRedeem
    <2>2. CASE a = c
      <3>1. redeemState'[a] = AddPending(redeemState[a], s)
        BY <1>0, <2>1, <2>2
      <3>2. /\ AddPending(redeemState[a], s).pendingShares = redeemState[a].pendingShares + s
            /\ AddPending(redeemState[a], s).requestedAt = now
        BY <1>0 DEF AddPending, Buckets
      <3> QED
        BY <1>0, <3>1, <3>2 DEF BucketMoves
    <2>3. CASE a # c
      BY <1>0, <2>1, <2>3 DEF BucketMoves
    <2> QED
      BY <2>2, <2>3
  <1>3. ASSUME NEW r, NEW c \in Accounts, NEW s \in ShareAmounts, FulfillRedeem(r, c, s)
        PROVE  BucketMoves(a)
    <2> DEFINE assets == ConvertToAssets(s, TotalAssets, Fees.supply)
    <2>1. /\ redeemState' = [redeemState EXCEPT ![c] = Fulfilled(redeemState[c], s, assets)]
          /\ now >= redeemState[c].requestedAt + limits.minRedeemDelay
      BY <1>3 DEF FulfillRedeem
    <2> HIDE DEF assets
    <2>2. CASE a = c
      <3>1. redeemState'[a] = Fulfilled(redeemState[a], s, assets)
        BY <1>0, <2>1, <2>2
      <3>2. /\ Fulfilled(redeemState[a], s, assets).pendingShares = redeemState[a].pendingShares - s
            /\ Fulfilled(redeemState[a], s, assets).requestedAt = redeemState[a].requestedAt
        BY <1>0 DEF Fulfilled, Buckets
      <3> QED
        BY <1>0, <2>1, <2>2, <3>1, <3>2 DEF BucketMoves
    <2>3. CASE a # c
      BY <1>0, <2>1, <2>3 DEF BucketMoves
    <2> QED
      BY <2>2, <2>3
  <1>4. ASSUME NEW x \in Accounts, NEW c \in Accounts, NEW r \in Receivers, NEW s, NEW n,
               Claim(x, c, r, s, n)
        PROVE  BucketMoves(a)
    <2>1. redeemState' = [redeemState EXCEPT ![c] = Claimed(redeemState[c], s, n)]
      BY <1>4 DEF Claim
    <2>2. /\ Claimed(redeemState[c], s, n).pendingShares = redeemState[c].pendingShares
          /\ Claimed(redeemState[c], s, n).requestedAt = redeemState[c].requestedAt
      BY <1>0 DEF Claimed, Buckets
    <2> QED
      BY <1>0, <2>1, <2>2 DEF BucketMoves
  <1>5. CASE HolderStep
    <2>1. ASSUME NEW s \in ShareAmounts, NEW x \in Accounts, NEW c \in Accounts,
                 NEW r \in Receivers, Redeem(x, s, r, c)
          PROVE  BucketMoves(a)
      BY <1>4, <2>1 DEF Redeem
    <2>2. ASSUME NEW n \in Amounts, NEW x \in Accounts, NEW c \in Accounts,
                 NEW r \in Receivers, Withdraw(x, n, r, c)
          PROVE  BucketMoves(a)
      <3>1. \E s : Claim(x, c, r, s, n)
        BY <2>2 DEF Withdraw
      <3> QED
        BY <1>4, <3>1
    <2>3. ASSUME \/ \E n \in Amounts, h \in Receivers : Deposit(n, h)
                 \/ \E s \in ShareAmounts, h \in Receivers : Mint(s, h)
                 \/ \E c \in Accounts, o \in Operators, b \in BOOLEAN : SetOperator(c, o, b)
                 \/ \E s \in ShareAmounts, f \in Accounts, h \in Holders : TransferShares(f, h, s)
          PROVE  BucketMoves(a)
      BY <1>1, <2>3 DEF Deposit, Mint, SetOperator, TransferShares, queueVars
    <2> QED
      BY <1>2, <1>5, <2>1, <2>2, <2>3 DEF HolderStep
  <1>6. CASE AgentStep
    <2>1. ASSUME \/ \E n \in Amounts : AgentWithdraw(n)
                 \/ \E n \in Amounts : AgentReturn(n)
                 \/ \E v \in NavValues, x \in Leverages : ReportNav(v, x)
                 \/ \E n \in 1 .. MaxActivity : ReportActivity(n)
          PROVE  BucketMoves(a)
      BY <1>1, <2>1 DEF AgentWithdraw, AgentReturn, ReportNav, ReportActivity, queueVars
    <2> QED
      BY <1>3, <1>6, <2>1 DEF AgentStep
  <1>7. CASE AdminStep
    BY <1>1, <1>7 DEF AdminStep, SetLimits, SetInsuranceFund, SettleFees, SetEmergencyExit,
                      Pause, Unpause, SwitchOnly, queueVars
  <1>8. CASE OpenStep
    BY <1>1, <1>8 DEF OpenStep, Donate, SendUsdc, AccrueFeesCall, SettleFees, NextBlock,
                      queueVars
  <1> QED
    BY <1>5, <1>6, <1>7, <1>8 DEF Next

-----------------------------------------------------------------------------
\* The queue.

\* What every limit in force is, and what the ceilings make of it.
LEMMA LimitsInForce ==
    ASSUME IInv
    PROVE  /\ limits.agentWithdrawWindow \in Nat \ {0} /\ limits.agentWithdrawWindowCap \in Nat
           /\ limits.minRedeemDelay \in Nat /\ limits.minRedeemDelay >= MIN_REDEEM_DELAY
           /\ limits.maxNavEpochDeviationBps \in Nat /\ MIN_REDEEM_DELAY \in Nat
  BY VaultAssumption DEF IInv, TypeOK, ValidLimits, LimitFields

\* The observer of the queue keeps up with the contract's clock of each bucket.
LEMMA QueueOkStep ==
    ASSUME IInv, QueueOk, Next, ObserveQueue
    PROVE  QueueOk'
  <1>1. now \in Nat /\ redeemState \in [Accounts -> Buckets]
    BY DEF IInv, TypeOK, Buckets
  <1>2. arrivedAt' \in [Accounts -> Nat]
    BY <1>1 DEF ObserveQueue, QueueOk
  <1>3. ASSUME NEW a \in Accounts PROVE arrivedAt'[a] <= redeemState'[a].requestedAt
    <2>1. /\ redeemState[a].pendingShares \in Nat /\ redeemState[a].requestedAt \in Nat
          /\ arrivedAt[a] \in Nat /\ arrivedAt[a] <= redeemState[a].requestedAt
      BY <1>1 DEF QueueOk, Buckets
    <2>2. arrivedAt'[a] = IF redeemState'[a].pendingShares > redeemState[a].pendingShares
                          THEN now ELSE arrivedAt[a]
      BY DEF ObserveQueue
    <2>3. redeemState'[a].pendingShares \in Nat
      BY NextInv DEF IInv, TypeOK
    <2>4. BucketMoves(a)
      BY BucketStep
    <2> QED
      BY <1>1, <2>1, <2>2, <2>3, <2>4 DEF BucketMoves
  <1> QED
    BY <1>2, <1>3 DEF QueueOk

\* What leaves the queue has waited.
LEMMA LeavesRipe ==
    ASSUME IInv, QueueOk, Next, NEW a \in Accounts,
           redeemState'[a].pendingShares < redeemState[a].pendingShares
    PROVE  now >= arrivedAt[a] + MIN_REDEEM_DELAY
  <1>1. /\ redeemState[a].pendingShares \in Nat /\ redeemState[a].requestedAt \in Nat
        /\ redeemState'[a].pendingShares \in Nat
    BY NextInv DEF IInv, TypeOK
  <1>2. BucketMoves(a)
    BY BucketStep
  <1>3. now >= redeemState[a].requestedAt + limits.minRedeemDelay
    BY <1>1, <1>2 DEF BucketMoves
  <1>4. arrivedAt[a] \in Nat /\ arrivedAt[a] <= redeemState[a].requestedAt /\ now \in Nat
    BY DEF QueueOk, IInv, TypeOK
  <1> QED
    BY <1>1, <1>3, <1>4, LimitsInForce

-----------------------------------------------------------------------------
\* The NAV epoch.

\* What is left of a natural is a natural.
LEMMA DifferenceNat ==
    ASSUME NEW a \in Nat, NEW b \in Nat, b < a PROVE a - b \in Nat
  OBVIOUS

\* The bound of an epoch widens with the capital that was out and with the limit.
LEMMA WiderBound ==
    ASSUME NEW a \in Nat, NEW b \in Nat, NEW c \in Nat, NEW d \in Nat, a <= c, b <= d
    PROVE  /\ (a * b) \div BPS \in Nat /\ (c * d) \div BPS \in Nat
           /\ (a * b) \div BPS <= (c * d) \div BPS
  <1>1. a * b <= c * b /\ c * b = b * c /\ d * c = c * d
    BY MulMono
  <1>2. b * c <= d * c
    BY MulMono
  <1>3. a * b \in Nat /\ c * b \in Nat /\ c * d \in Nat
    BY MulNat
  <1>4. a * b <= c * d
    BY <1>1, <1>2, <1>3
  <1>5. (a * b) \div BPS \in Nat /\ (c * d) \div BPS \in Nat
    BY <1>3, UnitsPositive, DivNat
  <1>6. a * b < ((a * b) \div BPS + 1) * BPS /\ c * d < ((c * d) \div BPS + 1) * BPS
    <2>1. \A n \in Nat, k \in Nat \ {0} : n < (n \div k + 1) * k
      OBVIOUS
    <2> QED
      BY <1>3, <2>1, UnitsPositive
  <1>7. ((a * b) \div BPS) * BPS <= a * b
    BY <1>3, UnitsPositive, DivFloor
  <1> DEFINE p == (a * b) \div BPS
             q == (c * d) \div BPS
  <1>8. p * BPS < (q + 1) * BPS /\ p \in Nat /\ q \in Nat /\ BPS \in Nat \ {0}
    <2>1. p * BPS \in Nat /\ (q + 1) * BPS \in Nat
      BY <1>5, UnitsPositive, MulNat
    <2> QED
      BY <1>3, <1>4, <1>5, <1>6, <1>7, <2>1, UnitsPositive
  <1> HIDE DEF p, q
  <1>9. p <= q
    <2>1. CASE p >= q + 1
      <3>1. (q + 1) * BPS <= p * BPS
        BY <1>8, <2>1, MulMono
      <3>2. p * BPS \in Nat /\ (q + 1) * BPS \in Nat
        BY <1>8, MulNat
      <3> QED
        BY <1>8, <3>1, <3>2
    <2> QED
      BY <1>8, <2>1
  <1> QED
    BY <1>5, <1>9 DEF p, q

\* An epoch in which nothing was reported, or whose bound widened, keeps its promise.
LEMMA BoundWidens ==
    ASSUME EpochProfitBounded, epochProfit \in Int,
           epochOut \in Nat, epochBps \in Nat, epochOut' \in Nat, epochBps' \in Nat,
           epochOut <= epochOut', epochBps <= epochBps', epochProfit' = epochProfit,
           anchorSpent => anchorSpent'
    PROVE  EpochProfitBounded'
  <1> DEFINE p == (epochOut * epochBps) \div BPS
             q == (epochOut' * epochBps') \div BPS
  <1>1. p \in Nat /\ q \in Nat /\ p <= q
    BY WiderBound
  <1>2. anchorSpent \/ epochProfit \in -p .. p
    BY DEF EpochProfitBounded
  <1>3. (anchorSpent' \/ epochProfit' \in -q .. q) => EpochProfitBounded'
    BY DEF EpochProfitBounded
  <1> HIDE DEF p, q
  <1> QED
    BY <1>1, <1>2, <1>3

\* A call of anyone but the reporter.
LEMMA EpochBetweenReports ==
    ASSUME IInv, IInv', EpochOk, Next, ObserveEpoch, ~Reported
    PROVE  EpochOk'
  <1>1. /\ epochProfit' = epochProfit /\ epochOut' = epochOut + Drawn
        /\ epochBps' = IF limits'.maxNavEpochDeviationBps > epochBps
                       THEN limits'.maxNavEpochDeviationBps ELSE epochBps
        /\ anchorSpent' = (anchorSpent \/ (Credited >= navEpochAnchor /\ deployedAssets > navEpochAnchor))
    BY DEF ObserveEpoch
  <1>2. /\ idle \in Nat /\ idle' \in Nat /\ deployedAssets \in Nat /\ deployedAssets' \in Nat
        /\ navEpochAnchor \in Nat /\ navEpochAnchor' \in Nat
        /\ limits.maxNavEpochDeviationBps \in Nat /\ limits'.maxNavEpochDeviationBps \in Nat
        /\ Amounts \subseteq Nat \ {0}
    <2>1. limits.maxNavEpochDeviationBps \in Nat
      BY LimitsInForce
    <2>2. limits' \in LimitChoices
      BY DEF IInv, TypeOK
    <2>3. limits'.maxNavEpochDeviationBps \in Nat
      BY <2>2, VaultAssumption DEF LimitFields
    <2> QED
      BY <2>1, <2>3, VaultAssumption DEF IInv, TypeOK
  <1>3. /\ epochProfit \in Int /\ epochOut \in Nat /\ epochBps \in Nat /\ anchorSpent \in BOOLEAN
        /\ epochBps >= limits.maxNavEpochDeviationBps
        /\ anchorSpent \/ GapIsReported
        /\ EpochProfitBounded
    BY DEF EpochOk
  <1>4. /\ Drawn \in Nat /\ epochProfit' \in Int /\ epochOut' \in Nat /\ epochOut' >= epochOut
        /\ epochBps' \in Nat /\ epochBps' >= epochBps
        /\ epochBps' >= limits'.maxNavEpochDeviationBps
    <2>1. Drawn \in Nat
      <3>1. CASE idle' < idle /\ deployedAssets' > deployedAssets
        <4>1. idle \in Nat /\ idle' \in Nat /\ idle' < idle
          BY <1>2, <3>1
        <4>2. idle - idle' \in Nat
          BY <4>1, DifferenceNat
        <4> QED
          BY <3>1, <4>2 DEF Drawn
      <3>2. CASE ~(idle' < idle /\ deployedAssets' > deployedAssets)
        BY <3>2 DEF Drawn
      <3> QED
        BY <3>1, <3>2
    <2> HIDE DEF Drawn
    <2> QED
      BY <1>1, <1>2, <1>3, <2>1
  <1>5. anchorSpent' \in BOOLEAN /\ (anchorSpent => anchorSpent')
    BY <1>1, <1>3
  <1>6. EpochProfitBounded'
    BY <1>1, <1>3, <1>4, <1>5, BoundWidens
  <1>7. anchorSpent' \/ GapIsReported'
    <2> SUFFICES ASSUME ~anchorSpent' PROVE GapIsReported'
      OBVIOUS
    <2>1. /\ deployedAssets - navEpochAnchor = epochProfit
          /\ navEpochAnchor <= epochOut
          /\ navEpochAnchor = 0 => deployedAssets = 0
          /\ ~(Credited >= navEpochAnchor /\ deployedAssets > navEpochAnchor)
      BY <1>1, <1>3, <1>5 DEF GapIsReported
    <2>2. CASE UNCHANGED <<deployedAssets, navVars, windowVars>>
      BY <1>1, <1>2, <1>3, <1>4, <2>1, <2>2 DEF GapIsReported, navVars
    <2>3. ASSUME NEW a \in Amounts, AgentWithdraw(a) PROVE GapIsReported'
      <3>1. /\ idle' = idle - a /\ deployedAssets' = deployedAssets + a
            /\ navEpochAnchor' = navEpochAnchor + a /\ a \in Nat \ {0}
        BY <2>3, <1>2 DEF AgentWithdraw, AnchorAfterWithdraw
      <3>2. Drawn = a
        BY <1>2, <3>1 DEF Drawn
      <3> QED
        BY <1>1, <1>2, <1>3, <2>1, <3>1, <3>2 DEF GapIsReported
    <2>4. ASSUME NEW a \in Amounts, AgentReturn(a) PROVE GapIsReported'
      <3> DEFINE credited == IF a < deployedAssets THEN a ELSE deployedAssets
      <3>1. /\ idle' = idle + a /\ deployedAssets' = deployedAssets - credited
            /\ navEpochAnchor' = AnchorAfterReturn(credited) /\ a \in Nat \ {0}
        BY <2>4, <1>2 DEF AgentReturn
      <3>2. credited \in Nat /\ credited <= deployedAssets /\ (credited = 0 => deployedAssets = 0)
        BY <1>2, <3>1
      <3> HIDE DEF credited
      <3>3. Credited = credited /\ Drawn = 0
        BY <1>2, <3>1, <3>2 DEF Credited, Drawn
      <3> QED
        BY <1>1, <1>2, <1>3, <2>1, <3>1, <3>2, <3>3 DEF GapIsReported, AnchorAfterReturn
    <2> QED
      BY <2>2, <2>3, <2>4, PositionStep
  <1> QED
    BY <1>4, <1>5, <1>6, <1>7 DEF EpochOk

\* A report is judged against the anchor, and the anchor against what was out.
LEMMA EpochAtReport ==
    ASSUME IInv, IInv', EpochOk, ObserveEpoch, Reported
    PROVE  EpochOk'
  <1>1. PICK v \in NavValues, x \in Leverages : ReportNav(v, x)
    BY DEF Reported
  <1> DEFINE bps == limits.maxNavEpochDeviationBps
             anchor == IF NavEpochOver THEN deployedAssets ELSE navEpochAnchor
             profit == IF NavEpochOver THEN 0 ELSE epochProfit
  <1>2. /\ deployedAssets' = v /\ navEpochAnchor' = anchor /\ limits' = limits /\ v \in Nat
        /\ deployedAssets = 0 => v = 0
        /\ anchor # 0 => Distance(v, anchor) <= (anchor * bps) \div BPS
    BY <1>1, VaultAssumption
       DEF ReportNav, AnchorNow, NavDeviationOk, NavEpochOk, adminVars
  <1>3. /\ epochProfit' = profit + deployedAssets' - deployedAssets
        /\ epochOut' = IF NavEpochOver THEN deployedAssets ELSE epochOut
        /\ epochBps' = IF NavEpochOver THEN bps ELSE epochBps
        /\ anchorSpent' = (anchorSpent /\ ~NavEpochOver)
    BY DEF ObserveEpoch
  <1>4. /\ epochProfit \in Int /\ epochOut \in Nat /\ epochBps \in Nat /\ anchorSpent \in BOOLEAN
        /\ epochBps >= bps /\ (anchorSpent \/ GapIsReported)
        /\ deployedAssets \in Nat /\ navEpochAnchor \in Nat /\ bps \in Nat
    BY LimitsInForce DEF EpochOk, IInv, TypeOK
  <1> HIDE DEF bps
  <1>5. /\ epochProfit' \in Int /\ epochOut' \in Nat /\ epochBps' \in Nat
        /\ epochBps' >= bps /\ anchorSpent' \in BOOLEAN
    BY <1>2, <1>3, <1>4
  <1>6. CASE anchorSpent'
    BY <1>2, <1>5, <1>6 DEF EpochOk, EpochProfitBounded, bps
  <1>7. CASE ~anchorSpent'
    <2>1. /\ deployedAssets - anchor = profit /\ anchor <= epochOut'
          /\ (anchor = 0 => deployedAssets = 0) /\ anchor \in Nat
      BY <1>3, <1>4, <1>7 DEF GapIsReported
    <2> HIDE DEF anchor, profit
    <2>2. profit \in Int
      BY <1>4, <2>1
    <2>3. GapIsReported'
      BY <1>2, <1>3, <1>4, <2>1, <2>2 DEF GapIsReported
    <2> DEFINE p == (anchor * bps) \div BPS
               q == (epochOut' * epochBps') \div BPS
    <2>4. p \in Nat /\ q \in Nat /\ p <= q
      BY <1>4, <1>5, <2>1, WiderBound
    <2>5. epochProfit' = v - anchor
      BY <1>2, <1>3, <1>4, <2>1, <2>2
    <2>6. anchor # 0 => Distance(v, anchor) <= p
      BY <1>2
    <2>7. EpochProfitBounded' <=> anchorSpent' \/ epochProfit' \in -q .. q
      BY DEF EpochProfitBounded
    <2> HIDE DEF p, q
    <2>8. epochProfit' \in -q .. q
      <3>1. CASE anchor = 0
        BY <1>2, <2>1, <2>4, <2>5, <3>1
      <3>2. CASE anchor # 0
        BY <1>2, <2>1, <2>4, <2>5, <2>6, <3>2 DEF Distance
      <3> QED
        BY <3>1, <3>2
    <2> QED
      BY <1>2, <1>5, <2>3, <2>7, <2>8 DEF EpochOk, bps
  <1> QED
    BY <1>6, <1>7

-----------------------------------------------------------------------------
\* The leaky bucket.

\* Summing from later on sums no more; summing nothing is zero.
LEMMA DrawnSinceNat ==
    ASSUME drawn \in [1 .. MaxTime -> Nat], NEW s \in Nat \ {0}
    PROVE  /\ DrawnSince(s) \in Nat
           /\ (\A u \in 1 .. MaxTime : u >= s => drawn[u] = 0) => DrawnSince(s) = 0
  <1>1. MaxTime \in Nat
    BY VaultAssumption
  <1>2. IsFiniteSet(s .. MaxTime)
    BY <1>1, FS_Interval
  <1>3. [u \in s .. MaxTime |-> drawn[u]] \in [s .. MaxTime -> Nat]
    BY <1>1
  <1>4. DrawnSince(s) \in Nat
    BY <1>2, <1>3, TotalNat DEF DrawnSince
  <1>5. ASSUME \A u \in 1 .. MaxTime : u >= s => drawn[u] = 0
        PROVE  DrawnSince(s) = 0
    <2>1. [u \in s .. MaxTime |-> drawn[u]] = [u \in s .. MaxTime |-> 0]
      BY <1>1, <1>5
    <2> QED
      BY <2>1, TotalZero DEF DrawnSince
  <1> QED
    BY <1>4, <1>5

\* A draw at a time adds its amount to every sum that reaches it.
LEMMA DrawCounted ==
    drawn \in [1 .. MaxTime -> Nat] =>
        \A t \in 1 .. MaxTime, n \in Nat :
            drawn' = [drawn EXCEPT ![t] = @ + n] =>
                \A s \in 1 .. t : DrawnSince(s)' = DrawnSince(s) + n
  <1>0. SUFFICES ASSUME drawn \in [1 .. MaxTime -> Nat], NEW t \in 1 .. MaxTime, NEW n \in Nat,
                        drawn' = [drawn EXCEPT ![t] = @ + n], NEW s \in 1 .. t
                 PROVE  DrawnSince(s)' = DrawnSince(s) + n
    OBVIOUS
  <1>1. MaxTime \in Nat
    BY VaultAssumption
  <1>2. PICK A, B, x, d, e : A = 1 .. MaxTime /\ B = s .. MaxTime /\ x = t /\ d = drawn /\ e = drawn'
    OBVIOUS
  <1>3. /\ d \in [A -> Nat] /\ e \in [A -> Nat] /\ B \in SUBSET A /\ x \in B
        /\ e[x] = d[x] + n /\ \A y \in A : y # x => e[y] = d[y]
    BY <1>0, <1>1, <1>2
  <1>4. IsFiniteSet(B)
    BY <1>1, <1>2, FS_Interval
  <1>5. PartTotal(e, B) = PartTotal(d, B) + n
    BY <1>3, <1>4, PartGains
  <1> QED
    BY <1>2, <1>5 DEF DrawnSince, PartTotal

\* A window is no more than what was drawn since it opened.
LEMMA WindowCovered ==
    ASSUME drawn \in [1 .. MaxTime -> Nat], limits.agentWithdrawWindow \in Nat \ {0},
           NEW t \in 1 .. MaxTime, NEW s \in 1 .. t, s <= t - limits.agentWithdrawWindow + 1
                                                     \/ s = 1
    PROVE  DrawnInWindow(t) \in Nat /\ DrawnInWindow(t) <= DrawnSince(s)
  <1> DEFINE W == limits.agentWithdrawWindow
             T == (t - W + 1 .. t) \cap 1 .. MaxTime
             f == [u \in T |-> drawn[u]]
             g == [u \in s .. MaxTime |-> drawn[u]]
  <1>1. MaxTime \in Nat /\ IsFiniteSet(s .. MaxTime) /\ IsFiniteSet(1 .. MaxTime)
    BY VaultAssumption, FS_Interval
  <1>2. IsFiniteSet(T)
    BY <1>1, FS_Subset
  <1>3. f \in [T -> Nat] /\ g \in [s .. MaxTime -> Nat]
    BY <1>1
  <1>4. \A x \in T : f[x] > 0 => x \in s .. MaxTime /\ f[x] <= g[x]
    BY <1>1, <1>3
  <1>5. DrawnInWindow(t) = Total(f) /\ DrawnSince(s) = Total(g)
    BY DEF DrawnInWindow, DrawnSince
  <1> HIDE DEF T, f, g
  <1>6. Total(f) <= Total(g)
    BY <1>1, <1>2, <1>3, <1>4, TotalLe
  <1> QED
    BY <1>2, <1>3, <1>5, <1>6, TotalNat

\* Two products compare as their other factors do.
LEMMA CancelLess ==
    ASSUME NEW a \in Nat, NEW b \in Nat, NEW w \in Nat \ {0}, w * a < w * (b + 1)
    PROVE  a <= b
  <1>1. CASE a >= b + 1
    <2>1. (b + 1) * w <= a * w
      BY <1>1, MulMono
    <2>2. (b + 1) * w = w * (b + 1) /\ a * w = w * a /\ w * a \in Nat /\ w * (b + 1) \in Nat
      BY MulNat
    <2> QED
      BY <2>1, <2>2
  <1> QED
    BY <1>1

\* One cap in the counter and less than one leaked are less than two and a share.
LEMMA TwiceTheCap ==
    ASSUME NEW w \in Nat \ {0}, NEW d \in Nat, NEW n \in Nat, NEW cap \in Nat, NEW k \in Nat,
           w * d <= w * n + cap * k, n <= cap, k <= w - 1
    PROVE  d <= 2 * cap
  <1>1. n * w <= cap * w /\ k * cap <= w * cap
    BY MulMono
  <1>2. /\ w * n \in Nat /\ w * cap \in Nat /\ cap * k \in Nat /\ w * d \in Nat
        /\ n * w = w * n /\ cap * w = w * cap /\ k * cap = cap * k
    BY MulNat
  <1>3. w * d <= w * cap + w * cap
    BY <1>1, <1>2
  <1>4. w * (2 * cap + 1) = w * cap + w * cap + w
    OBVIOUS
  <1>5. w * d < w * (2 * cap + 1)
    BY <1>2, <1>3, <1>4
  <1> QED
    BY <1>5, CancelLess

\* BurstWithinTwiceCap for the window that ends now.
BurstNow == DrawnInWindow(now) <= 2 * limits.agentWithdrawWindowCap

(***************************************************************************)
(* What the counter remembers bounds the window that ends now: at most the *)
(* cap is in the counter, and less than a cap leaked since the window      *)
(* opened.                                                                 *)
(***************************************************************************)
LEMMA WindowNow ==
    IInv /\ CounterOk => BurstNow
  <1>0. SUFFICES ASSUME IInv, CounterOk
                 PROVE  DrawnInWindow(now) <= 2 * limits.agentWithdrawWindowCap
    BY DEF BurstNow
  <1> DEFINE W == limits.agentWithdrawWindow
             cap == limits.agentWithdrawWindowCap
             n == agentWithdrawnInWindow
             last == agentWindowStartedAt
             s == IF now - W + 1 >= 1 THEN now - W + 1 ELSE 1
             D == DrawnSince(s)
  <1>types. /\ now \in 1 .. MaxTime /\ drawn \in [1 .. MaxTime -> Nat]
        /\ W \in Nat \ {0} /\ cap \in Nat /\ n \in Nat /\ last \in Nat /\ now \in Nat
    BY <1>0, LimitsInForce DEF CounterOk, IInv, TypeOK
  <1>silent. \A u \in 1 .. MaxTime : u > agentWindowStartedAt => drawn[u] = 0
    BY <1>0 DEF CounterOk
  <1>counter. /\ n <= cap \/ drawn = NothingDrawn
              /\ last <= now /\ CounterRemembers
    BY <1>0 DEF CounterOk, IInv, ClocksOk
  <1>1. s \in 1 .. now /\ (s <= now - W + 1 \/ s = 1) /\ now - s <= W - 1 /\ now - s \in Nat
    BY <1>types
  <1>2. DrawnInWindow(now) \in Nat /\ DrawnInWindow(now) <= D
    BY <1>1, <1>types, WindowCovered
  <1>3. D \in Nat
    BY <1>1, <1>types, DrawnSinceNat
  <1>4. CASE \A u \in 1 .. MaxTime : u >= s => drawn[u] = 0
    <2>1. D = 0
      BY <1>1, <1>4, <1>types, DrawnSinceNat
    <2> QED
      BY <1>2, <1>types, <2>1
  <1>5. CASE s <= last /\ n <= cap
    <2>1. s \in 1 .. last
      BY <1>1, <1>5, <1>types, <1>counter
    <2>2. W * D <= W * n + cap * (last - s)
      BY <1>counter, <2>1 DEF CounterRemembers
    <2>3. last - s \in Nat /\ last - s <= W - 1
      BY <1>1, <1>5, <1>types, <1>counter, SMTT(30)
    <2>4. W \in Nat \ {0} /\ cap \in Nat /\ n \in Nat
      BY <1>types DEF W, cap, n
    <2> HIDE DEF s, D, W, cap, n, last
    <2>5. D <= 2 * cap
      BY <1>3, <1>5, <2>2, <2>3, <2>4, TwiceTheCap
    <2> QED
      BY <1>2, <1>3, <2>4, <2>5 DEF cap
  <1>6. CASE drawn = NothingDrawn
    BY <1>1, <1>4, <1>6, <1>types DEF NothingDrawn
  <1>7. CASE s > last
    <2>1. ASSUME NEW u \in 1 .. MaxTime, u >= s PROVE drawn[u] = 0
      <3>1. s \in Nat /\ last \in Nat /\ u \in Nat
        BY <1>1, <1>types
      <3>2. u > last
        <4> HIDE DEF s, last
        <4> QED
          BY <1>7, <2>1, <3>1
      <3> QED
        BY <1>silent, <3>2
    <2> QED
      BY <1>4, <2>1
  <1> QED
    BY <1>1, <1>5, <1>6, <1>7, <1>types, <1>counter

\* What leaks between two draws is no more than a cap for each window of it.
LEMMA LeaksSlowly ==
    ASSUME NEW w \in Nat \ {0}, NEW d \in Nat, NEW n \in Nat, NEW cap \in Nat, NEW k \in Nat,
           NEW e \in Nat, NEW left, left = IF e >= w THEN 0 ELSE n - ((n * e) \div w),
           left \in Nat, n <= cap, w * d <= w * n + cap * k
    PROVE  w * d <= w * left + cap * (k + e)
  <1>1. /\ w * n \in Nat /\ w * cap \in Nat /\ cap * k \in Nat /\ w * d \in Nat /\ cap * e \in Nat
        /\ n * e \in Nat /\ w * left \in Nat /\ cap * (k + e) = cap * k + cap * e
    BY MulNat
  <1>2. CASE e >= w
    <2>1. n * w <= cap * w /\ n * w = w * n /\ w * cap <= e * cap /\ e * cap = cap * e /\ cap * w = w * cap
      BY <1>2, MulMono
    <2>2. w * left = 0
      BY <1>2
    <2> QED
      BY <1>1, <2>1, <2>2
  <1>3. CASE e < w
    <2> DEFINE q == (n * e) \div w
    <2>1. q \in Nat /\ q * w <= n * e
      BY <1>1, DivNat, DivFloor
    <2>2. left = n - q
      BY <1>3
    <2> HIDE DEF q
    <2>3. n * e <= cap * e
      BY MulMono
    <2>4. w * left = w * n - w * q /\ w * q = q * w /\ w * q \in Nat
      BY <2>1, <2>2, MulNat
    <2> QED
      BY <1>1, <2>1, <2>3, <2>4
  <1> QED
    BY <1>2, <1>3

\* A draw: the counter keeps what did not leak and adds what is drawn now.
LEMMA CounterAtDraw ==
    ASSUME IInv, CounterOk, NEW a \in Amounts, AgentWithdraw(a), ObserveDraws
    PROVE  CounterOk' /\ drawn' = [drawn EXCEPT ![now] = @ + a] /\ now' = now
  <1> DEFINE W == limits.agentWithdrawWindow
             cap == limits.agentWithdrawWindowCap
             n == agentWithdrawnInWindow
             last == agentWindowStartedAt
             e == now - last
  <1>1. /\ idle' = idle - a /\ deployedAssets' = deployedAssets + a
        /\ agentWindowStartedAt' = now /\ agentWithdrawnInWindow' = DrawnNow + a
        /\ DrawnNow + a <= cap /\ now' = now /\ limits' = limits
    BY DEF AgentWithdraw, WindowRestart, adminVars
  <1>2. /\ a \in Nat \ {0} /\ W \in Nat \ {0} /\ cap \in Nat /\ n \in Nat /\ last \in Nat
        /\ e \in Nat /\ DrawnNow \in Nat /\ idle \in Nat /\ deployedAssets \in Nat
        /\ now \in 1 .. MaxTime /\ drawn \in [1 .. MaxTime -> Nat] /\ last <= now /\ now \in Nat
    <2>1. W \in Nat \ {0} /\ cap \in Nat /\ DrawnNow \in Nat /\ a \in Nat \ {0}
      BY LimitsInForce, DrawnNowNat, VaultAssumption
    <2>2. /\ n \in Nat /\ last \in Nat /\ now \in Nat /\ last <= now
          /\ idle \in Nat /\ deployedAssets \in Nat
      BY DEF IInv, TypeOK, ClocksOk
    <2>3. now \in 1 .. MaxTime /\ drawn \in [1 .. MaxTime -> Nat]
      BY DEF CounterOk
    <2> QED
      BY <2>1, <2>2, <2>3
  <1>3. Drawn = a
    BY <1>1, <1>2 DEF Drawn
  <1>4. drawn' = [drawn EXCEPT ![now] = @ + a]
    BY <1>1, <1>3 DEF ObserveDraws
  <1>5. drawn' \in [1 .. MaxTime -> Nat]
    BY <1>2, <1>4
  <1>6. \A u \in 1 .. MaxTime : u > now => drawn'[u] = 0
    BY <1>2, <1>4 DEF CounterOk
  <1>7. ASSUME NEW s \in 1 .. now
        PROVE  W * DrawnSince(s)' <= W * (DrawnNow + a) + cap * (now - s)
    <2> DEFINE D == DrawnSince(s)
    <2>1. D \in Nat /\ s \in Nat \ {0}
      BY <1>2, DrawnSinceNat
    <2>2. DrawnSince(s)' = D + a
      BY <1>2, <1>4, DrawCounted
    <2>3. W * (D + a) = W * D + W * a /\ W * (DrawnNow + a) = W * DrawnNow + W * a
      BY <1>2, <2>1
    <2>4. /\ W * D \in Nat /\ W * a \in Nat /\ W * DrawnNow \in Nat
          /\ now - s \in Nat /\ cap * (now - s) \in Nat
      BY <1>2, <2>1, MulNat, SMTT(30)
    <2>5. W * D <= W * DrawnNow + cap * (now - s)
      <3>1. CASE \A u \in 1 .. MaxTime : u >= s => drawn[u] = 0
        <4>1. D = 0
          BY <1>2, <2>1, <3>1, DrawnSinceNat
        <4>2. W * D = 0
          BY <1>2, <4>1
        <4> QED
          BY <2>4, <4>2
      <3>2. CASE s <= last /\ n <= cap
        <4>1. s \in 1 .. last
          BY <1>2, <3>2
        <4>2. W * D <= W * n + cap * (last - s)
          BY <4>1 DEF CounterOk, CounterRemembers
        <4>3. last - s \in Nat /\ (last - s) + e = now - s
          BY <1>2, <2>1, <3>2
        <4>4. DrawnNow = IF e >= W THEN 0 ELSE n - ((n * e) \div W)
          BY DEF DrawnNow
        <4> HIDE DEF D, W, cap, n, last, e
        <4>5. W * D <= W * DrawnNow + cap * ((last - s) + e)
          BY <1>2, <2>1, <3>2, <4>2, <4>3, <4>4, LeaksSlowly
        <4> QED
          BY <4>3, <4>5
      <3>3. CASE drawn = NothingDrawn
        BY <1>2, <2>1, <3>1, <3>3 DEF NothingDrawn
      <3>4. CASE s > last
        BY <1>2, <2>1, <3>1, <3>4 DEF CounterOk
      <3> QED
        BY <1>2, <2>1, <3>2, <3>3, <3>4 DEF CounterOk
    <2> HIDE DEF D, W, cap, n, last
    <2> QED
      BY <2>2, <2>3, <2>4, <2>5
  <1>8. CounterRemembers'
    BY <1>1, <1>7 DEF CounterRemembers
  <1> QED
    BY <1>1, <1>2, <1>4, <1>5, <1>6, <1>8 DEF CounterOk

\* Any other call within the limits: the counter and what it remembers stay.
LEMMA CounterOtherwise ==
    ASSUME IInv, CounterOk, drawn' = drawn, UNCHANGED windowVars,
           limits'.agentWithdrawWindowCap = limits.agentWithdrawWindowCap,
           limits'.agentWithdrawWindow = limits.agentWithdrawWindow,
           now' = now \/ (now < MaxTime /\ now' = now + 1)
    PROVE  CounterOk'
  <1>1. now' \in 1 .. MaxTime
    BY VaultAssumption, SMTT(30) DEF CounterOk
  <1>2. \A s : DrawnSince(s)' = DrawnSince(s)
    BY DEF DrawnSince
  <1>3. CounterRemembers'
    BY <1>2 DEF CounterOk, CounterRemembers, windowVars
  <1> QED
    BY <1>1, <1>3 DEF CounterOk, windowVars

\* A new cap or window: nothing was drawn under it.
LEMMA CounterRestarts ==
    ASSUME IInv, IInv', CounterOk, drawn' = NothingDrawn, UNCHANGED <<windowVars, now>>
    PROVE  CounterOk' /\ \A t \in 1 .. now : DrawnInWindow(t)' = 0
  <1> DEFINE T(t) == (t - limits'.agentWithdrawWindow + 1 .. t) \cap 1 .. MaxTime
  <1>1. \A S \in SUBSET (1 .. MaxTime) : Total([u \in S |-> drawn'[u]]) = 0
    <2>1. ASSUME NEW S \in SUBSET (1 .. MaxTime) PROVE Total([u \in S |-> drawn'[u]]) = 0
      <3>1. [u \in S |-> drawn'[u]] = [u \in S |-> 0]
        BY DEF NothingDrawn
      <3> QED
        BY <3>1, TotalZero
    <2> QED
      BY <2>1
  <1>2. \A s \in 1 .. MaxTime : DrawnSince(s)' = 0
    <2>1. ASSUME NEW s \in 1 .. MaxTime PROVE DrawnSince(s)' = 0
      <3>1. s .. MaxTime \in SUBSET (1 .. MaxTime)
        BY VaultAssumption
      <3> QED
        BY <1>1, <3>1 DEF DrawnSince
    <2> QED
      BY <2>1
  <1>3. \A t \in 1 .. now : DrawnInWindow(t)' = 0
    BY <1>1 DEF DrawnInWindow
  <1>4. PICK w, cap : /\ w = limits'.agentWithdrawWindow /\ cap = limits'.agentWithdrawWindowCap
                      /\ w \in Nat /\ cap \in Nat
    <2>1. limits' \in LimitChoices
      BY DEF IInv, TypeOK
    <2> QED
      BY <2>1, LimitsNat
  <1>5. /\ now \in 1 .. MaxTime /\ agentWindowStartedAt \in Nat /\ agentWithdrawnInWindow \in Nat
        /\ agentWindowStartedAt <= now
    BY DEF CounterOk, IInv, TypeOK, ClocksOk
  <1>6. ASSUME NEW s \in 1 .. agentWindowStartedAt
        PROVE  w * DrawnSince(s)' <= w * agentWithdrawnInWindow + cap * (agentWindowStartedAt - s)
    <2>1. DrawnSince(s)' = 0
      BY <1>2, <1>5, VaultAssumption
    <2>2. /\ w * agentWithdrawnInWindow \in Nat
          /\ agentWindowStartedAt - s \in Nat /\ cap * (agentWindowStartedAt - s) \in Nat
      BY <1>4, <1>5, MulNat
    <2>3. w * 0 = 0
      BY <1>4
    <2> QED
      BY <2>1, <2>2, <2>3
  <1>7. CounterRemembers'
    BY <1>4, <1>6 DEF CounterRemembers, windowVars
  <1>8. drawn' \in [1 .. MaxTime -> Nat] /\ \A u \in 1 .. MaxTime : drawn'[u] = 0
    BY DEF NothingDrawn
  <1> QED
    BY <1>3, <1>5, <1>7, <1>8 DEF CounterOk, windowVars

\* Windows that ended are not drawn from again.
LEMMA PastIsFixed ==
    ASSUME CounterOk, NEW n, drawn' = [drawn EXCEPT ![now] = @ + n] \/ drawn' = drawn,
           limits'.agentWithdrawWindow = limits.agentWithdrawWindow,
           NEW t \in 1 .. now, t < now \/ drawn' = drawn
    PROVE  DrawnInWindow(t)' = DrawnInWindow(t)
  <1> DEFINE T == (t - limits.agentWithdrawWindow + 1 .. t) \cap 1 .. MaxTime
  <1>1. ASSUME NEW u \in T PROVE drawn'[u] = drawn[u]
    <2>1. u # now \/ drawn' = drawn
      BY DEF CounterOk
    <2> QED
      BY <2>1 DEF CounterOk
  <1>2. [u \in T |-> drawn'[u]] = [u \in T |-> drawn[u]]
    BY <1>1
  <1> QED
    BY <1>2 DEF DrawnInWindow

\* The counter keeps up with every step, and so does the bound it stands for.
LEMMA WindowOkStep ==
    ASSUME IInv, IInv', WindowOk, Next, ObserveDraws
    PROVE  WindowOk'
  <1> DEFINE Kept == /\ limits'.agentWithdrawWindowCap = limits.agentWithdrawWindowCap
                     /\ limits'.agentWithdrawWindow = limits.agentWithdrawWindow
  <1>0. CounterOk /\ BurstWithinTwiceCap /\ now \in Nat /\ now \in 1 .. MaxTime
    BY DEF WindowOk, CounterOk, IInv, TypeOK
  <1>1. CASE ~Kept
    <2>1. drawn' = NothingDrawn /\ limits' # limits
      BY <1>1 DEF ObserveDraws
    <2>2. UNCHANGED <<deployedAssets, navVars, windowVars, now>>
      BY <2>1, LimitsStep
    <2>3. CounterOk' /\ \A t \in 1 .. now : DrawnInWindow(t)' = 0
      BY <1>0, <2>1, <2>2, CounterRestarts
    <2>4. PICK cap : cap = limits'.agentWithdrawWindowCap /\ cap \in Nat
      <3>1. limits' \in LimitChoices
        BY DEF IInv, TypeOK
      <3> QED
        BY <3>1, LimitsNat
    <2>5. 0 <= 2 * cap
      BY <2>4
    <2>6. BurstWithinTwiceCap'
      BY <2>2, <2>3, <2>4, <2>5 DEF BurstWithinTwiceCap
    <2> QED
      BY <2>3, <2>6 DEF WindowOk
  <1>2. CASE Kept
    <2>1. drawn' = [drawn EXCEPT ![now] = @ + Drawn]
      BY <1>2 DEF ObserveDraws
    <2>2. CounterOk' /\ (now' = now \/ (now' = now + 1 /\ drawn' = drawn))
      <3>1. ASSUME NEW a \in Amounts, AgentWithdraw(a)
            PROVE  CounterOk' /\ (now' = now \/ (now' = now + 1 /\ drawn' = drawn))
        BY <1>0, <3>1, CounterAtDraw
      <3>2. ASSUME Drawn = 0, UNCHANGED windowVars,
                   now' = now \/ (now < MaxTime /\ now' = now + 1)
            PROVE  CounterOk' /\ (now' = now \/ (now' = now + 1 /\ drawn' = drawn))
        <4>1. drawn[now] + 0 = drawn[now]
          BY <1>0 DEF CounterOk
        <4>2. drawn' = drawn
          BY <1>0, <2>1, <3>2, <4>1 DEF CounterOk
        <4> QED
          BY <1>0, <1>2, <3>2, <4>2, CounterOtherwise
      <3>3. CASE UNCHANGED <<deployedAssets, navVars, windowVars>>
        <4>1. Drawn = 0
          <5>1. deployedAssets' = deployedAssets /\ deployedAssets \in Nat
            BY <3>3 DEF IInv, TypeOK
          <5> QED
            BY <5>1 DEF Drawn
        <4> QED
          BY <3>2, <3>3, <4>1, LimitsStep
      <3>4. ASSUME NEW a \in Amounts, AgentReturn(a)
            PROVE  CounterOk' /\ (now' = now \/ (now' = now + 1 /\ drawn' = drawn))
        <4>1. idle' = idle + a /\ now' = now /\ UNCHANGED windowVars
          BY <3>4 DEF AgentReturn
        <4>2. Drawn = 0
          <5>1. idle \in Nat /\ a \in Nat
            BY VaultAssumption DEF IInv, TypeOK
          <5> QED
            BY <4>1, <5>1 DEF Drawn
        <4> QED
          BY <3>2, <4>1, <4>2
      <3>5. CASE Reported
        <4>1. idle' = idle /\ now' = now /\ UNCHANGED windowVars /\ idle \in Nat
          BY <3>5 DEF Reported, ReportNav, IInv, TypeOK
        <4>2. Drawn = 0
          BY <4>1 DEF Drawn
        <4> QED
          BY <3>2, <4>1, <4>2
      <3> QED
        BY <3>1, <3>3, <3>4, <3>5, PositionStep
    <2>3. BurstNow'
      BY <2>2, WindowNow, PTL
    <2>4. ASSUME NEW t \in 1 .. now, t # now'
          PROVE  DrawnInWindow(t)' <= 2 * limits'.agentWithdrawWindowCap
      <3>1. t < now \/ drawn' = drawn
        BY <1>0, <2>2, <2>4
      <3>2. DrawnInWindow(t)' = DrawnInWindow(t)
        BY <1>0, <1>2, <2>1, <3>1, PastIsFixed
      <3> QED
        BY <1>0, <1>2, <3>2 DEF BurstWithinTwiceCap
    <2>5. \A t \in 1 .. now' : t \in 1 .. now \/ t = now'
      BY <1>0, <2>2
    <2>6. BurstWithinTwiceCap'
      BY <2>3, <2>4, <2>5 DEF BurstWithinTwiceCap, BurstNow
    <2> QED
      BY <2>2, <2>6 DEF WindowOk
  <1> QED
    BY <1>1, <1>2

-----------------------------------------------------------------------------
\* The theorems.

\* The histories begin empty.
LEMMA HInitInv == HInit => HInv
  <1> SUFFICES ASSUME HInit PROVE HInv
    OBVIOUS
  <1>1. IInv
    BY InitInv DEF HInit
  <1>2. QueueOk
    BY DEF HInit, Init, NoRequest, QueueOk
  <1>3. /\ epochProfit = 0 /\ epochOut = 0 /\ anchorSpent = FALSE
        /\ epochBps = limits.maxNavEpochDeviationBps /\ epochBps \in Nat
        /\ deployedAssets = 0 /\ navEpochAnchor = 0
    BY <1>1, LimitsInForce DEF HInit, Init
  <1>4. EpochProfitBounded
    <2>1. (0 * epochBps) \div BPS = 0
      BY <1>3, UnitsPositive
    <2>2. 0 \in -0 .. 0
      OBVIOUS
    <2> QED
      BY <1>3, <2>1, <2>2 DEF EpochProfitBounded
  <1>5. EpochOk
    <2>1. GapIsReported
      BY <1>3 DEF GapIsReported
    <2>2. epochBps >= limits.maxNavEpochDeviationBps
      BY <1>3
    <2>3. epochProfit \in Int /\ epochOut \in Nat
      BY <1>3
    <2>4. epochBps \in Nat
      BY <1>3
    <2>5. anchorSpent \in BOOLEAN
      BY DEF HInit
    <2> QED
      BY <1>4, <2>1, <2>2, <2>3, <2>4, <2>5 DEF EpochOk
  <1>6. /\ now = 1 /\ agentWindowStartedAt = 1 /\ agentWithdrawnInWindow = 0
        /\ drawn = NothingDrawn
    BY DEF HInit, Init
  <1>7. drawn \in [1 .. MaxTime -> Nat] /\ \A u \in 1 .. MaxTime : drawn[u] = 0
    BY <1>6 DEF NothingDrawn
  <1>8. 1 \in 1 .. MaxTime
    BY VaultAssumption
  <1>9. CounterRemembers
    <2>1. DrawnSince(1) = 0
      BY <1>7, DrawnSinceNat
    <2>2. /\ limits.agentWithdrawWindow \in Nat /\ limits.agentWithdrawWindowCap \in Nat
      BY <1>1, LimitsInForce
    <2>3. \A s \in 1 .. 1 : s = 1
      OBVIOUS
    <2> QED
      BY <1>6, <2>1, <2>2, <2>3 DEF CounterRemembers
  <1>10. CounterOk
    BY <1>6, <1>7, <1>8, <1>9 DEF CounterOk
  <1>11. BurstWithinTwiceCap
    <2>1. BurstNow
      BY <1>1, <1>10, WindowNow
    <2>2. \A t \in 1 .. 1 : t = 1
      OBVIOUS
    <2> QED
      BY <1>6, <2>1, <2>2 DEF BurstWithinTwiceCap, BurstNow
  <1> QED
    BY <1>1, <1>2, <1>5, <1>10, <1>11 DEF HInv, WindowOk

\* Each history keeps up with each step.
LEMMA HNextInv == HInv /\ [HNext]_<<vars, historyVars>> => HInv'
  <1> SUFFICES ASSUME HInv, [HNext]_<<vars, historyVars>> PROVE HInv'
    OBVIOUS
  <1>1. CASE HNext
    <2>1. Next /\ ObserveQueue /\ ObserveDraws /\ ObserveEpoch
      BY <1>1 DEF HNext
    <2>2. IInv /\ QueueOk /\ EpochOk /\ WindowOk
      BY DEF HInv
    <2>3. IInv'
      BY <2>1, <2>2, NextInv
    <2>4. QueueOk'
      BY <2>1, <2>2, QueueOkStep
    <2>5. EpochOk'
      BY <2>1, <2>2, <2>3, EpochAtReport, EpochBetweenReports
    <2>6. WindowOk'
      BY <2>1, <2>2, <2>3, WindowOkStep
    <2> QED
      BY <2>3, <2>4, <2>5, <2>6 DEF HInv
  <1>2. CASE UNCHANGED <<vars, historyVars>>
    <2>1. UNCHANGED vars /\ UNCHANGED historyVars
      BY <1>2
    <2>2. IInv'
      BY <2>1, NextInv DEF HInv
    <2>3. QueueOk' /\ EpochOk'
      BY <2>1 DEF HInv, QueueOk, EpochOk, GapIsReported, EpochProfitBounded, vars, historyVars,
                  queueVars, navVars, adminVars
    <2>4. CounterOk'
      BY <2>1, CounterOtherwise DEF HInv, WindowOk, vars, historyVars, adminVars
    <2>5. BurstWithinTwiceCap'
      BY <2>1 DEF HInv, WindowOk, BurstWithinTwiceCap, DrawnInWindow, vars, historyVars, adminVars
    <2> QED
      BY <2>2, <2>3, <2>4, <2>5 DEF HInv, WindowOk
  <1> QED
    BY <1>1, <1>2

\* The strengthened invariant of the vault and its histories.
THEOREM HistoryInductive == HSpec => []HInv
  BY HInitInv, HNextInv, PTL DEF HSpec

(***************************************************************************)
(* Nobody leaves early: shares leave the queue at the earliest the floor   *)
(* after the newest of their bucket came, whoever tops the bucket up for   *)
(* its controller and whatever delays the administrator sets meanwhile.    *)
(***************************************************************************)
THEOREM NobodyLeavesEarly == HSpec => EveryShareWaited
  <1> DEFINE A == \A a \in Accounts :
                     redeemState'[a].pendingShares < redeemState[a].pendingShares =>
                         now >= arrivedAt[a] + MIN_REDEEM_DELAY
  <1>1. HInv /\ [HNext]_<<vars, historyVars>> => [A]_<<vars, historyVars>>
    <2> SUFFICES ASSUME HInv, HNext PROVE A
      OBVIOUS
    <2> QED
      BY LeavesRipe DEF HInv, HNext
  <1> QED
    BY <1>1, HistoryInductive, PTL DEF HSpec, EveryShareWaited

(***************************************************************************)
(* The epoch bound holds over any number of reports, draws, returns and    *)
(* changes of the limits: the anchor moves with the capital and with       *)
(* nothing else, so the gap to it is the profit of the whole epoch.        *)
(***************************************************************************)
THEOREM EpochsAreBounded == HSpec => []EpochProfitBounded
  <1>1. HInv => EpochProfitBounded
    BY DEF HInv, EpochOk
  <1> QED
    BY <1>1, HistoryInductive, PTL

(***************************************************************************)
(* The leaky bucket lets through at most twice its cap in any interval of  *)
(* one window, whatever pattern of draws the agent chooses.                *)
(***************************************************************************)
THEOREM BurstsAreBounded == HSpec => []BurstWithinTwiceCap
  <1>1. HInv => BurstWithinTwiceCap
    BY DEF HInv, WindowOk
  <1> QED
    BY <1>1, HistoryInductive, PTL
=============================================================================
