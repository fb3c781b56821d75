---------------------------- MODULE AgentProofs -----------------------------
(***************************************************************************)
(* Theorems about Agent, for any holders, markets, limits, costs, shocks   *)
(* and faults.                                                             *)
(*                                                                         *)
(* The inductive invariant AInv is that the books of the contract and of   *)
(* the agent have their types (AgentTypeOK), that the adapter's call is    *)
(* sound (Venue's CallInv, which does not need the margin to stay put),    *)
(* that what the tick is about to execute is a decision the policy can     *)
(* make (TickOk), and that the vault still holds what such a decision was  *)
(* to leave for the queue (OwedKept).  The policy's own guarantees, which  *)
(* hold of every snapshot, are proved first.                               *)
(***************************************************************************)
EXTENDS Agent, VenueProofs

-----------------------------------------------------------------------------
\* Sums and rankings.

\* The policy's sums are totals too.
LEMMA TotalOfIs ==
    ASSUME NEW S, IsFiniteSet(S), NEW f \in [S -> Nat], NEW D \in SUBSET S
    PROVE  /\ P!TotalOf(f, D) = Total([m \in D |-> f[m]])
           /\ P!TotalOf(f, D) \in Nat
  <1>1. P!TotalOf(f, D) = SumOver(f, D)
    BY DEF P!TotalOf, P!MapThenSumSet, P!MapThenFoldSet, SumOver, MapThenSumSet, MapThenFoldSet
  <1>2. SumOver(f, D) = Total([m \in D |-> f[m]])
    BY SumIsTotal
  <1>3. Total([m \in D |-> f[m]]) \in Nat
    <2>1. IsFiniteSet(D) /\ [m \in D |-> f[m]] \in [D -> Nat]
      BY FS_Subset
    <2> QED
      BY <2>1, TotalNat
  <1> QED
    BY <1>1, <1>2, <1>3

\* More of the entries is no less in total.
LEMMA TotalOfGrows ==
    ASSUME NEW S, IsFiniteSet(S), NEW f \in [S -> Nat], NEW g \in [S -> Nat],
           NEW D \in SUBSET S, NEW E \in SUBSET S, \A x \in D : f[x] > 0 => x \in E /\ f[x] <= g[x]
    PROVE  P!TotalOf(f, D) <= P!TotalOf(g, E)
  <1> DEFINE d == [m \in D |-> f[m]]
             e == [m \in E |-> g[m]]
  <1>1. IsFiniteSet(D) /\ IsFiniteSet(E)
    BY FS_Subset
  <1>2. d \in [D -> Nat] /\ e \in [E -> Nat] /\ \A x \in D : d[x] > 0 => x \in E /\ d[x] <= e[x]
    OBVIOUS
  <1>3. P!TotalOf(f, D) = Total(d) /\ P!TotalOf(g, E) = Total(e)
    BY TotalOfIs
  <1> HIDE DEF d, e
  <1>4. Total(d) <= Total(e)
    BY <1>1, <1>2, TotalLe
  <1> QED
    BY <1>3, <1>4

\* Two parts of the entries add up to both.
LEMMA TotalOfSplits ==
    ASSUME NEW S, IsFiniteSet(S), NEW f \in [S -> Nat],
           NEW D \in SUBSET S, NEW E \in SUBSET S, D \cap E = {}, D \cup E = S
    PROVE  P!TotalOf(f, D) + P!TotalOf(f, E) = P!TotalOf(f, S)
  <1> DEFINE d == [m \in D |-> f[m]]
             e == [m \in E |-> f[m]]
  <1>1. IsFiniteSet(D) /\ IsFiniteSet(E) /\ d \in [D -> Nat] /\ e \in [E -> Nat]
    BY FS_Subset
  <1>2. P!TotalOf(f, D) = Total(d) /\ P!TotalOf(f, E) = Total(e) /\ P!TotalOf(f, S) = Total(f)
    <2>1. f = [m \in S |-> f[m]]
      OBVIOUS
    <2> QED
      BY <2>1, TotalOfIs
  <1>3. Units(f) = Units(d) \cup Units(e) /\ Units(d) \cap Units(e) = {}
    BY DEF Units
  <1> HIDE DEF d, e
  <1>4. IsFiniteSet(Units(d)) /\ IsFiniteSet(Units(e))
    BY <1>1, UnitsFinite
  <1>5. Cardinality(Units(f)) = Cardinality(Units(d)) + Cardinality(Units(e))
    BY <1>3, <1>4, DisjointUnion
  <1> QED
    BY <1>2, <1>5 DEF Total

\* R puts the members of S one behind the other.
Ranks(S, R) ==
    /\ \A a \in S : <<a, a>> \notin R
    /\ \A a, b \in S : a # b => <<a, b>> \in R \/ <<b, a>> \in R
    /\ \A a, b, c \in S : <<a, b>> \in R /\ <<b, c>> \in R => <<a, c>> \in R

\* Every place in such an order is somebody's.
LEMMA RankedAll ==
    ASSUME NEW S, IsFiniteSet(S), NEW R, Ranks(S, R)
    PROVE  \A i \in 1 .. Cardinality(S) :
              \E x \in S : Cardinality({y \in S : <<y, x>> \in R}) = i - 1
  <1> DEFINE Ahead(x) == {y \in S : <<y, x>> \in R}
             n == Cardinality(S)
             Places0 == 0 .. n - 1
             rank == [x \in S |-> Cardinality(Ahead(x))]
  <1>1. n \in Nat
    BY FS_CardinalityType
  <1>2. ASSUME NEW x \in S
        PROVE  IsFiniteSet(Ahead(x)) /\ Cardinality(Ahead(x)) \in Nat /\ Cardinality(Ahead(x)) < n
    <2>1. Ahead(x) \in SUBSET S /\ x \notin Ahead(x)
      BY DEF Ranks
    <2> HIDE DEF Ahead
    <2>2. IsFiniteSet(Ahead(x)) /\ Cardinality(Ahead(x)) <= n /\ Cardinality(Ahead(x)) # n
      BY <2>1, FS_Subset
    <2> QED
      BY <1>1, <2>2, FS_CardinalityType
  <1>3. rank \in [S -> Places0]
    <2> HIDE DEF Ahead
    <2> QED
      BY <1>1, <1>2
  <1>4. ASSUME NEW a \in S, NEW b \in S, <<a, b>> \in R PROVE rank[a] < rank[b]
    <2>1. Ahead(a) \in SUBSET Ahead(b) /\ a \in Ahead(b) /\ a \notin Ahead(a)
      BY <1>4 DEF Ranks
    <2> HIDE DEF Ahead
    <2>2. Cardinality(Ahead(a)) <= Cardinality(Ahead(b)) /\ Cardinality(Ahead(a)) # Cardinality(Ahead(b))
      BY <1>2, <2>1, FS_Subset
    <2> QED
      BY <1>2, <2>2
  <1>5. rank \in Injection(S, Places0)
    <2>1. ASSUME NEW a \in S, NEW b \in S, a # b PROVE rank[a] # rank[b]
      <3>1. rank[a] \in Int /\ rank[b] \in Int
        <4> HIDE DEF rank
        <4> QED
          BY <1>3
      <3>2. <<a, b>> \in R \/ <<b, a>> \in R
        BY <2>1 DEF Ranks
      <3> HIDE DEF rank
      <3> QED
        BY <1>4, <3>1, <3>2
    <2> HIDE DEF rank, Places0
    <2> QED
      BY <1>3, <2>1 DEF Injection, IsInjective
  <1>6. IsFiniteSet(Places0) /\ Cardinality(Places0) = n
    <2>1. PICK k \in Nat : k = n
      BY <1>1
    <2>2. k - 1 \in Int
      OBVIOUS
    <2>3. IsFiniteSet(0 .. k - 1) /\ Cardinality(0 .. k - 1) = k
      BY <2>2, FS_Interval
    <2> QED
      BY <2>1, <2>3
  <1>7. rank \in Surjection(S, Places0)
    <2> HIDE DEF rank, Places0
    <2> QED
      BY <1>5, <1>6, FS_Injection
  <1> SUFFICES ASSUME NEW i \in 1 .. n PROVE \E x \in S : Cardinality(Ahead(x)) = i - 1
    OBVIOUS
  <1>8. i - 1 \in Places0
    BY <1>1
  <1>9. \E x \in S : rank[x] = i - 1
    <2> HIDE DEF rank, Places0
    <2> QED
      BY <1>7, <1>8 DEF Surjection
  <1> QED
    BY <1>9

\* A function from the first places is a sequence.
LEMMA ListIs ==
    ASSUME NEW S, NEW n \in Nat, NEW f \in [1 .. n -> S]
    PROVE  /\ f \in Seq(S) /\ Len(f) = n /\ DOMAIN f = 1 .. n
           /\ n # 0 => f[1] \in S
  OBVIOUS

\* The policy's rankings list the markets they rank.
LEMMA RankedIs ==
    ASSUME NEW S \in SUBSET Markets, NEW f \in [Markets -> Int], NEW g \in [Markets -> Int],
           NEW seq, seq = P!Ranked(S, f, g)
    PROVE  seq \in Seq(S) /\ (S # {} => seq[1] \in S)
  <1> DEFINE R == {p \in S \X S : \/ f[p[1]] > f[p[2]]
                                  \/ f[p[1]] = f[p[2]] /\ g[p[1]] > g[p[2]]
                                  \/ /\ f[p[1]] = f[p[2]] /\ g[p[1]] = g[p[2]]
                                     /\ Place(p[1]) < Place(p[2])}
             before(a, b) == \/ f[a] > f[b]
                             \/ f[a] = f[b] /\ g[a] > g[b]
                             \/ f[a] = f[b] /\ g[a] = g[b] /\ Place(a) < Place(b)
             n == Cardinality(S)
             at(i) == CHOOSE x \in S : Cardinality({y \in S : before(y, x)}) = i - 1
  <1>1. IsFiniteSet(S) /\ n \in Nat /\ (S # {} => n # 0)
    BY MarketsFinite, FS_Subset, FS_CardinalityType, FS_EmptySet
  <1>2. seq = [i \in 1 .. n |-> at(i)]
    BY DEF P!Ranked, P!Ordered, P!Cardinality, Cardinality, Place
  <1>3. Ranks(S, R)
    <2>1. \A a, b \in S : <<a, b>> \in R <=> before(a, b)
      OBVIOUS
    <2>2. \A a \in S : Place(a) \in Nat /\ f[a] \in Int /\ g[a] \in Int
      BY PlaceIs
    <2>3. \A a, b \in S : a # b => Place(a) # Place(b)
      BY PlaceIs
    <2> HIDE DEF R
    <2> QED
      BY <2>1, <2>2, <2>3 DEF Ranks
  <1>4. \A x \in S : {y \in S : <<y, x>> \in R} = {y \in S : before(y, x)}
    OBVIOUS
  <1> HIDE DEF R, before
  <1>5. ASSUME NEW i \in 1 .. n PROVE at(i) \in S
    <2>1. PICK x \in S : Cardinality({y \in S : <<y, x>> \in R}) = i - 1
      BY <1>1, <1>3, RankedAll
    <2>2. Cardinality({y \in S : before(y, x)}) = i - 1
      BY <1>4, <2>1
    <2> QED
      BY <2>2
  <1> HIDE DEF at, n
  <1>6. seq \in [1 .. n -> S]
    BY <1>2, <1>5
  <1> QED
    BY <1>1, <1>6, ListIs

-----------------------------------------------------------------------------
\* The policy: whatever the snapshot, what it permits can be carried out and
\* leaves the queue its due.

MarketType ==
    [targetWeight : Nat, spotValue : Nat, spotUnits : Nat, perpUnits : Nat,
     spotBuyable : BOOLEAN, spotSellable : BOOLEAN, mark : Nat, lot : Nat, minOrder : Nat,
     spotGas : Nat, impact : Nat, funding : Int]

SnapshotType ==
    [freeAssets : Nat, totalAssets : Nat, deployedAssets : Nat, idleOnBase : Nat,
     unallocatedMargin : Nat, perpNotional : Nat, perpEquity : Int, withdrawalFee : Nat,
     markets : [Markets -> MarketType], ripe : Nat, pending : Nat, urgent : BOOLEAN,
     withdrawWindowRemaining : Nat, closeRequested : BOOLEAN]

DecisionType ==
    [kind : {"HOLD", "CLOSE_ALL", "UNWIND", "TOP_UP_MARGIN", "REBALANCE", "DEPLOY"},
     amount : Nat, market : Markets \cup {"none"}, forced : BOOLEAN,
     fundedFrom : {"none", "AGENT", "VAULT"}, spotNotional : Nat, perpMargin : Nat]

\* What a decision must be for the adapter to carry it out.
Sound(d) ==
    /\ d \in DecisionType
    /\ d.kind \in {"DEPLOY", "REBALANCE"} => d.market \in Markets
    /\ d.kind = "DEPLOY" => d.perpMargin <= d.amount
    /\ FromVault(d) => d.kind \in {"DEPLOY", "TOP_UP_MARGIN"}

\* What the vault may give up: something, but nothing that the queue is owed, and
\* no more than the contract lets an agent hold.
Drawable(s, amount) ==
    /\ amount > 0
    /\ amount + P!Committed(s) <= s.freeAssets
    /\ s.deployedAssets + amount <= (s.totalAssets * MaxDeployed) \div BPS

\* Sound decisions that draw no more than that.
Affordable(s) == {d \in DecisionType : Sound(d) /\ (FromVault(d) => Drawable(s, d.amount))}

LEMMA Configured ==
    /\ P!Markets = Markets
    /\ BPS \in Nat \ {0} /\ Leverage \in Nat \ {0} /\ P!SizingLeverageBps = Leverage
    /\ {PERCENT, MaxDeployed} \subseteq Nat \ {0}
    /\ {MIN_TOP_UP_USDC, MIN_DEPLOY_USDC, UNWIND_BUFFER_BPS, CLOSE_DUST_USDC,
        REBALANCE_DRIFT_BPS, BASE_TX_GAS_USDC, BRIDGE_CROSSING_USDC,
        ACTION_PAYOFF_MULTIPLE, MAX_BREAKEVEN_HOURS, TAKER} \subseteq Nat
    /\ {Delay, UrgentAge, ReportAge, StaleAge, MaxDeviation, WindowCap, COOLDOWN_MAX,
        Chances} \subseteq Nat
    /\ COOLDOWN_BASE \in Nat /\ Weight \in [Markets -> Nat]
  <1>1. P!PolicyAssumption
    BY AgentAssumption
  <1>2. P!Markets = Markets
    BY DEF P!Markets, Markets, P!Range, Range
  <1>3. /\ {BPS, PERCENT, TargetLeverage, MaxLeverage, MaxDeployed, MIN_UNWIND_USDC}
              \subseteq Nat \ {0}
        /\ {MIN_TOP_UP_USDC, MIN_DEPLOY_USDC, UNWIND_BUFFER_BPS, CLOSE_DUST_USDC,
            REBALANCE_DRIFT_BPS, BASE_TX_GAS_USDC, BRIDGE_CROSSING_USDC,
            ACTION_PAYOFF_MULTIPLE, MAX_BREAKEVEN_HOURS, TAKER} \subseteq Nat
    BY <1>1 DEF P!PolicyAssumption
  <1>4. /\ {Delay, UrgentAge, ReportAge, StaleAge, MaxDeviation, WindowCap, COOLDOWN_MAX,
            Chances} \subseteq Nat
        /\ COOLDOWN_BASE \in Nat \ {0, 1} /\ Leverage = P!SizingLeverageBps
    BY AgentAssumption
  <1> QED
    BY <1>2, <1>3, <1>4, VenueAssumption

\* What the policy deploys is free, not promised to the queue, and below the cap.
LEMMA DeployableIs ==
    ASSUME NEW s \in SnapshotType
    PROVE  /\ P!Committed(s) \in Nat
           /\ P!DeployableAmount(s) \in Nat
           /\ \A n \in Nat : 0 < n /\ n <= P!DeployableAmount(s) => Drawable(s, n)
  <1>1. PICK cap \in Nat : cap = (s.totalAssets * MaxDeployed) \div BPS
    <2>1. s.totalAssets * MaxDeployed \in Nat
      BY Configured, Products DEF SnapshotType
    <2> QED
      BY <2>1, Configured, Quotient
  <1>2. P!DeployableAmount(s)
           = P!Least(P!Least(P!Above(cap, s.deployedAssets), P!Above(s.freeAssets, s.ripe + s.pending)),
                     s.withdrawWindowRemaining)
    BY <1>1 DEF P!DeployableAmount, P!Committed
  <1>3. /\ s.deployedAssets \in Nat /\ s.freeAssets \in Nat /\ s.ripe \in Nat /\ s.pending \in Nat
        /\ s.withdrawWindowRemaining \in Nat /\ P!Committed(s) = s.ripe + s.pending
    BY DEF SnapshotType, P!Committed
  <1>4. /\ P!DeployableAmount(s) \in Nat
        /\ P!DeployableAmount(s) > 0 =>
              /\ P!DeployableAmount(s) + P!Committed(s) <= s.freeAssets
              /\ s.deployedAssets + P!DeployableAmount(s) <= cap
    BY <1>2, <1>3 DEF P!Least, P!Above
  <1> QED
    BY <1>1, <1>3, <1>4 DEF Drawable

\* The agent's idle USDC it may resume from is a part of it.
LEMMA ResumableIs ==
    ASSUME NEW s \in SnapshotType
    PROVE  P!ResumableAmount(s) \in Nat
  BY DEF P!ResumableAmount, SnapshotType

\* Splitting a deployment loses nothing, and the spot leg is what the margin carries.
LEMMA SplitIs ==
    ASSUME NEW total \in Nat, NEW legs, legs = P!SplitDeployment(total)
    PROVE  /\ legs.spotNotional \in Nat /\ legs.perpMargin \in Nat
           /\ legs.spotNotional + legs.perpMargin = total
           /\ \A n \in Nat : n <= legs.spotNotional
                  => P!DeploymentFor(n) \in Nat /\ P!DeploymentFor(n) <= total
  <1>1. Leverage \in Nat \ {0} /\ Leverage + BPS \in Nat \ {0} /\ Leverage <= Leverage + BPS
        /\ P!SizingLeverageBps = Leverage
    BY Configured
  <1>2. total * Leverage \in Nat /\ Leverage * total \in Nat /\ total * (Leverage + BPS) \in Nat
    BY <1>1, Products
  <1>3. PICK spot0 \in Nat : spot0 = (total * Leverage) \div (Leverage + BPS)
    BY <1>1, <1>2, Quotient
  <1>4. spot0 * (Leverage + BPS) <= total * Leverage
    BY <1>1, <1>2, <1>3, Quotient
  <1>5. spot0 <= total
    <2>1. total * Leverage <= total * (Leverage + BPS)
      <3>1. total * (Leverage + BPS) = total * Leverage + total * BPS /\ total * BPS \in Nat
        BY Configured, Products
      <3> QED
        BY <1>2, <3>1
    <2>2. spot0 * (Leverage + BPS) <= total * (Leverage + BPS)
      <3>1. spot0 * (Leverage + BPS) \in Nat
        BY <1>1, Products
      <3> QED
        BY <1>2, <1>4, <2>1, <3>1
    <2> QED
      BY <1>1, <2>2, ProductsCancel
  <1>6. legs = [spotNotional |-> spot0, perpMargin |-> total - spot0]
    BY <1>1, <1>3 DEF P!SplitDeployment
  <1>7. ASSUME NEW n \in Nat, n <= spot0
        PROVE  P!DeploymentFor(n) \in Nat /\ P!DeploymentFor(n) <= total
    <2>1. P!DeploymentFor(n) = CeilDiv(n * (Leverage + BPS), Leverage)
      BY <1>1 DEF P!DeploymentFor, CeilDiv
    <2>2. n * (Leverage + BPS) \in Nat /\ n * (Leverage + BPS) <= spot0 * (Leverage + BPS)
          /\ spot0 * (Leverage + BPS) \in Nat
      BY <1>1, <1>7, Products
    <2>3. n * (Leverage + BPS) <= total * Leverage
      BY <1>2, <1>4, <2>2
    <2> QED
      BY <1>1, <2>1, <2>2, <2>3, CeilCovers
  <1> QED
    BY <1>3, <1>5, <1>6, <1>7

\* A decision that moves no money of the vault.
LEMMA HoldsAre ==
    ASSUME NEW s \in SnapshotType
    PROVE  /\ P!Hold \in Affordable(s) /\ P!ForcedHold \in Affordable(s)
           /\ P!CloseAll \in Affordable(s)
           /\ \A amount \in Nat, forced \in BOOLEAN : P!Unwind(amount, forced) \in Affordable(s)
           /\ \A m \in Markets :
                 [P!Decision EXCEPT !.kind = "REBALANCE", !.market = m] \in Affordable(s)
  <1> DEFINE D == P!Decision
  <1>1. /\ D \in DecisionType /\ D.kind = "HOLD" /\ D.fundedFrom = "none"
        /\ D.market = "none" /\ D.forced = FALSE
    BY DEF P!Decision, DecisionType
  <1>2. P!Hold = D /\ P!ForcedHold = [D EXCEPT !.forced = TRUE]
        /\ P!CloseAll = [D EXCEPT !.kind = "CLOSE_ALL", !.forced = TRUE]
        /\ \A a, f : P!Unwind(a, f) = [D EXCEPT !.kind = "UNWIND", !.amount = a, !.forced = f]
    BY DEF P!Hold, P!ForcedHold, P!CloseAll, P!Unwind
  <1> HIDE DEF D
  <1>3. D \in Affordable(s)
    BY <1>1 DEF Affordable, Sound, FromVault
  <1>4. [D EXCEPT !.forced = TRUE] \in Affordable(s)
    BY <1>1 DEF Affordable, Sound, FromVault, DecisionType
  <1>5. [D EXCEPT !.kind = "CLOSE_ALL", !.forced = TRUE] \in Affordable(s)
    BY <1>1 DEF Affordable, Sound, FromVault, DecisionType
  <1>6. ASSUME NEW a \in Nat, NEW f \in BOOLEAN
        PROVE  [D EXCEPT !.kind = "UNWIND", !.amount = a, !.forced = f] \in Affordable(s)
    BY <1>1 DEF Affordable, Sound, FromVault, DecisionType
  <1>7. ASSUME NEW m \in Markets
        PROVE  [D EXCEPT !.kind = "REBALANCE", !.market = m] \in Affordable(s)
    BY <1>1 DEF Affordable, Sound, FromVault, DecisionType
  <1> QED
    BY <1>2, <1>3, <1>4, <1>5, <1>6, <1>7 DEF D

\* An offer is a list of at most one.
LEMMA OfferIs ==
    ASSUME NEW A, NEW d, NEW c \in BOOLEAN, c => d \in A
    PROVE  P!Offer(c, d) \in Seq(A)
  BY DEF P!Offer

LEMMA OneOf ==
    ASSUME NEW A, NEW d \in A
    PROVE  <<d>> \in Seq(A) /\ <<>> \in Seq(A)
  OBVIOUS

\* What can be sold is worth a natural.
LEMMA SellableIsNat ==
    ASSUME NEW s \in SnapshotType
    PROVE  /\ P!SpotValues(s) \in [Markets -> Nat]
           /\ \A D \in SUBSET Markets : P!TotalOf(P!SpotValues(s), D) \in Nat
           /\ P!SellableValue(s) \in Nat /\ P!Reachable(s) \in Nat
           /\ P!Sellable(s) \in SUBSET Markets
  <1>1. P!SpotValues(s) \in [Markets -> Nat]
    BY Configured DEF P!SpotValues, SnapshotType, MarketType
  <1>2. P!Sellable(s) \in SUBSET Markets
    BY Configured DEF P!Sellable
  <1>3. ASSUME NEW D \in SUBSET Markets PROVE P!TotalOf(P!SpotValues(s), D) \in Nat
    BY <1>1, MarketsFinite, TotalOfIs
  <1>4. P!SellableValue(s) \in Nat
    BY <1>2, <1>3 DEF P!SellableValue
  <1>5. P!Reachable(s) \in Nat
    BY <1>4 DEF P!Reachable, P!Least, SnapshotType
  <1> QED
    BY <1>1, <1>2, <1>3, <1>4, <1>5

LEMMA WithBufferIs ==
    ASSUME NEW n \in Nat
    PROVE  P!WithBuffer(n) \in Nat
  <1>1. UNWIND_BUFFER_BPS \in Nat /\ BPS \in Nat \ {0}
    BY Configured
  <1>2. (n * UNWIND_BUFFER_BPS) \div BPS \in Nat
    BY <1>1, Products, Quotient
  <1> QED
    BY <1>2 DEF P!WithBuffer

\* policy.ts 554-584, 596-622: an unwind draws nothing from the vault.
LEMMA UnwindsAre ==
    ASSUME NEW s \in SnapshotType
    PROVE  /\ P!RedemptionUnwind(s) \in Seq(Affordable(s))
           /\ P!RetiredUnwind(s) \in Seq(Affordable(s))
  <1>1. P!RedemptionUnwind(s) \in Seq(Affordable(s))
    <2> DEFINE shortfall == P!Above(s.ripe, s.freeAssets)
               amount == P!Least(P!WithBuffer(shortfall), P!Reachable(s))
               c == shortfall > 0 /\ amount >= MIN_UNWIND_USDC
    <2>1. shortfall \in Nat /\ s.urgent \in BOOLEAN
      BY DEF P!Above, SnapshotType
    <2>2. amount \in Nat
      <3> HIDE DEF shortfall
      <3>1. P!WithBuffer(shortfall) \in Nat /\ P!Reachable(s) \in Nat
        BY <2>1, WithBufferIs, SellableIsNat
      <3> QED
        BY <3>1 DEF P!Least
    <2>3. P!Unwind(amount, s.urgent) \in Affordable(s)
      BY <2>1, <2>2, HoldsAre
    <2>4. P!RedemptionUnwind(s) = P!Offer(c, P!Unwind(amount, s.urgent))
      BY DEF P!RedemptionUnwind
    <2>5. c \in BOOLEAN
      OBVIOUS
    <2> HIDE DEF amount, shortfall, c
    <2> QED
      BY <2>3, <2>4, <2>5, OfferIs
  <1>2. P!RetiredUnwind(s) \in Seq(Affordable(s))
    <2> DEFINE amount == P!TotalOf(P!SpotValues(s), P!Retired(s))
               c == /\ P!Retired(s) # {}
                    /\ amount >= P!EconomicFloor("unwind", P!UnwindFrictions(s))
    <2>1. P!Retired(s) \in SUBSET Markets
      BY SellableIsNat DEF P!Retired
    <2>2. amount \in Nat
      BY <2>1, SellableIsNat
    <2>3. P!Unwind(amount, FALSE) \in Affordable(s)
      BY <2>2, HoldsAre
    <2>4. P!RetiredUnwind(s) = P!Offer(c, P!Unwind(amount, FALSE))
      BY DEF P!RetiredUnwind
    <2>5. c \in BOOLEAN
      OBVIOUS
    <2> HIDE DEF amount, c
    <2> QED
      BY <2>3, <2>4, <2>5, OfferIs
  <1> QED
    BY <1>1, <1>2

\* The floor of an unwind is a natural: the worst of finitely many markets prices it.
LEMMA UnwindFloorIs ==
    ASSUME NEW s \in SnapshotType
    PROVE  P!EconomicFloor("unwind", P!UnwindFrictions(s)) \in Nat
  <1> DEFINE S == P!Sellable(s)
             gas == [m \in S |-> s.markets[m].spotGas]
             T == {s.markets[m].spotGas : m \in S}
  <1>1. IsFiniteSet(S) /\ S \in SUBSET Markets
    BY SellableIsNat, MarketsFinite, FS_Subset
  <1>2. \A m \in S : s.markets[m].spotGas \in Nat
    BY <1>1 DEF SnapshotType, MarketType
  <1>3. gas \in Surjection(S, T) /\ T \in SUBSET Nat
    <2> HIDE DEF S
    <2> QED
      BY <1>2 DEF Surjection
  <1>4. IsFiniteSet({0} \cup T)
    <2> HIDE DEF gas, T, S
    <2>1. IsFiniteSet(T)
      BY <1>1, <1>3, FS_Surjection
    <2> QED
      BY <2>1, FS_Singleton, FS_Union
  <1>5. PICK worst \in Nat : worst = Max({0} \cup T)
    <2> HIDE DEF gas, T, S
    <2>1. {0} \cup T \in SUBSET Nat /\ {0} \cup T # {}
      BY <1>3
    <2>2. Max({0} \cup T) \in {0} \cup T
      BY <1>4, <2>1, GreatestIs
    <2> QED
      BY <2>1, <2>2
  <1>6. P!UnwindFrictions(s).spotGas = worst /\ P!UnwindFrictions(s).withdrawalFee = s.withdrawalFee
    BY <1>5 DEF P!UnwindFrictions, P!Max, Max
  <1>7. s.withdrawalFee \in Nat
    BY DEF SnapshotType
  <1> DEFINE fixed == P!FixedCost("unwind", P!UnwindFrictions(s))
  <1>8. fixed \in Nat
    <2>1. /\ P!Shape("unwind").baseTxs = 4 /\ P!Shape("unwind").withdrawals = 1
      BY DEF P!Shape
    <2>2. fixed = BASE_TX_GAS_USDC * 4 + worst + BRIDGE_CROSSING_USDC + s.withdrawalFee * 1
      BY <1>6, <2>1 DEF P!FixedCost
    <2>3. BASE_TX_GAS_USDC \in Nat /\ BRIDGE_CROSSING_USDC \in Nat
      BY Configured
    <2> HIDE DEF fixed
    <2> QED
      BY <1>7, <2>2, <2>3
  <1>9. P!Most(1, ACTION_PAYOFF_MULTIPLE) \in Nat
    BY Configured DEF P!Most
  <1>10. P!EconomicFloor("unwind", P!UnwindFrictions(s)) = fixed * P!Most(1, ACTION_PAYOFF_MULTIPLE)
    BY DEF P!EconomicFloor
  <1> HIDE DEF fixed
  <1> QED
    BY <1>8, <1>9, <1>10, Products

\* policy.ts 921-996: a de-leverage draws nothing from the vault.
LEMMA DeleverageIs ==
    ASSUME NEW s \in SnapshotType
    PROVE  P!Deleverage(s) \in Seq(Affordable(s))
  <1>1. P!Excess(s) \in Nat
    <2>1. PICK e \in Nat : e = P!Most(0, s.perpEquity)
      BY DEF SnapshotType, P!Most
    <2>2. PICK c \in Nat : c = (e * Leverage) \div BPS
      BY Configured, Products, Quotient
    <2>3. P!Excess(s) = P!Above(s.perpNotional, c)
      BY <2>1, <2>2, Configured DEF P!Excess
    <2> QED
      BY <2>3 DEF P!Above, SnapshotType
  <1>2. PICK floor \in Nat : floor = P!EconomicFloor("unwind", P!UnwindFrictions(s))
    BY UnwindFloorIs
  <1>3. PICK amount \in Nat :
            amount = P!Least(P!Most(P!WithBuffer(P!Excess(s)), floor), P!SellableValue(s))
    <2>1. P!WithBuffer(P!Excess(s)) \in Nat /\ P!SellableValue(s) \in Nat
      BY <1>1, WithBufferIs, SellableIsNat
    <2> QED
      BY <2>1 DEF P!Least, P!Most
  <1>4. P!Deleverage(s) \in {<<>>, <<P!ForcedHold>>, <<P!Unwind(amount, TRUE)>>}
    BY <1>2, <1>3 DEF P!Deleverage
  <1>5. P!ForcedHold \in Affordable(s) /\ P!Unwind(amount, TRUE) \in Affordable(s)
    BY HoldsAre
  <1>6. /\ <<>> \in Seq(Affordable(s)) /\ <<P!ForcedHold>> \in Seq(Affordable(s))
        /\ <<P!Unwind(amount, TRUE)>> \in Seq(Affordable(s))
    BY <1>5, OneOf
  <1> QED
    BY <1>4, <1>6

\* policy.ts 844-894: a top-up moves the whole of what is missing, from a
\* source that has it to spare.
LEMMA MarginTopUpIs ==
    ASSUME NEW s \in SnapshotType
    PROVE  P!MarginTopUp(s) \in Seq(Affordable(s))
  <1> DEFINE sources == P!TopUpSources(s)
             shortfall == P!RequiredMargin(s) - s.perpEquity
             enough == P!FirstOf(sources, LAMBDA x : x.available >= shortfall)
  <1>1. shortfall \in Int
    <2>1. s.perpNotional \in Nat /\ s.perpEquity \in Int
      BY DEF SnapshotType
    <2>2. P!RequiredMargin(s) \in Nat
      BY <2>1, Configured, Products, Quotient DEF P!RequiredMargin
    <2> QED
      BY <2>1, <2>2
  <1>2. /\ DOMAIN sources = 1 .. 2
        /\ sources[1].fundedFrom = "AGENT" /\ sources[1].available \in Nat
        /\ sources[2].fundedFrom = "VAULT" /\ sources[2].available = P!DeployableAmount(s)
    <2>1. s.idleOnBase \in Nat /\ P!ResumableAmount(s) \in Nat
      BY ResumableIs DEF SnapshotType
    <2> QED
      BY <2>1 DEF P!TopUpSources
  <1> SUFFICES ASSUME shortfall > 0, enough # <<>>
               PROVE  [P!Decision EXCEPT
                          !.kind = "TOP_UP_MARGIN", !.forced = P!Breached(s),
                          !.fundedFrom = enough[1].fundedFrom,
                          !.amount = P!Least(enough[1].available, P!Most(shortfall, MIN_TOP_UP_USDC))]
                       \in Affordable(s)
    BY <1>1 DEF P!MarginTopUp
  <1>3. PICK i \in 1 .. 2 : enough[1] = sources[i] /\ sources[i].available >= shortfall
    <2> DEFINE found == {i \in DOMAIN sources : sources[i].available >= shortfall}
    <2>1. found # {} /\ enough = <<sources[P!Min(found)]>>
      BY DEF P!FirstOf
    <2>2. P!Min(found) \in found
      <3>1. found \in SUBSET (1 .. 2)
        BY <1>2
      <3>2. \E x \in found : \A y \in found : x <= y
        <4> HIDE DEF found
        <4> QED
          BY <2>1, <3>1
      <3> HIDE DEF found
      <3> QED
        BY <3>2 DEF P!Min
    <2> HIDE DEF enough, sources
    <2> QED
      BY <1>2, <2>1, <2>2
  <1>4. P!Breached(s) \in BOOLEAN
    BY DEF P!Breached
  <1>5. PICK available \in Nat : available = enough[1].available
    <2>1. P!DeployableAmount(s) \in Nat
      BY DeployableIs
    <2> HIDE DEF enough, sources
    <2> QED
      BY <1>2, <1>3, <2>1
  <1>6. PICK amount \in Nat : /\ amount = P!Least(available, P!Most(shortfall, MIN_TOP_UP_USDC))
                              /\ amount > 0 /\ amount <= available
    <2>1. MIN_TOP_UP_USDC \in Nat
      BY Configured
    <2>2. available >= shortfall
      <3> HIDE DEF enough, sources
      <3> QED
        BY <1>3, <1>5
    <2> HIDE DEF shortfall, enough, sources
    <2> QED
      BY <1>1, <2>1, <2>2 DEF P!Least, P!Most
  <1>7. PICK from \in {"AGENT", "VAULT"} :
            /\ from = enough[1].fundedFrom
            /\ from = "VAULT" => available = P!DeployableAmount(s)
    <2> HIDE DEF enough, sources
    <2>1. i = 1 \/ i = 2
      OBVIOUS
    <2> QED
      BY <1>2, <1>3, <1>5, <2>1
  <1> DEFINE d == [P!Decision EXCEPT !.kind = "TOP_UP_MARGIN", !.forced = P!Breached(s),
                                     !.fundedFrom = from, !.amount = amount]
  <1>8. /\ d \in DecisionType /\ d.kind = "TOP_UP_MARGIN" /\ d.amount = amount /\ d.fundedFrom = from
    BY <1>4 DEF P!Decision, DecisionType
  <1>9. from = "VAULT" => Drawable(s, amount)
    BY <1>6, <1>7, DeployableIs
  <1>10. d \in Affordable(s)
    <2> HIDE DEF d
    <2> QED
      BY <1>8, <1>9 DEF Affordable, Sound, FromVault
  <1> HIDE DEF enough, sources, shortfall
  <1> QED
    BY <1>5, <1>6, <1>7, <1>10

LEMMA MandateCorrectionIs ==
    ASSUME NEW s \in SnapshotType
    PROVE  P!MandateCorrection(s) \in Seq(Affordable(s))
  <1>1. P!MandateCorrection(s) \in {<<>>, P!MarginTopUp(s), P!Deleverage(s)}
    BY DEF P!MandateCorrection
  <1>2. <<>> \in Seq(Affordable(s))
    OBVIOUS
  <1> QED
    BY <1>1, <1>2, MarginTopUpIs, DeleverageIs

\* policy.ts 659-699: one rebalance for each market that drifted.
LEMMA RebalancesAre ==
    ASSUME NEW s \in SnapshotType
    PROVE  P!Rebalances(s) \in Seq(Affordable(s))
  <1> DEFINE drifted == {m \in Markets : /\ P!DriftOf(s, m) >= REBALANCE_DRIFT_BPS
                                         /\ P!RebalanceIsPlaceable(s.markets[m])}
             drift   == [m \in Markets |-> P!DriftOf(s, m)]
             worst   == P!Ranked(drifted, drift, drift)
  <1>1. ASSUME NEW m \in Markets PROVE P!DriftOf(s, m) \in Int
    <2>1. PICK u \in Nat, v \in Nat : u = s.markets[m].spotUnits /\ v = s.markets[m].perpUnits
      BY DEF SnapshotType, MarketType
    <2>2. P!Distance(u, v) \in Nat /\ BPS \in Nat
      BY Configured DEF P!Distance
    <2>3. P!DriftOf(s, m) = IF u = 0 THEN IF v = 0 THEN 0 ELSE BPS
                            ELSE (P!Distance(u, v) * BPS) \div u
      BY <2>1 DEF P!DriftOf, P!Drift
    <2>4. u # 0 => (P!Distance(u, v) * BPS) \div u \in Nat
      BY <2>2, Products, Quotient
    <2> QED
      BY <2>2, <2>3, <2>4
  <1>2. drift \in [Markets -> Int] /\ drifted \in SUBSET Markets
    BY <1>1
  <1>3. worst \in Seq(drifted)
    <2> HIDE DEF drift, drifted
    <2> QED
      BY <1>2, RankedIs
  <1>4. P!Rebalances(s)
           = [i \in DOMAIN worst |-> [P!Decision EXCEPT !.kind = "REBALANCE", !.market = worst[i]]]
    BY Configured DEF P!Rebalances
  <1> HIDE DEF worst, drifted
  <1>5. \A i \in DOMAIN worst : worst[i] \in Markets
    BY <1>2, <1>3
  <1>6. \A i \in DOMAIN worst :
           [P!Decision EXCEPT !.kind = "REBALANCE", !.market = worst[i]] \in Affordable(s)
    BY <1>5, HoldsAre
  <1>7. Len(worst) \in Nat /\ DOMAIN worst = 1 .. Len(worst)
    BY <1>3
  <1>8. P!Rebalances(s) \in [1 .. Len(worst) -> Affordable(s)]
    BY <1>4, <1>6, <1>7
  <1> QED
    BY <1>7, <1>8, ListIs

\* The least of a set of naturals is one of them.
LEMMA LeastIs ==
    ASSUME NEW S \in SUBSET Nat, S # {}
    PROVE  P!Min(S) \in S
  <1>1. \E x \in S : \A y \in S : x <= y
    <2> SUFFICES ASSUME \A x \in S : \E y \in S : y < x PROVE FALSE
      OBVIOUS
    <2> DEFINE A == {n \in Nat : \A m \in Nat : m <= n => m \notin S}
    <2>1. 0 \in A
      OBVIOUS
    <2>2. ASSUME NEW n \in A PROVE n + 1 \in A
      OBVIOUS
    <2>3. A = Nat
      <3>1. A \subseteq Nat
        OBVIOUS
      <3> HIDE DEF A
      <3> QED
        BY <2>1, <2>2, <3>1, SetInduction
    <2>4. PICK x \in S : TRUE
      OBVIOUS
    <2>5. x \in A
      <3> HIDE DEF A
      <3> QED
        BY <2>3
    <2> QED
      BY <2>5
  <1> QED
    BY <1>1 DEF P!Min

\* What a deployment may be funded from.
SourceOk(s, source) ==
    /\ source.fundedFrom \in {"AGENT", "VAULT"}
    /\ source.legs.spotNotional \in Nat /\ source.legs.perpMargin \in Nat
    /\ source.fundedFrom = "VAULT" =>
          /\ P!DeployableAmount(s) > 0
          /\ source.legs = P!SplitDeployment(P!DeployableAmount(s))

LEMMA SourcesAre ==
    ASSUME NEW s \in SnapshotType
    PROVE  /\ \E n \in Nat : DOMAIN P!DeploymentSources(s) = 1 .. n
           /\ \A i \in DOMAIN P!DeploymentSources(s) : SourceOk(s, P!DeploymentSources(s)[i])
  <1> DEFINE idle == P!ResumableAmount(s)
             carriable == (P!SpareMargin(s) * Leverage) \div BPS
             spare == [fundedFrom |-> "AGENT",
                       legs |-> [spotNotional |-> P!Least(idle, carriable), perpMargin |-> 0]]
             own   == [fundedFrom |-> "AGENT", legs |-> P!SplitDeployment(idle)]
             drawn == [fundedFrom |-> "VAULT", legs |-> P!SplitDeployment(P!DeployableAmount(s))]
             A == {spare, own, drawn}
             Ok == {x \in A : SourceOk(s, x)}
             c1 == idle > 0 /\ P!SpareMargin(s) > 0
             c2 == idle > 0
             c3 == P!DeployableAmount(s) > 0
  <1>1. P!DeploymentSources(s) = P!Offer(c1, spare) \o P!Offer(c2, own) \o P!Offer(c3, drawn)
    BY Configured DEF P!DeploymentSources
  <1>2. idle \in Nat /\ P!DeployableAmount(s) \in Nat
    BY ResumableIs, DeployableIs
  <1>3. carriable \in Nat
    <2>1. P!RequiredMargin(s) \in Nat
      BY Configured, Products, Quotient DEF P!RequiredMargin, SnapshotType
    <2>2. P!SpareMargin(s) \in Nat
      BY <2>1 DEF P!SpareMargin, P!BufferMargin, P!Above, SnapshotType
    <2> QED
      BY <2>2, Configured, Products, Quotient
  <1>4. spare \in Ok
    BY <1>2, <1>3 DEF SourceOk, P!Least
  <1>5. own \in Ok
    <2> HIDE DEF idle
    <2> QED
      BY <1>2, SplitIs DEF SourceOk
  <1>6. c3 => drawn \in Ok
    BY <1>2, SplitIs DEF SourceOk
  <1>7. c1 \in BOOLEAN /\ c2 \in BOOLEAN /\ c3 \in BOOLEAN
    OBVIOUS
  <1> HIDE DEF spare, own, drawn, Ok, c1, c2, c3
  <1>8. /\ P!Offer(c1, spare) \in Seq(Ok) /\ P!Offer(c2, own) \in Seq(Ok)
        /\ P!Offer(c3, drawn) \in Seq(Ok)
    BY <1>4, <1>5, <1>6, <1>7, OfferIs
  <1>9. P!DeploymentSources(s) \in Seq(Ok)
    BY <1>1, <1>8
  <1>10. \A x \in Ok : SourceOk(s, x)
    BY DEF Ok
  <1> HIDE DEF A
  <1> QED
    BY <1>9, <1>10

\* policy.ts 1048-1207: a deployment is all of one market's, and within its source.
LEMMA DeploymentFromIs ==
    ASSUME NEW s \in SnapshotType, NEW source, SourceOk(s, source)
    PROVE  P!DeploymentFrom(s, source) \in Seq(Affordable(s))
  <1> DEFINE incoming == source.legs.spotNotional
             spend(m) == P!Least(P!Room(s, m, incoming), incoming)
             cost(m)  == P!TotalCost("deploy", spend(m), [impact |-> s.markets[m].impact,
                                                          spotGas |-> s.markets[m].spotGas,
                                                          withdrawalFee |-> 0])
             fit      == {m \in Markets : /\ s.markets[m].spotBuyable
                                          /\ s.markets[m].targetWeight > 0
                                          /\ spend(m) > 0 /\ spend(m) >= MIN_DEPLOY_USDC
                                          /\ P!PaysBack(cost(m), spend(m), s.markets[m].funding)}
             room     == [m \in Markets |-> P!Room(s, m, incoming)]
             weight   == [m \in Markets |-> s.markets[m].targetWeight]
             neediest == P!Ranked(fit, room, weight)
             legs     == IF source.legs.perpMargin = 0
                         THEN [spotNotional |-> spend(neediest[1]), perpMargin |-> 0]
                         ELSE P!SplitDeployment(P!DeploymentFor(spend(neediest[1])))
             d        == [P!Decision EXCEPT !.kind = "DEPLOY", !.market = neediest[1],
                                            !.amount = legs.spotNotional + legs.perpMargin,
                                            !.fundedFrom = source.fundedFrom,
                                            !.spotNotional = legs.spotNotional,
                                            !.perpMargin = legs.perpMargin]
  <1>1. P!DeploymentFrom(s, source) = IF incoming <= 0 \/ fit = {} THEN <<>> ELSE <<d>>
    BY Configured DEF P!DeploymentFrom
  <1>2. incoming \in Nat /\ source.legs.perpMargin \in Nat
    BY DEF SourceOk
  <1>3. ASSUME NEW m \in Markets PROVE P!Room(s, m, incoming) \in Nat
    <2>1. PICK total \in Nat : total = P!TotalOf(P!SpotValues(s), Markets)
      BY SellableIsNat
    <2>2. PICK w \in Nat, v \in Nat : w = s.markets[m].targetWeight /\ v = s.markets[m].spotValue
      BY DEF SnapshotType, MarketType
    <2>3. PICK share \in Nat : share = ((total + incoming) * w) \div BPS
      <3>1. total + incoming \in Nat
        BY <1>2
      <3> HIDE DEF incoming
      <3> QED
        BY <3>1, Configured, Products, Quotient
    <2>4. P!Room(s, m, incoming) = P!Above(share, v)
      BY <2>1, <2>2, <2>3, Configured DEF P!Room
    <2> QED
      BY <2>4 DEF P!Above
  <1>4. ASSUME NEW m \in Markets PROVE spend(m) \in Nat /\ spend(m) <= incoming
    <2> HIDE DEF incoming
    <2> QED
      BY <1>2, <1>3 DEF P!Least
  <1>5. room \in [Markets -> Int] /\ weight \in [Markets -> Int] /\ fit \in SUBSET Markets
    <2>1. \A m \in Markets : s.markets[m].targetWeight \in Nat
      BY DEF SnapshotType, MarketType
    <2> HIDE DEF spend, cost, incoming
    <2> QED
      BY <1>3, <2>1
  <1> SUFFICES ASSUME fit # {} PROVE d \in Affordable(s)
    <2> HIDE DEF d, fit, incoming
    <2> QED
      BY <1>1, OneOf
  <1> HIDE DEF fit, room, weight
  <1>6. neediest[1] \in Markets /\ spend(neediest[1]) > 0
    <2>1. neediest[1] \in fit
      BY <1>5, RankedIs
    <2>2. \A m \in fit : spend(m) > 0
      BY DEF fit
    <2> QED
      BY <1>5, <2>1, <2>2
  <1> HIDE DEF neediest
  <1>7. PICK m \in Markets, n \in Nat : m = neediest[1] /\ n = spend(m) /\ n <= incoming /\ n > 0
    BY <1>4, <1>6
  <1> HIDE DEF spend, incoming
  <1>8. PICK total \in Nat : total = P!DeploymentFor(n) /\ total > 0
    <2>1. P!DeploymentFor(n) = CeilDiv(n * (Leverage + BPS), Leverage)
      BY Configured DEF P!DeploymentFor, CeilDiv
    <2>2. Leverage + BPS \in Nat \ {0}
      BY Configured
    <2>3. n * (Leverage + BPS) \in Nat \ {0}
      BY <1>7, <2>2
    <2>4. /\ CeilDiv(n * (Leverage + BPS), Leverage) \in Nat
          /\ CeilDiv(n * (Leverage + BPS), Leverage) <= 0 <=> n * (Leverage + BPS) <= 0 * Leverage
      BY <2>3, Configured, CeilCovers
    <2>5. 0 * Leverage = 0
      BY Configured
    <2> QED
      BY <2>1, <2>3, <2>4, <2>5
  <1>9. PICK a \in Nat, b \in Nat : /\ legs.spotNotional = a /\ legs.perpMargin = b
                                    /\ \/ source.legs.perpMargin = 0 /\ a = n /\ b = 0
                                       \/ source.legs.perpMargin # 0 /\ a + b = total
    <2>1. CASE source.legs.perpMargin = 0
      BY <1>7, <2>1
    <2>2. CASE source.legs.perpMargin # 0
      <3>1. legs = P!SplitDeployment(total)
        BY <1>7, <1>8, <2>2
      <3> HIDE DEF legs
      <3> QED
        BY <2>2, <3>1, SplitIs
    <2> QED
      BY <2>1, <2>2
  <1>10. PICK from \in {"AGENT", "VAULT"} : from = source.fundedFrom
    BY DEF SourceOk
  <1> HIDE DEF legs
  <1>11. PICK t \in Nat : t = a + b
    OBVIOUS
  <1> DEFINE e == [kind |-> "DEPLOY", amount |-> t, market |-> m, forced |-> FALSE,
                   fundedFrom |-> from, spotNotional |-> a, perpMargin |-> b]
  <1>12. d = e /\ e \in DecisionType /\ e.kind = "DEPLOY" /\ e.market = m /\ e.amount = a + b
         /\ e.fundedFrom = from /\ e.perpMargin = b
    <2>1. d = [P!Decision EXCEPT !.kind = "DEPLOY", !.market = m, !.amount = t,
                                 !.fundedFrom = from, !.spotNotional = a, !.perpMargin = b]
      BY <1>7, <1>9, <1>10, <1>11
    <2> HIDE DEF d
    <2>2. d = e
      BY <2>1 DEF P!Decision
    <2>3. e \in DecisionType
      BY DEF DecisionType
    <2> QED
      BY <1>11, <2>2, <2>3
  <1>13. from = "VAULT" => Drawable(s, t)
    <2> SUFFICES ASSUME from = "VAULT" PROVE Drawable(s, t)
      OBVIOUS
    <2>1. PICK free \in Nat : /\ free = P!DeployableAmount(s) /\ free > 0
                              /\ source.legs = P!SplitDeployment(free)
      BY <1>10, DeployableIs DEF SourceOk
    <2>2. n <= source.legs.spotNotional
      BY <1>7 DEF incoming
    <2>3. total <= free /\ n <= free
      BY <1>2, <1>8, <2>1, <2>2, SplitIs
    <2>4. t <= free
      BY <1>9, <1>11, <2>3
    <2>5. t > 0
      BY <1>7, <1>8, <1>9, <1>11
    <2> QED
      BY <2>1, <2>4, <2>5, DeployableIs
  <1> HIDE DEF d, e
  <1> QED
    BY <1>11, <1>12, <1>13 DEF Affordable, Sound, FromVault

LEMMA NextDeploymentIs ==
    ASSUME NEW s \in SnapshotType
    PROVE  P!NextDeployment(s) \in Seq(Affordable(s))
  <1> DEFINE sources == P!DeploymentSources(s)
             from == [i \in DOMAIN sources |-> P!DeploymentFrom(s, sources[i])]
             found == {i \in DOMAIN from : from[i] # <<>>}
  <1>1. P!NextDeployment(s) = IF found = {} THEN <<>> ELSE from[P!Min(found)]
    <2> DEFINE able == P!FirstOf(from, LAMBDA d : d # <<>>)
    <2>1. P!NextDeployment(s) = IF able = <<>> THEN <<>> ELSE able[1]
      BY DEF P!NextDeployment
    <2>2. able = IF found = {} THEN <<>> ELSE <<from[P!Min(found)]>>
      BY DEF P!FirstOf
    <2> HIDE DEF able, found, from
    <2> QED
      BY <2>1, <2>2
  <1>2. \A i \in DOMAIN from : from[i] \in Seq(Affordable(s))
    BY SourcesAre, DeploymentFromIs
  <1>3. found \in SUBSET Nat /\ found \in SUBSET DOMAIN from
    BY SourcesAre
  <1>4. found # {} => P!Min(found) \in DOMAIN from
    <2> HIDE DEF found, from
    <2> QED
      BY <1>3, LeastIs
  <1>5. <<>> \in Seq(Affordable(s))
    OBVIOUS
  <1> HIDE DEF found, from
  <1> QED
    BY <1>1, <1>2, <1>4, <1>5

\* policy.ts 508-731: the list is never empty, and everything in it is affordable.
LEMMA PermittedAre ==
    ASSUME NEW s \in SnapshotType
    PROVE  P!PermittedActions(s) \in Seq(Affordable(s)) /\ P!PermittedActions(s) # <<>>
  <1> DEFINE owed       == P!RedemptionUnwind(s)
             drained    == IF owed = <<>> THEN P!RetiredUnwind(s) ELSE owed
             correction == P!MandateCorrection(s)
             open       == drained \o correction \o P!Rebalances(s) \o P!NextDeployment(s)
             last       == P!Offer("HOLD" \notin P!Kinds(open), P!Hold)
             close      == P!CloseOrder(s)
             A          == Affordable(s)
  <1>1. P!PermittedActions(s) = IF close # <<>> THEN close
                                ELSE IF owed # <<>> /\ owed[1].forced THEN owed
                                ELSE IF P!Outranks(correction) THEN correction
                                ELSE open \o last
    BY DEF P!PermittedActions
  <1>2. owed \in Seq(A) /\ drained \in Seq(A) /\ correction \in Seq(A)
    BY UnwindsAre, MandateCorrectionIs
  <1>3. close \in Seq(A)
    <2> DEFINE order0 == IF P!IsFlat(s) THEN P!ForcedHold ELSE P!CloseAll
    <2>1. close = P!Offer(s.closeRequested, order0) /\ s.closeRequested \in BOOLEAN
      BY DEF P!CloseOrder, SnapshotType
    <2>2. order0 \in A
      BY HoldsAre
    <2> HIDE DEF order0, close, A
    <2> QED
      BY <2>1, <2>2, OfferIs
  <1>4. open \in Seq(A)
    <2> HIDE DEF drained, correction, A
    <2>1. P!Rebalances(s) \in Seq(A) /\ P!NextDeployment(s) \in Seq(A)
      BY RebalancesAre, NextDeploymentIs DEF A
    <2> QED
      BY <1>2, <2>1
  <1>5. last \in Seq(A)
    BY HoldsAre, OfferIs
  <1>6. open \o last # <<>>
    <2>1. open = <<>> => last = <<P!Hold>>
      <3> HIDE DEF open
      <3> QED
        BY DEF P!Kinds, P!Offer
    <2> HIDE DEF open, last, A
    <2> QED
      BY <1>4, <1>5, <2>1
  <1>7. P!Outranks(correction) => correction # <<>>
    BY DEF P!Outranks
  <1> HIDE DEF close, owed, correction, open, last, A
  <1> QED
    BY <1>1, <1>2, <1>3, <1>4, <1>5, <1>6, <1>7 DEF A

\* Whoever picks, picks one of those.
LEMMA DecisionsAre ==
    ASSUME NEW s \in SnapshotType, NEW asked, NEW d \in P!Decisions(s, asked)
    PROVE  d \in Affordable(s)
  <1> DEFINE options == P!PermittedActions(s)
  <1>1. options \in Seq(Affordable(s)) /\ options # <<>>
    BY PermittedAre
  <1>2. d = options[1] \/ \E i \in DOMAIN options : d = options[i]
    BY DEF P!Decisions, P!Advice, P!Range
  <1> HIDE DEF options
  <1> QED
    BY <1>1, <1>2

-----------------------------------------------------------------------------
\* The inductive invariant.

\* Every share is with a holder or in the queue.
ContractOk ==
    /\ deployed \in Nat /\ supply \in Nat /\ shares \in [Users -> Nat]
    /\ queue \in [Users -> [shares : Nat, age : 0 .. UrgentAge]]
    /\ supply = P!TotalOf(shares, Users) + Queued(Users)

EntryType == [wait : 0 .. COOLDOWN_MAX, left : 0 .. COOLDOWN_MAX]
ClockOk   == navAge \in 0 .. StaleAge /\ cool \in [Keys -> EntryType]

TickType ==
    [step : {"sleep", "observe", "act", "execute", "call", "settle"}, decision : DecisionType,
     ripe : Seq([who : Users, shares : Nat])]

TickOk == tick \in TickType /\ (InTick("execute") => Sound(Chosen))
InCall == InTick("call") <=> call # Idle

\* The requests a tick that is over its reads can have seen.
Seen == {u \in Users : queue[u].age > 0}

\* What is about to leave the vault leaves the queue what it is owed.
OwedKept == InTick("execute") /\ FromVault(Chosen) => Chosen.amount + Queued(Seen) <= cash["vault"]

WorldOk == order \in BOOLEAN /\ outage \in SUBSET AllFaults

AInv == CallInv /\ ContractOk /\ ClockOk /\ TickOk /\ InCall /\ OwedKept /\ WorldOk

-----------------------------------------------------------------------------
\* What the tick reads.

LEMMA AInvIs ==
    ASSUME AInv
    PROVE  /\ CallInv /\ ContractOk /\ ClockOk /\ TickOk /\ InCall /\ OwedKept /\ WorldOk
           /\ TypeOK /\ cash \in [Places -> Nat]
           /\ spot \in [Markets -> Nat] /\ perp \in [Markets -> Nat]
           /\ IsFiniteSet(Users) /\ Waiting \in [Users -> Nat]
           /\ cash["vault"] \in Nat /\ TotalAssets \in Nat
  BY AgentAssumption
     DEF AInv, CallInv, TypeOK, ContractOk, Waiting, Places, TotalAssets

\* A part of the queue is a part of its total.
LEMMA QueuedIs ==
    ASSUME AInv, NEW D \in SUBSET Users
    PROVE  Queued(D) \in Nat
  BY AInvIs, TotalOfIs DEF Queued

\* The snapshot has the types the policy expects, and owes what is queued.
LEMMA SnapshotIs ==
    ASSUME AInv
    PROVE  /\ Snapshot \in SnapshotType
           /\ Snapshot.freeAssets = cash["vault"] /\ P!Committed(Snapshot) = Queued(Users)
  <1>1. \A m \in Markets : MarketView(m) \in MarketType
    <2>1. Lot \in Nat /\ MinOrder \in Nat /\ FundingRate \in Int
      BY VenueAssumption, AgentAssumption
    <2> QED
      BY <2>1, AInvIs, Configured DEF MarketView, MarketType
  <1>2. PICK markets \in [Markets -> MarketType] : markets = [m \in Markets |-> MarketView(m)]
    BY <1>1
  <1>3. PICK ripe \in Nat, pending \in Nat :
            /\ ripe = Queued(Ripe) /\ pending = Queued(Users \ Ripe)
            /\ ripe + pending = Queued(Users)
    <2>1. Ripe \in SUBSET Users /\ (Users \ Ripe) \in SUBSET Users
      BY DEF Ripe
    <2>2. Queued(Ripe) + Queued(Users \ Ripe) = Queued(Users)
      BY <2>1, AInvIs, TotalOfSplits DEF Queued
    <2> QED
      BY <2>1, <2>2, QueuedIs
  <1>4. PICK window \in Nat : window = WithdrawWindowRemaining
    <2>1. (TotalAssets * MaxDeployed) \div BPS \in Nat
      BY AInvIs, Configured, Products, Quotient
    <2> QED
      BY <2>1, AInvIs DEF WithdrawWindowRemaining, P!Above, ContractOk
  <1>5. PICK spare \in Nat : spare = Unallocated(cash["margin"], perp)
    BY AInvIs, UnallocatedIs DEF Places
  <1>6. PICK notional \in Nat : notional = Sigma(perp)
    BY AInvIs, SigmaMoves
  <1>7. PICK urgent \in BOOLEAN : urgent = \E u \in Ripe : queue[u].age >= UrgentAge
    OBVIOUS
  <1>8. PICK vault \in Nat, base \in Nat, margin \in Nat :
            vault = cash["vault"] /\ base = cash["base"] /\ margin = cash["margin"]
    BY AInvIs DEF Places
  <1>9. Snapshot = [freeAssets |-> vault, totalAssets |-> TotalAssets, deployedAssets |-> deployed,
                    idleOnBase |-> base, unallocatedMargin |-> spare, perpNotional |-> notional,
                    perpEquity |-> margin, withdrawalFee |-> 0, markets |-> markets,
                    ripe |-> ripe, pending |-> pending, urgent |-> urgent,
                    withdrawWindowRemaining |-> window, closeRequested |-> order]
    BY <1>2, <1>3, <1>4, <1>5, <1>6, <1>7, <1>8
       DEF Snapshot, ContractView, Observation, QueueView, EntryAssets
  <1>10. TotalAssets \in Nat /\ deployed \in Nat /\ order \in BOOLEAN
    BY AInvIs DEF ContractOk, WorldOk
  <1>11. Snapshot \in SnapshotType
    BY <1>9, <1>10 DEF SnapshotType
  <1>12. Snapshot.freeAssets = vault /\ Snapshot.ripe = ripe /\ Snapshot.pending = pending
    BY <1>9
  <1> QED
    BY <1>3, <1>8, <1>11, <1>12 DEF P!Committed

\* The ripe entries are requests of holders.
LEMMA RipeEntriesAre ==
    ASSUME AInv
    PROVE  RipeEntries \in Seq([who : Users, shares : Nat])
  <1> DEFINE listed   == SetToSeq(Users)
             place(u) == CHOOSE i \in DOMAIN listed : listed[i] = u
             before(u, v) == \/ queue[u].age > queue[v].age
                             \/ queue[u].age = queue[v].age /\ place(u) < place(v)
             R == {p \in Ripe \X Ripe : before(p[1], p[2])}
             n == Cardinality(Ripe)
             at(i) == CHOOSE x \in Ripe : Cardinality({y \in Ripe : before(y, x)}) = i - 1
             turns == [i \in 1 .. n |-> at(i)]
  <1>1. Ripe \in SUBSET Users /\ IsFiniteSet(Users) /\ IsFiniteSet(Ripe) /\ n \in Nat
    <2>1. Ripe \in SUBSET Users /\ IsFiniteSet(Users)
      BY AInvIs DEF Ripe
    <2> QED
      BY <2>1, FS_Subset, FS_CardinalityType
  <1>2. listed \in [1 .. Cardinality(Users) -> Users] /\ Cardinality(Users) \in Nat
        /\ \A u \in Users : \E i \in 1 .. Cardinality(Users) : listed[i] = u
    <2>1. PICK k \in Nat : k = Cardinality(Users)
      BY <1>1, FS_CardinalityType
    <2>2. \E f : f \in Bijection(1 .. k, Users)
      BY <1>1, <2>1, FS_CardinalityType DEF ExistsBijection
    <2>3. PICK f \in [1 .. k -> Users] : IsInjective(f)
      BY <2>2 DEF Bijection, Injection
    <2>4. listed \in [1 .. k -> Users] /\ IsInjective(listed)
      BY <2>1, <2>3 DEF SetToSeq
    <2>5. listed \in Injection(1 .. k, Users)
      <3> HIDE DEF listed
      <3> QED
        BY <2>4 DEF Injection
    <2>6. IsFiniteSet(1 .. k) /\ Cardinality(1 .. k) = k
      BY FS_Interval
    <2>7. listed \in Surjection(1 .. k, Users)
      <3> HIDE DEF listed
      <3> QED
        BY <1>1, <2>1, <2>5, <2>6, FS_Injection
    <2> HIDE DEF listed
    <2> QED
      BY <2>1, <2>4, <2>7 DEF Surjection
  <1>3. \A u \in Users : place(u) \in Nat /\ listed[place(u)] = u
    <2> HIDE DEF listed
    <2>1. DOMAIN listed = 1 .. Cardinality(Users)
      BY <1>2
    <2> QED
      BY <1>2, <2>1
  <1>4. Ranks(Ripe, R)
    <2> HIDE DEF listed
    <2>1. \A a, b \in Ripe : <<a, b>> \in R <=> before(a, b)
      OBVIOUS
    <2>2. \A a \in Ripe : place(a) \in Nat /\ queue[a].age \in Nat
      <3>1. UrgentAge \in Nat /\ queue \in [Users -> [shares : Nat, age : 0 .. UrgentAge]]
        BY AInvIs, Configured DEF ContractOk
      <3>2. \A u \in Users : queue[u].age \in Nat
        BY <3>1
      <3>3. \A u \in Users : place(u) \in Nat
        BY <1>3
      <3> HIDE DEF place
      <3> QED
        BY <1>1, <3>2, <3>3
    <2>3. \A a, b \in Ripe : a # b => place(a) # place(b)
      BY <1>1, <1>3
    <2> HIDE DEF R, place
    <2> QED
      BY <2>1, <2>2, <2>3 DEF Ranks
  <1>5. \A x \in Ripe : {y \in Ripe : <<y, x>> \in R} = {y \in Ripe : before(y, x)}
    <2> HIDE DEF place
    <2> QED
      OBVIOUS
  <1>6. RipeEntries = [i \in DOMAIN turns |-> [who |-> turns[i], shares |-> queue[turns[i]].shares]]
    BY DEF RipeEntries, P!Ordered, P!Cardinality, Cardinality
  <1> HIDE DEF R, before, listed
  <1>7. ASSUME NEW i \in 1 .. n PROVE at(i) \in Ripe
    <2>1. PICK x \in Ripe : Cardinality({y \in Ripe : <<y, x>> \in R}) = i - 1
      <3>1. \A j \in 1 .. Cardinality(Ripe) :
               \E x \in Ripe : Cardinality({y \in Ripe : <<y, x>> \in R}) = j - 1
        BY <1>1, <1>4, RankedAll
      <3> QED
        BY <3>1
    <2>2. Cardinality({y \in Ripe : before(y, x)}) = i - 1
      BY <1>5, <2>1
    <2> QED
      BY <2>2
  <1> HIDE DEF at, n
  <1>8. DOMAIN turns = 1 .. n /\ \A i \in 1 .. n : turns[i] \in Users
    BY <1>1, <1>7
  <1> HIDE DEF turns
  <1>9. \A u \in Users : queue[u].shares \in Nat
    BY AInvIs DEF ContractOk
  <1>10. \A i \in 1 .. n : [who |-> turns[i], shares |-> queue[turns[i]].shares]
                              \in [who : Users, shares : Nat]
    BY <1>8, <1>9
  <1>11. RipeEntries \in [1 .. n -> [who : Users, shares : Nat]]
    BY <1>6, <1>8, <1>10
  <1> QED
    BY <1>1, <1>11, ListIs

-----------------------------------------------------------------------------
\* What a step may leave alone.

\* An adapter that stays idle may trade, and the vault's money may move.
LEMMA IdleStays ==
    ASSUME CallInv, call = Idle, call' = call, calls' = calls, faults' \subseteq AllFaults,
           unseen' \in BOOLEAN, doubled' \in BOOLEAN, cash' \in [Places -> Nat],
           spot' \in [Markets -> Nat], perp' \in [Markets -> Nat],
           \A m \in Markets : perp'[m] \in OnGrid
    PROVE  CallInv'
  <1>1. call' \in CallStates /\ call'.op = "none" /\ call'.step = "idle" /\ call' = Idle
    BY IdleIs
  <1>2. TypeOK'
    BY <1>1 DEF TypeOK, CallInv
  <1>3. StepsOk' /\ InHandOk' /\ SizedOk' /\ GridOk' /\ FlatOk'
    BY <1>1 DEF StepsOk, InHandOk, SizedOk, GridOk, FlatOk, At, DeploySteps, CloseSteps
  <1> QED
    BY <1>2, <1>3 DEF CallInv

\* The market moves the margin only under a position, which a close that has
\* come to its return no longer has.
LEMMA ShockInv ==
    ASSUME CallInv, UNCHANGED <<spot, perp, call, history>>, Sigma(perp) > 0,
           cash' \in [Places -> Nat], cash'["base"] = cash["base"]
    PROVE  CallInv'
  <1>1. TypeOK'
    BY DEF CallInv, TypeOK, history
  <1>2. StepsOk' /\ GridOk' /\ SizedOk' /\ InHandOk'
    BY DEF CallInv, StepsOk, GridOk, SizedOk, InHandOk, At, AtMarket
  <1>3. FlatOk'
    <2>1. ASSUME call.op = "closeAll", call.failures = 0, call.step = "return" PROVE FALSE
      <3>1. perp = NoPlan
        BY <2>1, FlatBeforeMargin
      <3>2. Sigma(NoPlan) = 0
        BY NoPlanIs
      <3> QED
        BY <3>1, <3>2
    <2> QED
      BY <2>1 DEF CallInv, FlatOk, At, Market
  <1> QED
    BY <1>1, <1>2, <1>3 DEF CallInv

LEMMA HoldIs == P!Hold \in DecisionType
  BY DEF P!Hold, P!Decision, DecisionType

\* The tick goes on, or back to sleep.
LEMMA TickGoes ==
    ASSUME TickOk
    PROVE  /\ Sleeps => tick' \in TickType /\ tick'.step = "sleep"
           /\ ToSettle => tick' \in TickType /\ tick'.step = "settle"
           /\ \A s \in {"sleep", "observe", "act", "execute", "call", "settle"} :
                 Then(s) => tick' \in TickType /\ tick'.step = s /\ tick'.decision = tick.decision
  <1>1. tick \in TickType
    BY DEF TickOk
  <1>2. PICK hold \in DecisionType : hold = P!Hold
    BY HoldIs
  <1>3. Sleeps => tick' \in TickType /\ tick'.step = "sleep"
    BY <1>2 DEF Sleeps, Asleep, TickType
  <1>4. ToSettle => tick' \in TickType /\ tick'.step = "settle"
    BY <1>1, <1>2 DEF ToSettle, TickType
  <1>5. ASSUME NEW s \in {"sleep", "observe", "act", "execute", "call", "settle"}, Then(s)
        PROVE  tick' \in TickType /\ tick'.step = s /\ tick'.decision = tick.decision
    BY <1>1, <1>5 DEF Then, TickType
  <1> QED
    BY <1>3, <1>4, <1>5

\* The shares are where they were.
LEMMA SharesStay ==
    ASSUME ContractOk, UNCHANGED <<supply, shares, queue>>, deployed' \in Nat
    PROVE  ContractOk'
  BY DEF ContractOk, Queued, Waiting

\* Backoffs keep to their cap.
LEMMA BackoffIs ==
    ASSUME NEW entry \in EntryType
    PROVE  Backoff(entry) \in EntryType /\ Ready2Go \in EntryType
  <1>1. COOLDOWN_MAX \in Nat /\ COOLDOWN_BASE \in Nat
    BY Configured
  <1>2. PICK w \in Nat : w = IF entry.wait = 0 THEN COOLDOWN_BASE ELSE 2 * entry.wait
    BY <1>1 DEF EntryType
  <1>3. PICK k \in 0 .. COOLDOWN_MAX : k = Least(COOLDOWN_MAX, w)
    BY <1>1 DEF Least
  <1>4. Backoff(entry) = [wait |-> k, left |-> k]
    BY <1>2, <1>3 DEF Backoff
  <1> QED
    BY <1>1, <1>4 DEF EntryType, Ready2Go

LEMMA CoolIs ==
    ASSUME ClockOk, NEW key
    PROVE  /\ Failed(key) => cool' \in [Keys -> EntryType]
           /\ Succeeded(key) => cool' \in [Keys -> EntryType]
  <1>1. cool \in [Keys -> EntryType]
    BY DEF ClockOk
  <1>2. Ready2Go \in EntryType
    BY Configured DEF Ready2Go, EntryType
  <1>3. key \in Keys => Backoff(cool[key]) \in EntryType
    BY <1>1, BackoffIs
  <1> QED
    BY <1>1, <1>2, <1>3 DEF Failed, Succeeded

\* A step of a tick that does not come to its execution.
LEMMA TickKeeps ==
    ASSUME AInv, CallInv', ContractOk', ClockOk', tick' \in TickType, tick'.step # "execute",
           tick'.step = "call" <=> call' # Idle, UNCHANGED <<order, outage>>
    PROVE  AInv'
  <1>1. TickOk' /\ OwedKept' /\ InCall'
    BY DEF TickOk, OwedKept, InCall, InTick
  <1>2. WorldOk'
    BY DEF AInv, WorldOk
  <1> QED
    BY <1>1, <1>2 DEF AInv

\* A step between calls that trades nothing and moves no money.
LEMMA QuietTick ==
    ASSUME AInv, UNCHANGED vars, ContractOk', ClockOk', tick' \in TickType,
           tick'.step \notin {"execute", "call"}, call = Idle, UNCHANGED <<order, outage>>
    PROVE  AInv'
  <1>1. CallInv' /\ call' = Idle
    BY AInvIs, StutterInv DEF vars
  <1> QED
    BY <1>1, TickKeeps

\* A step of the environment, which leaves the tick where it is.
LEMMA TickStays ==
    ASSUME AInv, CallInv', ContractOk', ClockOk', UNCHANGED <<tick, call, outage>>,
           order' \in BOOLEAN, Queued(Seen)' <= Queued(Seen), cash["vault"] <= cash'["vault"]
    PROVE  AInv'
  <1>1. TickOk' /\ InCall' /\ WorldOk'
    BY AInvIs DEF TickOk, InCall, InTick, Chosen, WorldOk, Sound, FromVault
  <1>2. OwedKept'
    <2> SUFFICES ASSUME InTick("execute"), FromVault(Chosen)
                 PROVE  Chosen.amount + Queued(Seen)' <= cash'["vault"]
      BY DEF OwedKept, InTick, Chosen, FromVault
    <2>1. Chosen.amount + Queued(Seen) <= cash["vault"] /\ cash["vault"] \in Nat
      BY AInvIs DEF OwedKept
    <2>2. Chosen.amount \in Nat
      BY AInvIs DEF TickOk, TickType, DecisionType, Chosen
    <2>3. Queued(Seen) \in Nat
      BY QueuedIs DEF Seen
    <2>4. cash'["vault"] \in Nat
      BY DEF CallInv, TypeOK, Places
    <2>5. Queued(Seen)' \in Nat
      <3>1. Waiting' \in [Users -> Nat] /\ Seen' \in SUBSET Users /\ IsFiniteSet(Users)
        BY AInvIs DEF ContractOk, Waiting, Seen
      <3> QED
        BY <3>1, TotalOfIs DEF Queued
    <2> QED
      BY <2>1, <2>2, <2>3, <2>4, <2>5
  <1> QED
    BY <1>1, <1>2 DEF AInv

-----------------------------------------------------------------------------
\* The tick's own steps.

\* Reading, deciding and settling are between calls.
LEMMA NotInCall ==
    ASSUME AInv, tick.step # "call"
    PROVE  call = Idle /\ At("idle")
  BY AInvIs, IdleIs DEF InCall, InTick, At

LEMMA ValuationIs ==
    ASSUME AInv
    PROVE  Valuation \in Nat
  <1>1. Sigma(spot) \in Nat
    BY AInvIs, SigmaMoves
  <1>2. /\ cash["base"] \in Nat /\ cash["solana"] \in Nat /\ cash["margin"] \in Nat
        /\ cash["outbound"] \in Nat /\ cash["homebound"] \in Nat
    BY AInvIs DEF Places
  <1> QED
    BY <1>1, <1>2 DEF Valuation

\* worker.ts 343-430, 716-761: the reads of a tick, and what they make of the
\* report.
LEMMA ReadsInv ==
    ASSUME AInv, Idles \/ ObserveFails \/ Reports \/ ReportSkipped \/ ReportDisputed
    PROVE  AInv'
  <1>1. UNCHANGED <<vars, supply, shares, queue, cool, order, outage>> /\ tick.step = "observe"
    BY DEF Idles, ObserveFails, Reports, ReportSkipped, ReportDisputed, contract, world, InTick
  <1>2. deployed' \in Nat /\ navAge' \in 0 .. StaleAge
    <2>1. StaleAge \in Nat /\ navAge \in 0 .. StaleAge /\ deployed \in Nat
      BY AInvIs, Configured DEF ClockOk, ContractOk
    <2> QED
      BY <2>1, ValuationIs DEF Idles, ObserveFails, Reports, ReportSkipped, ReportDisputed, contract
  <1>3. tick' \in TickType /\ tick'.step \in {"sleep", "act"}
    <2>1. Sleeps \/ Then("act")
      BY DEF Idles, ObserveFails, Reports, ReportSkipped, ReportDisputed
    <2> QED
      BY <2>1, AInvIs, TickGoes
  <1>4. ContractOk' /\ ClockOk'
    BY <1>1, <1>2, AInvIs, SharesStay DEF ClockOk
  <1> QED
    BY <1>1, <1>3, <1>4, NotInCall, QuietTick

LEMMA TickEndsInv ==
    ASSUME AInv, TickEnds
    PROVE  AInv'
  <1>1. UNCHANGED <<vars, deployed, supply, shares, queue, navAge, cool, order, outage>>
        /\ tick.step = "settle" /\ Sleeps
    BY DEF TickEnds, contract, world, InTick
  <1>2. tick' \in TickType /\ tick'.step = "sleep"
    BY <1>1, AInvIs, TickGoes
  <1>3. ContractOk' /\ ClockOk'
    BY <1>1, AInvIs, SharesStay DEF ClockOk, ContractOk
  <1> QED
    BY <1>1, <1>2, <1>3, NotInCall, QuietTick

LEMMA WithdrawRevertsInv ==
    ASSUME AInv, WithdrawReverts
    PROVE  AInv'
  <1>1. UNCHANGED <<vars, deployed, supply, shares, queue, navAge, order, outage>>
        /\ tick.step = "execute" /\ Sleeps /\ Failed(KeyOf(Chosen))
    BY DEF WithdrawReverts, contract, world, InTick
  <1>2. tick' \in TickType /\ tick'.step = "sleep"
    BY <1>1, AInvIs, TickGoes
  <1>3. ContractOk' /\ ClockOk'
    BY <1>1, AInvIs, SharesStay, CoolIs DEF ClockOk, ContractOk
  <1> QED
    BY <1>1, <1>2, <1>3, NotInCall, QuietTick

\* A tick passes: what is queued ages, and stays queued.
LEMMA WakeInv ==
    ASSUME AInv, Wake
    PROVE  AInv'
  <1>1. /\ UNCHANGED <<cash, spot, perp, call, calls, deployed, supply, shares, order, outage>>
        /\ tick.step = "sleep" /\ Then("observe") /\ unseen' = FALSE /\ doubled' = FALSE
        /\ navAge' = Least(navAge + 1, StaleAge)
        /\ queue' = [u \in Users |-> IF queue[u].shares = 0 THEN NoRequest
                                     ELSE [queue[u] EXCEPT !.age = Least(@ + 1, UrgentAge)]]
        /\ cool' = [k \in Keys |-> [cool[k] EXCEPT !.left = P!Above(@, 1)]]
    BY DEF Wake, money, InTick
  <1>2. faults' \subseteq AllFaults
    <2>1. outage \in SUBSET AllFaults /\ FaultSets \subseteq SUBSET AllFaults
      BY AInvIs, VenueAssumption DEF WorldOk
    <2> QED
      BY <2>1 DEF Wake
  <1>3. call = Idle
    BY <1>1, NotInCall
  <1>4. CallInv'
    <2>1. /\ cash' \in [Places -> Nat] /\ spot' \in [Markets -> Nat] /\ perp' \in [Markets -> Nat]
          /\ \A m \in Markets : perp'[m] \in OnGrid
      BY <1>1, AInvIs DEF CallInv, GridOk
    <2> QED
      BY <1>1, <1>2, <1>3, <2>1, AInvIs, IdleStays
  <1>5. queue' \in [Users -> [shares : Nat, age : 0 .. UrgentAge]]
        /\ \A u \in Users : queue'[u].shares = queue[u].shares
    <2>1. UrgentAge \in Nat /\ queue \in [Users -> [shares : Nat, age : 0 .. UrgentAge]]
      BY AInvIs, Configured DEF ContractOk
    <2>2. ASSUME NEW u \in Users
          PROVE  /\ queue'[u] \in [shares : Nat, age : 0 .. UrgentAge]
                 /\ queue'[u].shares = queue[u].shares
      <3>1. PICK n \in Nat, a \in 0 .. UrgentAge : queue[u] = [shares |-> n, age |-> a]
        BY <2>1
      <3>2. PICK b \in 0 .. UrgentAge : b = Least(a + 1, UrgentAge)
        BY <2>1 DEF Least
      <3>3. queue'[u] = IF n = 0 THEN NoRequest ELSE [shares |-> n, age |-> b]
        BY <1>1, <3>1, <3>2
      <3> QED
        BY <2>1, <3>1, <3>3 DEF NoRequest
    <2>3. DOMAIN queue' = Users /\ queue' = [u \in Users |-> queue'[u]]
      BY <1>1
    <2> QED
      BY <2>2, <2>3
  <1>6. ContractOk'
    <2>1. Waiting' = Waiting
      BY <1>5 DEF Waiting
    <2> QED
      BY <1>1, <1>5, <2>1, AInvIs DEF ContractOk, Queued
  <1>7. ClockOk'
    <2>1. StaleAge \in Nat /\ COOLDOWN_MAX \in Nat /\ cool \in [Keys -> EntryType]
          /\ navAge \in 0 .. StaleAge
      BY AInvIs, Configured DEF ClockOk
    <2>2. navAge' \in 0 .. StaleAge
      BY <1>1, <2>1 DEF Least
    <2>3. \A k \in Keys : [cool[k] EXCEPT !.left = P!Above(@, 1)] \in EntryType
      BY <2>1 DEF EntryType, P!Above
    <2> QED
      BY <1>1, <2>2, <2>3 DEF ClockOk
  <1>8. tick' \in TickType /\ tick'.step = "observe"
    BY <1>1, AInvIs, TickGoes
  <1> QED
    BY <1>1, <1>3, <1>4, <1>6, <1>7, <1>8, TickKeeps

\* The process dies in a call, and its backoffs with it.
LEMMA DiesInv ==
    ASSUME AInv, Dies
    PROVE  AInv'
  <1>1. /\ UNCHANGED <<deployed, supply, shares, queue, navAge, order, outage>>
        /\ Crash /\ Sleeps /\ cool' = [k \in Keys |-> Ready2Go]
    BY DEF Dies, contract, world
  <1>2. CallInv' /\ call' = Idle
    BY <1>1, AInvIs, CrashInv DEF Crash
  <1>3. ContractOk' /\ ClockOk'
    <2>1. Ready2Go \in EntryType
      BY Configured DEF Ready2Go, EntryType
    <2> QED
      BY <1>1, <2>1, AInvIs, SharesStay DEF ClockOk, ContractOk
  <1>4. tick' \in TickType /\ tick'.step = "sleep"
    BY <1>1, AInvIs, TickGoes
  <1> QED
    BY <1>1, <1>2, <1>3, <1>4, TickKeeps

-----------------------------------------------------------------------------
\* The environment's steps.

LEMMA OrdersInv ==
    ASSUME AInv, Orders
    PROVE  AInv'
  <1>1. UNCHANGED <<vars, deployed, supply, shares, queue, navAge, cool, tick, outage>>
        /\ order' = ~order
    BY DEF Orders, contract
  <1>2. CallInv' /\ call' = call /\ cash' = cash
    BY <1>1, AInvIs, StutterInv DEF vars
  <1>3. ContractOk' /\ ClockOk'
    BY <1>1, AInvIs, SharesStay DEF ClockOk, ContractOk
  <1>4. Queued(Seen)' = Queued(Seen) /\ Queued(Seen) \in Nat
    BY <1>1, QueuedIs DEF Queued, Waiting, Seen
  <1> QED
    BY <1>1, <1>2, <1>3, <1>4, AInvIs, TickStays DEF WorldOk

\* A crossing lands on Solana or on Base, never in the vault.
LEMMA LandsElsewhere ==
    ASSUME AInv, Lands
    PROVE  cash'["vault"] = cash["vault"] /\ cash["vault"] \in Nat
  <1>1. TypeOK /\ cash["vault"] \in Nat
    BY AInvIs
  <1>2. PICK out \in Nat, home \in Nat : out = cash["outbound"] /\ home = cash["homebound"]
    BY AInvIs DEF Places
  <1>3. /\ out <= cash["outbound"] /\ home <= cash["homebound"] /\ 0 <= out /\ 0 <= home
        /\ {"vault", "base", "solana", "outbound", "homebound"} \subseteq Places
    BY <1>2 DEF Places
  <1>4. CASE cash' = Move("outbound", "solana", out, 0)
    BY <1>1, <1>3, <1>4, MoveIs, SMTT(30)
  <1>5. CASE cash' = Move("homebound", "base", home, 0)
    BY <1>1, <1>3, <1>5, MoveIs, SMTT(30)
  <1> QED
    BY <1>1, <1>2, <1>4, <1>5 DEF Lands

LEMMA LandingInv ==
    ASSUME AInv, Landing
    PROVE  AInv'
  <1>1. UNCHANGED <<deployed, supply, shares, queue, navAge, cool, tick, order, outage>> /\ Lands
    BY DEF Landing, agentVars
  <1>2. CallInv' /\ call' = call
    BY <1>1, AInvIs, LandsInv DEF Lands
  <1>3. cash'["vault"] = cash["vault"] /\ cash["vault"] \in Nat
    BY <1>1, LandsElsewhere
  <1>4. ContractOk' /\ ClockOk'
    BY <1>1, AInvIs, SharesStay DEF ClockOk, ContractOk
  <1>5. Queued(Seen)' = Queued(Seen) /\ Queued(Seen) \in Nat
    BY <1>1, QueuedIs DEF Queued, Waiting, Seen
  <1> QED
    BY <1>1, <1>2, <1>3, <1>4, <1>5, AInvIs, TickStays DEF WorldOk

LEMMA MarketMovesInv ==
    ASSUME AInv, MarketMoves
    PROVE  AInv'
  <1>1. /\ UNCHANGED <<spot, perp, call, history, deployed, supply, shares, queue, navAge, cool,
                       tick, order, outage>>
        /\ Sigma(perp) > 0
    BY DEF MarketMoves, contract
  <1>2. PICK d \in Shocks : cash.margin + d > 0 /\ cash' = [cash EXCEPT !.margin = @ + d]
    BY DEF MarketMoves
  <1>3. PICK n \in Nat : n = cash["margin"] + d
    <2>1. Shocks \subseteq Int
      BY AgentAssumption
    <2> QED
      BY <1>2, <2>1, AInvIs DEF Places
  <1>4. cash' \in [Places -> Nat] /\ cash'["base"] = cash["base"] /\ cash'["vault"] = cash["vault"]
    BY <1>2, <1>3, AInvIs DEF Places
  <1>5. CallInv'
    BY <1>1, <1>4, AInvIs, ShockInv
  <1>6. ContractOk' /\ ClockOk'
    BY <1>1, AInvIs, SharesStay DEF ClockOk, ContractOk
  <1>7. Queued(Seen)' = Queued(Seen) /\ Queued(Seen) \in Nat
    BY <1>1, QueuedIs DEF Queued, Waiting, Seen
  <1> QED
    BY <1>1, <1>4, <1>5, <1>6, <1>7, AInvIs, TickStays DEF WorldOk

\* A change to one entry changes the total by as much.
LEMMA TotalOfChange ==
    ASSUME NEW S, IsFiniteSet(S), NEW f \in [S -> Nat], NEW g \in [S -> Nat], NEW x \in S,
           \A y \in S : y # x => g[y] = f[y]
    PROVE  /\ P!TotalOf(g, S) + f[x] = P!TotalOf(f, S) + g[x]
           /\ P!TotalOf(g, S) \in Nat /\ P!TotalOf(f, S) \in Nat
  <1>1. f = [y \in S |-> f[y]] /\ g = [y \in S |-> g[y]]
    OBVIOUS
  <1>2. /\ P!TotalOf(f, S) = Total(f) /\ P!TotalOf(g, S) = Total(g)
        /\ P!TotalOf(g, S) \in Nat /\ P!TotalOf(f, S) \in Nat
    BY <1>1, TotalOfIs
  <1> QED
    BY <1>2, TotalChange

\* Shares that are asked back leave their holder for the queue, and their age
\* there starts again.
LEMMA RequestInv ==
    ASSUME AInv, Request
    PROVE  AInv'
  <1>1. /\ UNCHANGED <<vars, deployed, supply, navAge, cool, tick, order, outage>>
    BY DEF Request, world
  <1>2. PICK u \in Users, n \in Requests :
            /\ n <= shares[u] /\ shares' = [shares EXCEPT ![u] = @ - n]
            /\ queue' = [queue EXCEPT ![u] = [shares |-> @.shares + n, age |-> 0]]
    BY DEF Request
  <1>3. /\ n \in Nat /\ shares \in [Users -> Nat] /\ supply \in Nat /\ deployed \in Nat
        /\ queue \in [Users -> [shares : Nat, age : 0 .. UrgentAge]] /\ UrgentAge \in Nat
        /\ supply = P!TotalOf(shares, Users) + P!TotalOf(Waiting, Users)
    BY AgentAssumption, AInvIs, Configured DEF ContractOk, Queued
  <1>4. CallInv' /\ call' = call /\ cash' = cash
    BY <1>1, AInvIs, StutterInv DEF vars
  <1>5. /\ shares' \in [Users -> Nat] /\ shares'[u] = shares[u] - n
        /\ \A v \in Users : v # u => shares'[v] = shares[v]
    <2>1. shares[u] - n \in Nat
      BY <1>2, <1>3
    <2> QED
      BY <1>2, <1>3, <2>1
  <1>6. /\ queue' \in [Users -> [shares : Nat, age : 0 .. UrgentAge]]
        /\ queue'[u].shares = queue[u].shares + n /\ queue'[u].age = 0
        /\ \A v \in Users : v # u => queue'[v] = queue[v]
    <2>1. PICK k \in Nat : k = queue[u].shares + n
      BY <1>3
    <2>2. queue' = [queue EXCEPT ![u] = [shares |-> k, age |-> 0]]
      BY <1>2, <2>1
    <2>3. [shares |-> k, age |-> 0] \in [shares : Nat, age : 0 .. UrgentAge]
      BY <1>3
    <2> QED
      BY <1>3, <2>1, <2>2, <2>3
  <1>7. /\ Waiting' \in [Users -> Nat] /\ Waiting'[u] = Waiting[u] + n
        /\ \A v \in Users : v # u => Waiting'[v] = Waiting[v]
    BY <1>6 DEF Waiting
  <1>8. ContractOk' /\ ClockOk'
    <2>1. /\ P!TotalOf(shares', Users) + shares[u] = P!TotalOf(shares, Users) + shares'[u]
          /\ P!TotalOf(shares', Users) \in Nat /\ P!TotalOf(shares, Users) \in Nat
      <3>1. IsFiniteSet(Users) /\ shares \in [Users -> Nat]
        BY <1>3, AInvIs
      <3> QED
        BY <1>5, <3>1, TotalOfChange
    <2>2. /\ P!TotalOf(Waiting', Users) + Waiting[u] = P!TotalOf(Waiting, Users) + Waiting'[u]
          /\ P!TotalOf(Waiting', Users) \in Nat /\ P!TotalOf(Waiting, Users) \in Nat
      BY <1>7, AInvIs, TotalOfChange
    <2>3. shares[u] \in Nat /\ Waiting[u] \in Nat
      BY <1>3, AInvIs
    <2>4. supply = P!TotalOf(shares', Users) + P!TotalOf(Waiting', Users)
      BY <1>2, <1>3, <1>5, <1>7, <2>1, <2>2, <2>3, SMTT(30)
    <2> QED
      BY <1>1, <1>3, <1>5, <1>6, <2>4, AInvIs DEF ContractOk, ClockOk, Queued
  <1>9. Queued(Seen)' <= Queued(Seen)
    <2>1. Seen' \in SUBSET Users /\ Seen \in SUBSET Users
      BY DEF Seen
    <2>2. \A v \in Seen' : v # u /\ v \in Seen /\ Waiting'[v] <= Waiting[v]
      <3>1. \A v \in Users : Waiting[v] \in Nat
        BY AInvIs
      <3> QED
        BY <1>6, <1>7, <3>1 DEF Seen
    <2>3. P!TotalOf(Waiting', Seen') <= P!TotalOf(Waiting, Seen)
      BY <1>7, <2>1, <2>2, AInvIs, TotalOfGrows
    <2> QED
      BY <2>3 DEF Queued
  <1> QED
    BY <1>1, <1>4, <1>8, <1>9, AInvIs, TickStays DEF WorldOk

\* New shares are issued for what comes in.
LEMMA DepositInv ==
    ASSUME AInv, Deposit
    PROVE  AInv'
  <1>1. UNCHANGED <<spot, perp, call, history, deployed, queue, navAge, cool, tick, order, outage>>
    BY DEF Deposit
  <1>2. PICK u \in Users, a \in Deposits :
            /\ cash' = [cash EXCEPT !.vault = @ + a]
            /\ shares' = [shares EXCEPT ![u] = @ + ToShares(a)]
            /\ supply' = supply + ToShares(a)
    BY DEF Deposit
  <1>3. a \in Nat /\ shares \in [Users -> Nat] /\ supply \in Nat /\ deployed \in Nat
        /\ supply = P!TotalOf(shares, Users) + Queued(Users)
    BY AgentAssumption, AInvIs DEF ContractOk
  <1>4. PICK n \in Nat : n = ToShares(a)
    <2>1. TotalAssets + 1 \in Nat \ {0} /\ supply + 1 \in Nat
      BY <1>3, AInvIs
    <2>2. a * (supply + 1) \in Nat
      BY <1>3, <2>1, Products
    <2> QED
      BY <2>1, <2>2, Quotient DEF ToShares
  <1>5. /\ cash' \in [Places -> Nat] /\ cash'["vault"] = cash["vault"] + a
        /\ cash'["base"] = cash["base"] /\ cash'["margin"] = cash["margin"]
    <2>1. PICK k \in Nat : k = cash["vault"] + a
      BY <1>3, AInvIs
    <2> QED
      BY <1>2, <2>1, AInvIs DEF Places
  <1>6. CallInv'
    <2>1. cash["base"] <= cash'["base"]
      BY <1>5, AInvIs DEF Places
    <2> QED
      BY <1>1, <1>5, <2>1, AInvIs, CashArrives
  <1>7. /\ shares' \in [Users -> Nat] /\ shares'[u] = shares[u] + n
        /\ \A v \in Users : v # u => shares'[v] = shares[v]
    BY <1>2, <1>3, <1>4
  <1>8. ContractOk' /\ ClockOk'
    <2>1. /\ P!TotalOf(shares', Users) + shares[u] = P!TotalOf(shares, Users) + shares'[u]
          /\ P!TotalOf(shares', Users) \in Nat /\ P!TotalOf(shares, Users) \in Nat
      BY <1>3, <1>7, AInvIs, TotalOfChange
    <2>2. shares[u] \in Nat /\ Queued(Users) \in Nat /\ Queued(Users)' = Queued(Users)
      BY <1>1, <1>3, QueuedIs DEF Queued, Waiting
    <2>3. supply' = P!TotalOf(shares', Users) + Queued(Users)
      BY <1>2, <1>3, <1>4, <1>7, <2>1, <2>2
    <2>4. supply' \in Nat
      BY <1>2, <1>3, <1>4
    <2> QED
      BY <1>1, <1>3, <1>7, <2>2, <2>3, <2>4, AInvIs DEF ContractOk, ClockOk
  <1>9. Queued(Seen)' = Queued(Seen) /\ Queued(Seen) \in Nat
    BY <1>1, QueuedIs DEF Queued, Waiting, Seen
  <1> QED
    BY <1>1, <1>3, <1>5, <1>6, <1>8, <1>9, AInvIs, TickStays DEF WorldOk

-----------------------------------------------------------------------------
\* The tick's decision, and what it leads to.

\* What is decided was decided on this snapshot: what it draws from the vault
\* leaves all that is queued.
LEMMA DecidesInv ==
    ASSUME AInv, Decides
    PROVE  AInv'
  <1>1. /\ UNCHANGED <<vars, deployed, supply, shares, queue, navAge, cool, order, outage>>
        /\ tick.step = "act"
    BY DEF Decides, contract, world, InTick
  <1>2. PICK d \in Decided :
            tick' = IF Sits(d)
                    THEN [step |-> "settle", decision |-> P!Hold, ripe |-> RipeEntries]
                    ELSE [step |-> "execute", decision |-> d, ripe |-> RipeEntries]
    BY DEF Decides
  <1>3. PICK ripe \in Seq([who : Users, shares : Nat]) : ripe = RipeEntries
    BY RipeEntriesAre
  <1>4. d \in Affordable(Snapshot)
    BY SnapshotIs, DecisionsAre DEF Decided
  <1>5. PICK hold \in DecisionType : hold = P!Hold
    BY HoldIs
  <1>6. CallInv' /\ call' = call /\ cash' = cash /\ call = Idle
    BY <1>1, AInvIs, StutterInv, NotInCall DEF vars
  <1>7. ContractOk' /\ ClockOk'
    BY <1>1, AInvIs, SharesStay DEF ClockOk, ContractOk
  <1>8. CASE Sits(d)
    <2>1. tick' = [step |-> "settle", decision |-> hold, ripe |-> ripe]
      BY <1>2, <1>3, <1>5, <1>8
    <2>2. tick' \in TickType /\ tick'.step = "settle"
      BY <2>1 DEF TickType
    <2> QED
      BY <1>1, <1>6, <1>7, <2>2, TickKeeps
  <1>9. CASE ~Sits(d)
    <2>1. d \in DecisionType /\ Sound(d)
      BY <1>4 DEF Affordable
    <2>2. tick' = [step |-> "execute", decision |-> d, ripe |-> ripe]
      BY <1>2, <1>3, <1>9
    <2>3. tick' \in TickType /\ tick'.step = "execute" /\ tick'.decision = d
      BY <2>1, <2>2 DEF TickType
    <2>4. TickOk' /\ InCall' /\ WorldOk'
      BY <1>1, <1>6, <2>1, <2>3, AInvIs
         DEF TickOk, InCall, InTick, WorldOk, Chosen, Sound, FromVault
    <2>5. OwedKept'
      <3> SUFFICES ASSUME FromVault(d) PROVE d.amount + Queued(Seen)' <= cash'["vault"]
        BY <2>3 DEF OwedKept, InTick, Chosen, FromVault
      <3>1. d.amount + Queued(Users) <= cash["vault"]
        BY <1>4, SnapshotIs DEF Affordable, Drawable
      <3>2. Queued(Seen) <= Queued(Users)
        <4>1. Seen \in SUBSET Users
          BY DEF Seen
        <4>2. \A u \in Seen : Waiting[u] > 0 => u \in Users /\ Waiting[u] <= Waiting[u]
          <5>1. \A u \in Users : Waiting[u] \in Nat
            BY AInvIs
          <5> QED
            BY <4>1, <5>1
        <4> QED
          BY <4>1, <4>2, AInvIs, TotalOfGrows DEF Queued
      <3>3. d.amount \in Nat /\ Queued(Seen) \in Nat /\ Queued(Users) \in Nat /\ cash["vault"] \in Nat
        <4>1. Seen \in SUBSET Users
          BY DEF Seen
        <4> QED
          BY <2>1, <4>1, AInvIs, QueuedIs DEF DecisionType
      <3>4. Queued(Seen)' = Queued(Seen)
        BY <1>1 DEF Queued, Waiting, Seen
      <3> QED
        BY <1>6, <3>1, <3>2, <3>3, <3>4
    <2> QED
      BY <1>6, <1>7, <2>4, <2>5 DEF AInv
  <1> QED
    BY <1>8, <1>9

\* What is executed is sound.
LEMMA ChosenIs ==
    ASSUME AInv, InTick("execute")
    PROVE  /\ call = Idle /\ At("idle") /\ Chosen \in DecisionType /\ Sound(Chosen)
           /\ Chosen.amount \in Nat /\ Chosen.spotNotional \in Nat /\ Chosen.perpMargin \in Nat
  <1>1. Chosen \in DecisionType /\ Sound(Chosen)
    BY AInvIs DEF TickOk, TickType, Chosen
  <1>2. call = Idle /\ At("idle")
    BY NotInCall DEF InTick
  <1> QED
    BY <1>1, <1>2 DEF DecisionType

\* worker.ts 547-594: a call starts, with its money on Base.
LEMMA CallsInv ==
    ASSUME AInv, InTick("execute"), Calls(Chosen), UNCHANGED <<spot, perp, history>>
    PROVE  /\ CallInv' /\ call' # Idle
           /\ FromVault(Chosen) => /\ cash'["vault"] = cash["vault"] - Chosen.amount
                                   /\ Chosen.amount <= cash["vault"]
           /\ ~FromVault(Chosen) => cash' = cash
  <1> DEFINE d == Chosen
             source == IF FromVault(d) THEN "vault" ELSE "base"
  <1>1. /\ call = Idle /\ At("idle") /\ Sound(d) /\ d.amount \in Nat /\ d.spotNotional \in Nat
        /\ d.perpMargin \in Nat /\ TypeOK /\ CallInv /\ cash["vault"] \in Nat
    BY ChosenIs, AInvIs
  <1>2. ASSUME cash' \in [Places -> Nat], call' \in CallStates,
               call'.step \in {"cross", "size", "close"}, call'.raised = 0,
               call'.step = "cross" => /\ call'.op \in {"deploy", "topUpMargin"}
                                       /\ call'.asked <= cash'["base"],
               call'.step = "size" => call'.op = "deploy",
               call'.step = "close" => call'.op \in {"unwind", "closeAll"} /\ call'.at = 1,
               call'.op = "deploy" => call'.at \in DOMAIN MarketOrder
        PROVE  CallInv' /\ call' # Idle
    <2>1. calls' \in 0 .. MaxCalls /\ unseen' \in BOOLEAN /\ doubled' \in BOOLEAN
          /\ faults' \subseteq AllFaults /\ UNCHANGED <<spot, perp>>
      BY <1>1 DEF history, TypeOK
    <2>2. CallInv'
      BY <1>1, <1>2, <2>1, OpensCall
    <2> QED
      BY <1>2, <2>2, IdleIs
  <1>3. CASE d.kind \in {"DEPLOY", "TOP_UP_MARGIN"}
    <2>1. /\ Fund(source, d.amount)
          /\ IF d.kind = "DEPLOY" THEN Deploy(d.market, d.spotNotional, d.perpMargin)
             ELSE TopUpMargin(d.amount)
      BY <1>3 DEF Calls
    <2>2. cash' \in [Places -> Nat] /\ d.amount <= cash'["base"]
      BY <1>1, <2>1, FundIs
    <2>3. /\ FromVault(d) => /\ cash'["vault"] = cash["vault"] - d.amount
                             /\ d.amount <= cash["vault"]
          /\ ~FromVault(d) => cash' = cash
      <3>1. ASSUME FromVault(d)
            PROVE  cash'["vault"] = cash["vault"] - d.amount /\ d.amount <= cash["vault"]
        <4>1. cash' = Move("vault", "base", d.amount, 0) /\ d.amount <= cash["vault"]
          BY <1>1, <2>1, <3>1 DEF Fund
        <4> HIDE DEF d
        <4> QED
          BY <1>1, <4>1, MoveIs DEF Places
      <3>2. ASSUME ~FromVault(d) PROVE cash' = cash
        BY <2>1, <3>2 DEF Fund
      <3> QED
        BY <3>1, <3>2
    <2>4. CASE d.kind = "DEPLOY"
      <3>1. d.market \in Markets /\ d.perpMargin <= d.amount
        BY <1>1, <2>4 DEF Sound
      <3>2. Deploy(d.market, d.spotNotional, d.perpMargin)
        BY <2>1, <2>4
      <3>3. /\ call' \in CallStates /\ call'.op = "deploy" /\ call'.asked = d.perpMargin
            /\ call'.step \in {"cross", "size"} /\ call'.at \in DOMAIN MarketOrder
            /\ call'.raised = 0
        <4> HIDE DEF d
        <4> QED
          BY <1>1, <3>1, <3>2, DeployIs
      <3>4. call'.asked <= cash'["base"]
        <4>1. cash'["base"] \in Nat
          BY <2>2 DEF Places
        <4> HIDE DEF d
        <4> QED
          BY <1>1, <2>2, <3>1, <3>3, <4>1
      <3> HIDE DEF d
      <3> QED
        BY <1>2, <2>2, <2>3, <3>3, <3>4 DEF d
    <2>5. CASE d.kind = "TOP_UP_MARGIN"
      <3>1. TopUpMargin(d.amount)
        BY <2>1, <2>5
      <3>2. /\ call' \in CallStates /\ call'.op = "topUpMargin" /\ call'.asked = d.amount
            /\ call'.step = "cross" /\ call'.raised = 0
        <4> HIDE DEF d
        <4> QED
          BY <1>1, <3>1, TopUpIs
      <3> QED
        BY <1>2, <2>2, <2>3, <3>2
    <2> QED
      BY <1>3, <2>4, <2>5
  <1>4. CASE d.kind \notin {"DEPLOY", "TOP_UP_MARGIN"}
    <2>1. ~FromVault(d)
      BY <1>1, <1>4 DEF Sound
    <2>2. cash' = cash
      BY <1>4 DEF Calls
    <2>3. /\ call' \in CallStates /\ call'.op \in {"unwind", "closeAll"} /\ call'.step = "close"
          /\ call'.at = 1 /\ call'.raised = 0
      <3>1. Unwind(d.amount, Markets) \/ CloseAll
        BY <1>4 DEF Calls
      <3> HIDE DEF d
      <3> QED
        BY <1>1, <3>1, UnwindIs, CloseAllIs
    <2>4. cash' \in [Places -> Nat]
      BY <2>2, AInvIs
    <2> QED
      BY <1>2, <2>1, <2>2, <2>3, <2>4
  <1> QED
    BY <1>3, <1>4

LEMMA ExecutesInv ==
    ASSUME AInv, Executes
    PROVE  AInv'
  <1>1. /\ UNCHANGED <<spot, perp, history, supply, shares, queue, navAge, cool, order, outage>>
        /\ InTick("execute") /\ Calls(Chosen) /\ Then("call")
        /\ deployed' = IF FromVault(Chosen) THEN deployed + Chosen.amount ELSE deployed
    BY DEF Executes, world
  <1>2. CallInv' /\ call' # Idle
    BY <1>1, CallsInv
  <1>3. deployed' \in Nat
    BY <1>1, AInvIs, ChosenIs DEF ContractOk
  <1>4. ContractOk' /\ ClockOk'
    BY <1>1, <1>3, AInvIs, SharesStay DEF ClockOk
  <1>5. tick' \in TickType /\ tick'.step = "call"
    BY <1>1, AInvIs, TickGoes
  <1> QED
    BY <1>1, <1>2, <1>4, <1>5, TickKeeps

\* A correction is one order, placed or refused.
LEMMA RebalancesInv ==
    ASSUME AInv, Rebalances
    PROVE  AInv'
  <1>1. /\ UNCHANGED <<cash, spot, call, history, deployed, supply, shares, queue, navAge,
                       order, outage>>
        /\ InTick("execute") /\ Chosen.kind = "REBALANCE"
    BY DEF Rebalances, contract, world
  <1>2. call = Idle /\ Chosen.market \in Markets
    BY <1>1, ChosenIs DEF Sound
  <1>3. perp' \in [Markets -> Nat] /\ \A m \in Markets : perp'[m] \in OnGrid
    <2>1. CASE Trade(Chosen.market)
      BY <1>2, <2>1, AInvIs, TradeIs
    <2>2. CASE perp' = perp
      BY <2>2, AInvIs DEF CallInv, GridOk
    <2> QED
      BY <2>1, <2>2 DEF Rebalances
  <1>4. CallInv' /\ call' = Idle
    <2>1. /\ cash' \in [Places -> Nat] /\ spot' \in [Markets -> Nat] /\ call' = call
          /\ calls' = calls /\ faults' \subseteq AllFaults
          /\ unseen' \in BOOLEAN /\ doubled' \in BOOLEAN
      BY <1>1, AInvIs DEF TypeOK, history
    <2> QED
      BY <1>2, <1>3, <2>1, AInvIs, IdleStays
  <1>5. cool' \in [Keys -> EntryType] /\ tick' \in TickType /\ tick'.step \in {"settle", "sleep"}
    <2>1. \/ Succeeded(KeyOf(Chosen)) /\ ToSettle
          \/ Failed(KeyOf(Chosen)) /\ Sleeps
      BY DEF Rebalances
    <2> QED
      BY <2>1, AInvIs, CoolIs, TickGoes
  <1>6. ContractOk' /\ ClockOk'
    BY <1>1, <1>5, AInvIs, SharesStay DEF ClockOk, ContractOk
  <1> QED
    BY <1>1, <1>4, <1>5, <1>6, TickKeeps

\* A step of the call, whichever way it ends; what came home is no longer out.
LEMMA AdapterInv ==
    ASSUME AInv, Adapter
    PROVE  AInv'
  <1>1. /\ UNCHANGED <<supply, shares, queue, navAge, order, outage>> /\ InTick("call")
        /\ deployed' = P!Above(deployed, P!Above(cash'.vault, cash.vault))
        /\ \E done \in BOOLEAN : Leads(done)
    BY DEF Adapter, world, Partial
  <1>2. CallInv'
    <2>1. Ending \/ Stepping \/ Failing
      BY DEF Adapter
    <2>2. CASE Ending
      BY <2>2, AInvIs, CrossInv, BuyInv, ReturnAllInv DEF Ending
    <2>3. CASE Stepping
      BY <2>3, AInvIs, SizeInv, ShortInv, CloseNakedInv, CloseMarketInv, ReduceInv, SellInv,
         RepatriateInv DEF Stepping
    <2>4. CASE Failing
      BY <2>4, AInvIs, CrossFailsInv, SizeFailsInv, ShortRefusedInv, BuyFailsInv, BuyUnreadInv,
         CloseReadFailsInv, ReduceFailsInv, SellFailsInv, RepatriateFailsInv, ReturnFailsInv
         DEF Failing
    <2> QED
      BY <2>1, <2>2, <2>3, <2>4
  <1>3. ContractOk'
    <2>1. deployed \in Nat /\ cash["vault"] \in Nat /\ cash'["vault"] \in Nat
      BY <1>2, AInvIs DEF ContractOk, CallInv, TypeOK, Places
    <2>2. deployed' \in Nat
      BY <1>1, <2>1 DEF P!Above
    <2> QED
      BY <1>1, <2>2, AInvIs, SharesStay
  <1>4. /\ cool' \in [Keys -> EntryType] /\ tick' \in TickType /\ tick'.step # "execute"
        /\ tick'.step = "call" <=> call' # Idle
    <2>1. CASE call'.step # "idle" /\ UNCHANGED <<tick, cool>>
      <3>1. call' # Idle
        BY <2>1, IdleIs
      <3> QED
        BY <1>1, <2>1, <3>1, AInvIs DEF TickOk, ClockOk, InTick
    <2>2. CASE /\ call'.step = "idle"
               /\ \/ Succeeded(KeyOf(Chosen)) /\ ToSettle
                  \/ Failed(KeyOf(Chosen)) /\ Sleeps
      <3>1. call' = Idle
        BY <1>2, <2>2 DEF CallInv, StepsOk, At
      <3>2. tick' \in TickType /\ tick'.step \in {"settle", "sleep"}
        BY <2>2, AInvIs, TickGoes
      <3>3. cool' \in [Keys -> EntryType]
        BY <2>2, AInvIs, CoolIs
      <3> QED
        BY <3>1, <3>2, <3>3
    <2> QED
      BY <1>1, <2>1, <2>2 DEF Leads
  <1>5. ClockOk'
    BY <1>1, <1>4, AInvIs DEF ClockOk
  <1> QED
    BY <1>1, <1>2, <1>3, <1>4, <1>5, TickKeeps

LEMMA HeadTailIs ==
    ASSUME NEW S, NEW seq \in Seq(S), seq # <<>>
    PROVE  Head(seq) \in S /\ Tail(seq) \in Seq(S)
  OBVIOUS

\* worker.ts 770-806: what is paid is in the vault and in the queue, whatever
\* changed since the entry was read.
LEMMA SettlesInv ==
    ASSUME AInv, Settles
    PROVE  AInv'
  <1> DEFINE entry == Head(tick.ripe)
             n     == Payable(entry)
             paid  == n > 0 /\ MayFulfill(entry.who, n)
  <1>1. /\ UNCHANGED <<spot, perp, call, history, deployed, shares, navAge, cool, order, outage>>
        /\ tick.step = "settle" /\ tick.ripe # <<>> /\ tick' = [tick EXCEPT !.ripe = Tail(@)]
        /\ \/ /\ paid /\ cash' = [cash EXCEPT !.vault = @ - ToAssets(n)]
              /\ queue' = [queue EXCEPT ![entry.who].shares = @ - n]
              /\ supply' = supply - n
           \/ UNCHANGED <<cash, queue, supply>>
    BY DEF Settles, world, InTick
  <1>2. entry.who \in Users /\ entry.shares \in Nat
        /\ tick' \in TickType /\ tick'.step = "settle"
    <2>1. PICK rs \in Seq([who : Users, shares : Nat]) : rs = tick.ripe /\ rs # <<>>
      BY <1>1, AInvIs DEF TickOk, TickType
    <2>2. Head(rs) \in [who : Users, shares : Nat] /\ Tail(rs) \in Seq([who : Users, shares : Nat])
      BY <2>1, HeadTailIs
    <2>3. PICK rest \in Seq([who : Users, shares : Nat]) : rest = Tail(tick.ripe)
      BY <2>1, <2>2
    <2>4. tick' = [tick EXCEPT !.ripe = rest] /\ tick \in TickType
      BY <1>1, <2>3, AInvIs DEF TickOk
    <2>5. tick' \in TickType /\ tick'.step = "settle"
      BY <1>1, <2>4 DEF TickType
    <2> QED
      BY <2>1, <2>2, <2>5
  <1>3. call = Idle
    BY <1>1, NotInCall
  <1>4. CASE UNCHANGED <<cash, queue, supply>>
    <2>1. UNCHANGED vars
      BY <1>1, <1>4 DEF vars, history
    <2>2. ContractOk' /\ ClockOk'
      BY <1>1, <1>4, AInvIs, SharesStay DEF ClockOk, ContractOk
    <2> QED
      BY <1>1, <1>2, <1>3, <2>1, <2>2, QuietTick
  <1>5. CASE /\ paid /\ cash' = [cash EXCEPT !.vault = @ - ToAssets(n)]
             /\ queue' = [queue EXCEPT ![entry.who].shares = @ - n]
             /\ supply' = supply - n
    <2>1. n \in Nat
      <3>1. PICK asked \in Nat, free \in Nat : asked = entry.shares /\ free = cash["vault"]
        BY <1>2, AInvIs
      <3>2. n = IF asked <= free THEN asked ELSE (asked * free) \div asked
        BY <3>1 DEF Payable, EntryAssets
      <3>3. CASE asked <= free
        BY <3>2, <3>3
      <3>4. CASE ~(asked <= free)
        <4>1. asked \in Nat \ {0} /\ asked * free \in Nat
          BY <3>1, <3>4, Products
        <4>2. (asked * free) \div asked \in Nat
          BY <4>1, Quotient
        <4> QED
          BY <3>2, <3>4, <4>2
      <3> QED
        BY <3>3, <3>4
    <2>2. PICK u \in Users : u = entry.who
      BY <1>2
    <2>3. n <= queue[u].shares /\ ToAssets(n) <= cash["vault"]
      BY <1>5, <2>2 DEF MayFulfill
    <2> HIDE DEF entry, n, paid
    <2>4. PICK pay \in Nat : pay = ToAssets(n)
      <3>1. TotalAssets + 1 \in Nat /\ supply + 1 \in Nat \ {0}
        BY AInvIs DEF ContractOk
      <3>2. n * (TotalAssets + 1) \in Nat
        BY <2>1, <3>1, Products
      <3> QED
        BY <3>1, <3>2, Quotient DEF ToAssets
    <2>5. cash' \in [Places -> Nat]
      <3>1. PICK left \in Nat : left = cash["vault"] - pay
        BY <2>3, <2>4, AInvIs
      <3> QED
        BY <1>5, <2>4, <3>1, AInvIs DEF Places
    <2>6. CallInv'
      <3>1. /\ spot' \in [Markets -> Nat] /\ perp' \in [Markets -> Nat] /\ call' = call
            /\ \A m \in Markets : perp'[m] \in OnGrid
            /\ calls' = calls /\ faults' \subseteq AllFaults
            /\ unseen' \in BOOLEAN /\ doubled' \in BOOLEAN
        BY <1>1, AInvIs DEF CallInv, GridOk, TypeOK, history
      <3> QED
        BY <1>3, <2>5, <3>1, AInvIs, IdleStays
    <2>7. /\ queue \in [Users -> [shares : Nat, age : 0 .. UrgentAge]] /\ supply \in Nat
          /\ shares \in [Users -> Nat] /\ deployed \in Nat
          /\ supply = P!TotalOf(shares, Users) + P!TotalOf(Waiting, Users)
      BY AInvIs DEF ContractOk, Queued
    <2>8. /\ queue' \in [Users -> [shares : Nat, age : 0 .. UrgentAge]]
          /\ queue'[u].shares = queue[u].shares - n
          /\ \A v \in Users : v # u => queue'[v] = queue[v]
      <3>1. PICK k \in Nat : k = queue[u].shares - n
        BY <2>1, <2>3, <2>7
      <3>2. queue' = [queue EXCEPT ![u].shares = k]
        BY <1>5, <2>2, <3>1
      <3> QED
        BY <2>7, <3>1, <3>2
    <2>9. /\ Waiting' \in [Users -> Nat] /\ Waiting'[u] = Waiting[u] - n
          /\ \A v \in Users : v # u => Waiting'[v] = Waiting[v]
      BY <2>8 DEF Waiting
    <2>10. /\ supply' \in Nat
           /\ supply' = P!TotalOf(shares, Users) + P!TotalOf(Waiting', Users)
      <3>1. /\ P!TotalOf(Waiting', Users) + Waiting[u] = P!TotalOf(Waiting, Users) + Waiting'[u]
            /\ P!TotalOf(Waiting', Users) \in Nat /\ P!TotalOf(Waiting, Users) \in Nat
        BY <2>9, AInvIs, TotalOfChange
      <3>2. P!TotalOf(shares, Users) \in Nat
        <4>1. Users \in SUBSET Users
          OBVIOUS
        <4> QED
          BY <2>7, <4>1, AInvIs, TotalOfIs
      <3>3. Waiting[u] \in Nat /\ supply' = supply - n
        BY <1>5, AInvIs
      <3> QED
        BY <2>1, <2>7, <2>9, <3>1, <3>2, <3>3
    <2>11. ContractOk' /\ ClockOk'
      BY <1>1, <2>7, <2>8, <2>10, AInvIs DEF ContractOk, ClockOk, Queued
    <2> QED
      BY <1>1, <1>2, <1>3, <2>6, <2>11, TickKeeps
  <1> QED
    BY <1>1, <1>4, <1>5

-----------------------------------------------------------------------------
\* The invariant, and what follows from it.

LEMMA AgentInitInv ==
    ASSUME AgentInit
    PROVE  AInv
  <1>1. /\ Init /\ deployed = 0 /\ navAge = 0 /\ order = FALSE /\ tick = Asleep
        /\ shares = Stake /\ supply = P!TotalOf(Stake, Users)
        /\ queue = [u \in Users |-> NoRequest] /\ cool = [k \in Keys |-> Ready2Go]
    BY DEF AgentInit
  <1>2. CallInv /\ call = Idle
    BY <1>1, InitInv DEF VInv, Init
  <1>3. ContractOk
    <2>1. IsFiniteSet(Users) /\ Stake \in [Users -> Nat]
      BY AgentAssumption
    <2>2. UrgentAge \in Nat
      BY Configured
    <2>3. queue \in [Users -> [shares : Nat, age : 0 .. UrgentAge]]
      <3>1. NoRequest \in [shares : Nat, age : 0 .. UrgentAge]
        BY <2>2 DEF NoRequest
      <3> QED
        BY <1>1, <3>1
    <2>4. Waiting = [u \in Users |-> 0]
      BY <1>1 DEF Waiting, NoRequest
    <2>5. Queued(Users) = 0
      <3>1. [u \in Users |-> 0] \in [Users -> Nat]
            /\ [u \in Users |-> 0] = [u \in Users |-> [v \in Users |-> 0][u]]
        OBVIOUS
      <3>2. P!TotalOf([u \in Users |-> 0], Users) = Total([u \in Users |-> 0])
        BY <2>1, <3>1, TotalOfIs
      <3> QED
        BY <2>4, <3>2, TotalZero DEF Queued
    <2>6. P!TotalOf(Stake, Users) \in Nat
      <3>1. Users \in SUBSET Users
        OBVIOUS
      <3> QED
        BY <2>1, <3>1, TotalOfIs
    <2> QED
      BY <1>1, <2>1, <2>3, <2>5, <2>6 DEF ContractOk
  <1>4. ClockOk
    <2>1. Ready2Go \in EntryType
      BY Configured DEF Ready2Go, EntryType
    <2>2. StaleAge \in Nat
      BY Configured
    <2> QED
      BY <1>1, <2>1, <2>2 DEF ClockOk
  <1>5. TickOk /\ InCall /\ OwedKept
    <2>1. tick \in TickType /\ tick.step = "sleep"
      <3>1. PICK hold \in DecisionType : hold = P!Hold
        BY HoldIs
      <3> QED
        BY <1>1, <3>1 DEF Asleep, TickType
    <2> QED
      BY <1>2, <2>1 DEF TickOk, InCall, OwedKept, InTick
  <1>6. WorldOk
    <2>1. Outages \subseteq SUBSET AllFaults
      BY AgentAssumption
    <2>2. outage \in {{}} \/ outage \in Outages
      BY DEF AgentInit
    <2> QED
      BY <1>1, <2>1, <2>2 DEF WorldOk
  <1> QED
    BY <1>2, <1>3, <1>4, <1>5, <1>6 DEF AInv

LEMMA AgentNextInv ==
    ASSUME AInv, [AgentNext]_allVars
    PROVE  AInv'
  <1>1. CASE Proceeding
    BY <1>1, WakeInv, ReadsInv, WithdrawRevertsInv, ExecutesInv, RebalancesInv, AdapterInv,
       DiesInv, SettlesInv, TickEndsInv DEF Proceeding
  <1>2. CASE Decides
    BY <1>2, DecidesInv
  <1>3. CASE Environment
    BY <1>3, RequestInv, DepositInv, MarketMovesInv, OrdersInv DEF Environment
  <1>4. CASE Landing
    BY <1>4, LandingInv
  <1>5. CASE UNCHANGED allVars
    <2>1. CallInv'
      BY <1>5, AInvIs, StutterInv DEF allVars
    <2>2. UNCHANGED <<deployed, supply, shares, queue, navAge, cool, tick, order, outage>>
          /\ call' = call /\ cash' = cash
      BY <1>5 DEF allVars, agentVars, vars
    <2>3. ContractOk' /\ ClockOk'
      BY <2>2, AInvIs, SharesStay DEF ClockOk, ContractOk
    <2>4. Queued(Seen)' = Queued(Seen) /\ Queued(Seen) \in Nat
      BY <2>2, QueuedIs DEF Queued, Waiting, Seen
    <2> QED
      BY <2>1, <2>2, <2>3, <2>4, AInvIs, TickStays DEF WorldOk
  <1> QED
    BY <1>1, <1>2, <1>3, <1>4, <1>5 DEF AgentNext

\* AInv holds in every state of a vault and its agent.
THEOREM AgentInvariant == AgentSpec => []AInv
  <1>1. AgentInit => AInv
    BY AgentInitInv
  <1>2. AInv /\ [AgentNext]_allVars => AInv'
    BY AgentNextInv
  <1> QED
    BY <1>1, <1>2, PTL DEF AgentSpec

\* No balance goes below zero, every share is with a holder or in the queue, no
\* backoff outgrows its cap, and the tick is inside a call as long as the
\* adapter is.
THEOREM AgentTypes == AgentSpec => []AgentTypeOK
  <1>1. AInv => AgentTypeOK
    <2> SUFFICES ASSUME AInv PROVE AgentTypeOK
      OBVIOUS
    <2>1. tick.step \in {"sleep", "observe", "act", "execute", "call", "settle"}
      BY AInvIs DEF TickOk, TickType
    <2> QED
      BY <2>1, AInvIs DEF AgentTypeOK, ContractOk, ClockOk, EntryType, InCall, InTick
  <1> QED
    BY <1>1, AgentInvariant, PTL

\* policy.ts 1264-1274: what a tick draws from the vault leaves the requests it
\* has seen what they are worth, as long as a share is worth no more than a USDC.
THEOREM OwedIsKept == AgentSpec => OwedIsNotDeployed
  <1>1. ASSUME AInv, [AgentNext]_allVars, InTick("execute"), cash'.vault < cash.vault, ~Appreciated
        PROVE  cash'.vault >= ToAssets(Queued({u \in Users : queue[u].age > 0}))
    <2>1. FromVault(Chosen) /\ cash'["vault"] = cash["vault"] - Chosen.amount
      <3>1. cash' # cash /\ cash["vault"] \in Nat /\ tick.step = "execute"
        BY <1>1, AInvIs DEF InTick
      <3>2. CASE Proceeding
        <4>1. Executes
          BY <1>1, <3>1, <3>2
             DEF Proceeding, Wake, Idles, ObserveFails, Reports, ReportSkipped, ReportDisputed,
                 WithdrawReverts, Rebalances, Adapter, Dies, Settles, TickEnds, InTick, vars
        <4> QED
          BY <1>1, <3>1, <4>1, CallsInv DEF Executes
      <3>3. CASE Decides \/ UNCHANGED allVars
        BY <3>1, <3>3 DEF Decides, InTick, allVars, vars
      <3>4. CASE Environment
        <4>1. Request => cash' = cash
          BY DEF Request, vars
        <4>2. Orders => cash' = cash
          BY DEF Orders, vars
        <4>3. MarketMoves => cash'["vault"] = cash["vault"]
          BY <1>1, AInvIs DEF MarketMoves, Places
        <4>4. Deposit => cash'["vault"] \in Nat /\ cash["vault"] <= cash'["vault"]
          <5> SUFFICES ASSUME Deposit PROVE cash'["vault"] \in Nat /\ cash["vault"] <= cash'["vault"]
            OBVIOUS
          <5>1. PICK a \in Deposits : cash' = [cash EXCEPT !.vault = @ + a]
            BY DEF Deposit
          <5>2. a \in Nat
            BY AgentAssumption
          <5> QED
            BY <1>1, <3>1, <5>1, <5>2, AInvIs DEF Places
        <4> QED
          BY <1>1, <3>1, <3>4, <4>1, <4>2, <4>3, <4>4 DEF Environment
      <3>5. CASE Landing
        BY <1>1, <3>1, <3>5, LandsElsewhere DEF Landing
      <3> QED
        BY <1>1, <3>2, <3>3, <3>4, <3>5 DEF AgentNext
    <2>2. PICK q \in Nat : q = Queued(Seen)
      BY <1>1, QueuedIs DEF Seen
    <2>3. q <= cash'["vault"]
      <3>1. Chosen.amount + q <= cash["vault"] /\ Chosen.amount \in Nat /\ cash["vault"] \in Nat
        BY <1>1, <2>1, <2>2, AInvIs, ChosenIs DEF OwedKept
      <3> QED
        BY <2>1, <3>1
    <2>4. ToAssets(q) <= q
      <3>1. PICK t \in Nat, n \in Nat : t = TotalAssets + 1 /\ n = supply + 1 /\ t <= n /\ n # 0
        BY <1>1, AInvIs DEF Appreciated, ContractOk
      <3>2. q * t \in Nat /\ q * n \in Nat /\ q * t <= q * n
        <4>1. t * q \in Nat /\ n * q \in Nat /\ t * q <= n * q /\ q * t = t * q /\ q * n = n * q
          BY <3>1, Products
        <4> QED
          BY <4>1
      <3>3. ToAssets(q) = (q * t) \div n
        BY <3>1 DEF ToAssets
      <3>4. (q * t) \div n \in Nat /\ ((q * t) \div n) * n <= q * t
        BY <3>1, <3>2, Quotient
      <3>5. PICK k \in Nat : k = (q * t) \div n
        BY <3>4
      <3>6. k * n <= q * n /\ k * n \in Nat
        BY <3>1, <3>2, <3>4, <3>5, Products
      <3>7. k <= q
        BY <3>1, <3>6, ProductsCancel
      <3> QED
        BY <3>3, <3>5, <3>7
    <2>5. cash'["vault"] \in Int /\ ToAssets(q) \in Int
      <3>1. TotalAssets + 1 \in Nat /\ supply + 1 \in Nat \ {0}
        BY <1>1, AInvIs DEF ContractOk
      <3>2. q * (TotalAssets + 1) \in Nat
        BY <3>1, Products
      <3>3. ToAssets(q) \in Nat
        BY <3>1, <3>2, Quotient DEF ToAssets
      <3> QED
        BY <1>1, <2>1, <3>3, AInvIs, ChosenIs
    <2> QED
      BY <2>2, <2>3, <2>4, <2>5 DEF Seen
  <1>2. AInv /\ [AgentNext]_allVars
          => [InTick("execute") /\ cash'.vault < cash.vault /\ ~Appreciated
                => cash'.vault >= ToAssets(Queued({u \in Users : queue[u].age > 0}))]_allVars
    BY <1>1
  <1> QED
    BY <1>2, AgentInvariant, PTL DEF AgentSpec, OwedIsNotDeployed

-----------------------------------------------------------------------------
\* The adapter's guarantees inside of the agent: its calls are the tick's, the
\* market moves the margin under them, and the queue is paid between them.

\* No return names a number the wallet does not hold.
THEOREM AgentReturnsAreFunded == AgentSpec => []ProceedsInHand
  <1>1. AInv => ProceedsInHand
    BY AInvIs, ReturnFunded
  <1> QED
    BY <1>1, AgentInvariant, PTL

\* What an order and a close do, whatever happened between the call's steps.
LEMMA AdapterSteps ==
    ASSUME AInv
    PROVE  /\ Short /\ WithinLeverage(perp, cash.margin - call.backing)
                => WithinLeverage(perp', cash'.margin)
           /\ ReturnAll /\ call.op = "closeAll" /\ call.failures = 0
                => spot' = NoPlan /\ perp' = NoPlan /\ cash'.margin = 0
  BY AInvIs, ShortKeepsLeverage, CloseIsFlat

\* A deployment sized to the margin that arrived keeps the account within its
\* leverage, in a market that has moved against it too.
THEOREM AgentKeepsLeverage == AgentSpec => DeploysWithinLeverage
  <1>1. AInv
          => [Short /\ WithinLeverage(perp, cash.margin - call.backing)
                => WithinLeverage(perp', cash'.margin)]_vars
    BY AdapterSteps
  <1> QED
    BY <1>1, AgentInvariant, PTL DEF AgentSpec, DeploysWithinLeverage

\* An operator's close that reports no failure has left the vault flat.
THEOREM AgentClosesAreFlat == AgentSpec => FlatAfterClose
  <1>1. AInv
          => [ReturnAll /\ call.op = "closeAll" /\ call.failures = 0
                => spot' = NoPlan /\ perp' = NoPlan /\ cash'.margin = 0]_vars
    BY AdapterSteps
  <1> QED
    BY <1>1, AgentInvariant, PTL DEF AgentSpec, FlatAfterClose

\* policy.ts 508-731, 1264-1274, 1387-1426: whatever is queued, held, priced and
\* ordered, and whether or not an advisor picks, there is a decision, it can be
\* carried out, and what it draws from the vault is free, not promised to the
\* queue and within the share of the assets that may be out.
THEOREM DecisionsAreAffordable ==
    ASSUME NEW s \in SnapshotType, NEW asked
    PROVE  P!Decisions(s, asked) \subseteq Affordable(s) /\ P!Decisions(s, asked) # {}
  <1>1. P!Decisions(s, asked) \subseteq Affordable(s)
    BY DecisionsAre
  <1>2. P!Decisions(s, asked) # {}
    <2>1. P!PermittedActions(s) \in Seq(Affordable(s)) /\ P!PermittedActions(s) # <<>>
      BY PermittedAre
    <2>2. 1 \in DOMAIN P!PermittedActions(s)
      BY <2>1
    <2>3. P!Range(P!PermittedActions(s)) # {}
      BY <2>2 DEF P!Range
    <2> QED
      BY <2>3 DEF P!Decisions, P!Advice
  <1> QED
    BY <1>1, <1>2
=============================================================================
