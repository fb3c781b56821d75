---------------------------- MODULE SumTheorems -----------------------------
(***************************************************************************)
(* Facts about Sums: the sum of a function from a finite set to the        *)
(* naturals, by the cardinality of the units it hands out.  The ledgers of *)
(* the vault and the rows of the bridge are both counted with it.          *)
(***************************************************************************)
EXTENDS Sums, Integers, FiniteSetTheorems, TLAPS

\* The units of one account are as many as its balance.
LEMMA OwnUnits ==
    ASSUME NEW x, NEW n \in Nat
    PROVE  /\ IsFiniteSet({x} \X (1 .. n))
           /\ Cardinality({x} \X (1 .. n)) = n
  <1>1. IsFiniteSet({x}) /\ Cardinality({x}) = 1
    BY FS_Singleton
  <1>2. IsFiniteSet(1 .. n) /\ Cardinality(1 .. n) = n
    <2>1. /\ IsFiniteSet(1 .. n)
          /\ Cardinality(1 .. n) = IF 1 > n THEN 0 ELSE n - 1 + 1
      BY FS_Interval
    <2> QED
      BY <2>1
  <1>3. /\ IsFiniteSet({x} \X (1 .. n))
        /\ Cardinality({x} \X (1 .. n)) = Cardinality({x}) * Cardinality(1 .. n)
    BY <1>1, <1>2, FS_Product
  <1> QED
    BY <1>1, <1>2, <1>3

\* A ledger over finitely many accounts hands out finitely many units.
LEMMA UnitsFinite ==
    ASSUME NEW S, IsFiniteSet(S), NEW f \in [S -> Nat]
    PROVE  IsFiniteSet(Units(f))
  <1> DEFINE T == {{x} \X (1 .. f[x]) : x \in S}
             g == [x \in S |-> {x} \X (1 .. f[x])]
  <1>1. g \in Surjection(S, T)
    BY DEF Surjection
  <1>2. IsFiniteSet(T)
    BY <1>1, FS_Surjection
  <1>3. ASSUME NEW x \in S PROVE IsFiniteSet({x} \X (1 .. f[x]))
    BY OwnUnits
  <1>4. \A U \in T : IsFiniteSet(U)
    BY <1>3
  <1>5. IsFiniteSet(UNION T)
    BY <1>2, <1>4, FS_UNION
  <1> QED
    BY <1>5 DEF Units

\* The total of a ledger is a natural.
LEMMA TotalNat ==
    ASSUME NEW S, IsFiniteSet(S), NEW f \in [S -> Nat]
    PROVE  Total(f) \in Nat
  BY UnitsFinite, FS_CardinalityType DEF Total

\* No account holds more than the total.
LEMMA TotalCovers ==
    ASSUME NEW S, IsFiniteSet(S), NEW f \in [S -> Nat], NEW x \in S
    PROVE  f[x] <= Total(f)
  <1>1. {x} \X (1 .. f[x]) \subseteq Units(f)
    BY DEF Units
  <1>2. IsFiniteSet(Units(f))
    BY UnitsFinite
  <1>3. Cardinality({x} \X (1 .. f[x])) = f[x]
    BY OwnUnits
  <1> QED
    BY <1>1, <1>2, <1>3, FS_Subset DEF Total

\* An empty ledger totals zero.
LEMMA TotalZero ==
    ASSUME NEW S
    PROVE  Total([x \in S |-> 0]) = 0
  <1>1. Units([x \in S |-> 0]) = {}
    BY DEF Units
  <1> QED
    BY <1>1, FS_EmptySet DEF Total

\* The units of disjoint sets add up.
LEMMA DisjointUnion ==
    ASSUME NEW S, IsFiniteSet(S), NEW T, IsFiniteSet(T), S \cap T = {}
    PROVE  Cardinality(S \cup T) = Cardinality(S) + Cardinality(T)
  <1>1. Cardinality(S \cup T) = Cardinality(S) + Cardinality(T) - Cardinality(S \cap T)
    BY FS_Union
  <1>2. Cardinality(S \cap T) = 0
    BY FS_EmptySet
  <1>3. Cardinality(S) \in Nat /\ Cardinality(T) \in Nat
    BY FS_CardinalityType
  <1> QED
    BY <1>1, <1>2, <1>3

\* A change to one account changes the total by the same amount.
LEMMA TotalChange ==
    ASSUME NEW S, IsFiniteSet(S), NEW f \in [S -> Nat], NEW g \in [S -> Nat], NEW x \in S,
           \A y \in S : y # x => g[y] = f[y]
    PROVE  Total(g) + f[x] = Total(f) + g[x]
  <1> DEFINE rest == {p \in Units(f) : p[1] # x}
             old == {x} \X (1 .. f[x])
             new == {x} \X (1 .. g[x])
  <1>1. Units(f) = rest \cup old /\ rest \cap old = {}
    BY DEF Units
  <1>2. Units(g) = rest \cup new /\ rest \cap new = {}
    <2>1. \A p : p \in Units(f) <=> \E y \in S : p \in {y} \X (1 .. f[y])
      BY DEF Units
    <2>2. \A p : p \in Units(g) <=> \E y \in S : p \in {y} \X (1 .. g[y])
      BY DEF Units
    <2> QED
      BY <2>1, <2>2
  <1>3. IsFiniteSet(rest) /\ Cardinality(rest) \in Nat
    BY UnitsFinite, FS_Subset, FS_CardinalityType
  <1>4. /\ IsFiniteSet(old) /\ Cardinality(old) = f[x]
        /\ IsFiniteSet(new) /\ Cardinality(new) = g[x]
    BY OwnUnits
  <1>5. Cardinality(rest \cup old) = Cardinality(rest) + f[x]
    BY <1>1, <1>3, <1>4, DisjointUnion
  <1>6. Cardinality(rest \cup new) = Cardinality(rest) + g[x]
    BY <1>2, <1>3, <1>4, DisjointUnion
  <1>7. Total(f) = Cardinality(rest) + f[x]
    BY <1>1, <1>5 DEF Total
  <1>8. Total(g) = Cardinality(rest) + g[x]
    BY <1>2, <1>6 DEF Total
  <1> QED
    BY <1>3, <1>7, <1>8

\* A function with no more anywhere has no more in total, even on a smaller domain.
LEMMA TotalLe ==
    ASSUME NEW S, IsFiniteSet(S), NEW T, IsFiniteSet(T),
           NEW f \in [S -> Nat], NEW g \in [T -> Nat],
           \A x \in S : f[x] > 0 => x \in T /\ f[x] <= g[x]
    PROVE  Total(f) <= Total(g)
  <1>1. ASSUME NEW p \in Units(f) PROVE p \in Units(g)
    <2>1. PICK x \in S : p \in {x} \X (1 .. f[x])
      BY DEF Units
    <2>2. p[1] = x /\ p[2] \in 1 .. f[x] /\ p = <<p[1], p[2]>>
      BY <2>1
    <2>3. f[x] \in Nat /\ f[x] > 0
      BY <2>2
    <2>4. x \in T /\ g[x] \in Nat /\ f[x] <= g[x]
      BY <2>3
    <2>5. p[2] \in 1 .. g[x]
      BY <2>2, <2>3, <2>4
    <2>6. p \in {x} \X (1 .. g[x])
      BY <2>2, <2>5
    <2> QED
      BY <2>4, <2>6 DEF Units
  <1>2. IsFiniteSet(Units(f)) /\ IsFiniteSet(Units(g))
    BY UnitsFinite
  <1> QED
    BY <1>1, <1>2, FS_Subset, FS_CardinalityType DEF Total

\* A new entry adds its value to the total.
LEMMA TotalExtend ==
    ASSUME NEW S, IsFiniteSet(S), NEW f \in [S -> Nat], NEW x, x \notin S,
           NEW T, T = S \cup {x}, NEW g \in [T -> Nat], \A y \in S : g[y] = f[y]
    PROVE  Total(g) = Total(f) + g[x]
  <1> DEFINE new == {x} \X (1 .. g[x])
  <1>1. Units(g) = Units(f) \cup new
    <2>1. \A p : p \in Units(f) <=> \E y \in S : p \in {y} \X (1 .. f[y])
      BY DEF Units
    <2>2. \A p : p \in Units(g) <=> \E y \in S \cup {x} : p \in {y} \X (1 .. g[y])
      BY DEF Units
    <2> QED
      BY <2>1, <2>2
  <1>2. Units(f) \cap new = {}
    BY DEF Units
  <1>3. IsFiniteSet(Units(f)) /\ IsFiniteSet(new) /\ Cardinality(new) = g[x]
    BY UnitsFinite, OwnUnits
  <1>4. Cardinality(Units(f) \cup new) = Cardinality(Units(f)) + Cardinality(new)
    BY <1>2, <1>3, DisjointUnion
  <1> QED
    BY <1>1, <1>3, <1>4 DEF Total

\* What one entry gains, the total gains.
LEMMA TotalGains ==
    ASSUME NEW S, IsFiniteSet(S), NEW f \in [S -> Nat], NEW g \in [S -> Nat], NEW x \in S,
           NEW n \in Nat, g[x] = f[x] + n, \A y \in S : y # x => g[y] = f[y]
    PROVE  Total(g) = Total(f) + n
  <1>1. Total(g) + f[x] = Total(f) + g[x]
    BY TotalChange
  <1>2. Total(g) \in Nat /\ Total(f) \in Nat /\ f[x] \in Nat
    BY TotalNat
  <1> QED
    BY <1>1, <1>2

\* The total over a part of the entries.
PartTotal(f, B) == Total([u \in B |-> f[u]])

\* What one entry gains, the total of every part with that entry gains.
LEMMA PartGains ==
    ASSUME NEW A, NEW d \in [A -> Nat], NEW e \in [A -> Nat],
           NEW B \in SUBSET A, IsFiniteSet(B), NEW x \in B, NEW n \in Nat,
           e[x] = d[x] + n, \A y \in A : y # x => e[y] = d[y]
    PROVE  PartTotal(e, B) = PartTotal(d, B) + n
  <1> DEFINE before == [u \in B |-> d[u]]
             after  == [u \in B |-> e[u]]
  <1>1. /\ before \in [B -> Nat] /\ after \in [B -> Nat] /\ after[x] = before[x] + n
        /\ \A y \in B : y # x => after[y] = before[y]
    OBVIOUS
  <1> HIDE DEF before, after
  <1>2. Total(after) = Total(before) + n
    BY <1>1, TotalGains
  <1> QED
    BY <1>2 DEF before, after, PartTotal
=============================================================================
