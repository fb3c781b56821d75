---------------------------- MODULE VenueProofs -----------------------------
(***************************************************************************)
(* Theorems about Venue, for any markets and weights, any amounts, losses, *)
(* slips, lots and leverages, and any number of calls in any order, each   *)
(* step of which may fail.                                                 *)
(*                                                                         *)
(* The inductive invariant VInv adds to the types what a call carries from *)
(* one await to the next.  CallInv is about the call itself: which         *)
(* operation a step belongs to, what it is about to pay out, the size of   *)
(* its order, the grid of lots, what a close has emptied so far.  BooksInv *)
(* is about the account the calls share: the margin that still carries the *)
(* shorts, the spot behind them, the rows of the record.  Every step is    *)
(* shown to keep CallInv by itself, since Agent's market moves the margin  *)
(* under a call (AgentProofs), and to keep BooksInv with it.               *)
(***************************************************************************)
EXTENDS Venue, SumTheorems, SequenceTheorems, TLAPS

-----------------------------------------------------------------------------
\* Finite sets, and folds over them.

\* A set of naturals with zero and all successors is all of them.
LEMMA SetInduction ==
    ASSUME NEW S, S \subseteq Nat, 0 \in S, \A n \in S : n + 1 \in S
    PROVE  S = Nat
  <1> SUFFICES ASSUME NEW n \in Nat, n \notin S PROVE FALSE
    OBVIOUS
  <1> DEFINE A == S \cap (0 .. n)
             f == [x \in A |-> x + 1]
  <1>1. IsFiniteSet(A)
    <2>1. IsFiniteSet(0 .. n)
      BY FS_Interval
    <2> QED
      BY <2>1, FS_Intersection
  <1>2. f \in Injection(A, A)
    BY DEF Injection, IsInjective
  <1>3. f \in Surjection(A, A)
    <2> HIDE DEF A, f
    <2> QED
      BY <1>1, <1>2, FS_Injection
  <1>4. 0 \in A
    OBVIOUS
  <1>5. \A x \in A : f[x] # 0
    OBVIOUS
  <1> QED
    BY <1>3, <1>4, <1>5 DEF Surjection

\* What removing some element leads to from every part of a finite set, all parts are.
LEMMA PartInduction ==
    ASSUME NEW D, IsFiniteSet(D), NEW G, {} \in G,
           \A s \in SUBSET D : s # {} => \E x \in s : (s \ {x} \in G => s \in G)
    PROVE  \A s \in SUBSET D : s \in G
  <1> DEFINE N == {n \in Nat : \A s \in SUBSET D : Cardinality(s) = n => s \in G}
  <1>1. \A s \in SUBSET D : IsFiniteSet(s) /\ Cardinality(s) \in Nat
    BY FS_Subset, FS_CardinalityType
  <1>2. 0 \in N
    <2>1. \A s \in SUBSET D : Cardinality(s) = 0 => s = {}
      BY <1>1, FS_EmptySet
    <2> QED
      BY <2>1
  <1>3. ASSUME NEW n \in N PROVE n + 1 \in N
    <2> SUFFICES ASSUME NEW s \in SUBSET D, Cardinality(s) = n + 1 PROVE s \in G
      OBVIOUS
    <2>1. n \in Nat /\ s # {}
      BY <1>1, FS_EmptySet
    <2>2. PICK x \in s : s \ {x} \in G => s \in G
      BY <2>1
    <2>3. Cardinality(s \ {x}) = n
      <3>1. Cardinality(s \ {x}) = Cardinality(s) - 1
        BY <1>1, FS_RemoveElement
      <3> QED
        BY <2>1, <3>1
    <2>4. s \ {x} \in SUBSET D
      OBVIOUS
    <2> QED
      BY <2>2, <2>3, <2>4
  <1>4. N \subseteq Nat
    OBVIOUS
  <1>5. N = Nat
    <2> HIDE DEF N
    <2> QED
      BY <1>2, <1>3, <1>4, SetInduction
  <1> QED
    BY <1>1, <1>5

\* What h makes of every part of D: of a part, step of what picks from it and of the rest.
Folded(D, base, pick, step, h) ==
    \A s \in SUBSET D :
        h[s] = IF s = {} THEN base ELSE step[<<pick[s], h[s \ {pick[s]}]>>]

\* A function can be built along any way of taking a finite set apart.
LEMMA FoldExists ==
    ASSUME NEW D, IsFiniteSet(D), NEW V, NEW base \in V,
           NEW pick \in [SUBSET D -> D \cup {D}], \A s \in SUBSET D : s # {} => pick[s] \in s,
           NEW step \in [D \X V -> V]
    PROVE  \E h \in [SUBSET D -> V] : Folded(D, base, pick, step, h)
  <1> DEFINE Small(n) == {s \in SUBSET D : Cardinality(s) <= n}
             Built(n, h) == \A s \in Small(n) :
                 h[s] = IF s = {} THEN base ELSE step[<<pick[s], h[s \ {pick[s]}]>>]
             N == {n \in Nat : \E h \in [SUBSET D -> V] : Built(n, h)}
  <1>1. \A s \in SUBSET D : IsFiniteSet(s) /\ Cardinality(s) \in Nat
    BY FS_Subset, FS_CardinalityType
  <1>2. \A s \in SUBSET D : s # {} => /\ s \ {pick[s]} \in SUBSET D
                                      /\ Cardinality(s \ {pick[s]}) = Cardinality(s) - 1
    BY <1>1, FS_RemoveElement
  <1>3. 0 \in N
    <2>1. \A s \in Small(0) : s = {}
      BY <1>1, FS_EmptySet
    <2>2. Built(0, [s \in SUBSET D |-> base])
      BY <2>1
    <2>3. [s \in SUBSET D |-> base] \in [SUBSET D -> V]
      OBVIOUS
    <2> HIDE DEF Built
    <2> QED
      BY <2>2, <2>3
  <1>4. ASSUME NEW n \in N PROVE n + 1 \in N
    <2>1. PICK h \in [SUBSET D -> V] : Built(n, h)
      OBVIOUS
    <2>n. n \in Nat
      OBVIOUS
    <2> DEFINE k == [s \in SUBSET D |->
                        IF s = {} THEN base ELSE step[<<pick[s], h[s \ {pick[s]}]>>]]
    <2>2. k \in [SUBSET D -> V]
      <3>1. ASSUME NEW s \in SUBSET D, s # {}
            PROVE  step[<<pick[s], h[s \ {pick[s]}]>>] \in V
        <4>1. pick[s] \in D /\ h[s \ {pick[s]}] \in V
          BY <1>2, <3>1
        <4> QED
          BY <4>1
      <3> QED
        BY <3>1
    <2>3. \A s \in Small(n) : k[s] = h[s]
      BY <2>1
    <2>4. Built(n + 1, k)
      <3> SUFFICES ASSUME NEW s \in Small(n + 1), s # {}
                   PROVE  k[s \ {pick[s]}] = h[s \ {pick[s]}]
        OBVIOUS
      <3>1. s \ {pick[s]} \in Small(n)
        <4>1. Cardinality(s) <= n + 1 /\ Cardinality(s) \in Nat
          BY <1>1
        <4>2. Cardinality(s \ {pick[s]}) = Cardinality(s) - 1 /\ s \ {pick[s]} \in SUBSET D
          BY <1>2
        <4> QED
          BY <2>n, <4>1, <4>2
      <3> QED
        BY <2>3, <3>1
    <2> HIDE DEF k, Built
    <2> QED
      BY <2>n, <2>2, <2>4
  <1>5. N = Nat
    <2>1. N \subseteq Nat
      OBVIOUS
    <2> HIDE DEF N
    <2> QED
      BY <1>3, <1>4, <2>1, SetInduction
  <1>6. PICK n \in Nat : n = Cardinality(D)
    BY FS_CardinalityType
  <1>7. PICK h \in [SUBSET D -> V] : Built(n, h)
    BY <1>5
  <1>8. \A s \in SUBSET D : s \in Small(n)
    BY <1>1, <1>6, FS_Subset
  <1> QED
    BY <1>7, <1>8 DEF Folded

\* Markets are finitely many.
LEMMA MarketsFinite ==
    IsFiniteSet(Markets) /\ Markets # {} /\ DOMAIN MarketOrder = 1 .. Len(MarketOrder)
  <1>1. MarketOrder \in Seq(Markets)
    BY VenueAssumption
  <1>2. DOMAIN MarketOrder = 1 .. Len(MarketOrder) /\ Len(MarketOrder) \in Nat
    BY <1>1
  <1>3. IsFiniteSet(DOMAIN MarketOrder)
    BY <1>2, FS_Interval
  <1>4. MarketOrder \in Surjection(DOMAIN MarketOrder, Markets)
    BY <1>1 DEF Surjection, Markets, Range
  <1>5. IsFiniteSet(Markets)
    BY <1>3, <1>4, FS_Surjection
  <1> QED
    BY <1>1, <1>2, <1>5, VenueAssumption DEF Markets, Range

\* The sum over a part of the domain.
SumOver(f, part) == MapThenSumSet(LAMBDA m : f[m], part)

\* The sums of the model are totals, to which SumTheorems applies.
LEMMA SumIsTotal ==
    ASSUME NEW S, IsFiniteSet(S), NEW f \in [S -> Nat], NEW D \in SUBSET S
    PROVE  SumOver(f, D) = Total([m \in D |-> f[m]])
  <1> DEFINE Step(g) == [s \in SUBSET D |->
                          IF s = {} THEN 0
                          ELSE f[CHOOSE x \in s : TRUE] + g[s \ {CHOOSE x \in s : TRUE}]]
             iter == CHOOSE g : g = Step(g)
             part == [s \in SUBSET D |-> Total([m \in s |-> f[m]])]
  <1>0. IsFiniteSet(D)
    BY FS_Subset
  <1>1. SumOver(f, D) = iter[D]
    BY DEF SumOver, MapThenSumSet, MapThenFoldSet
  <1>2. ASSUME NEW s \in SUBSET D, NEW x \in s
        PROVE  Total([m \in s |-> f[m]]) = f[x] + Total([m \in s \ {x} |-> f[m]])
    <2> DEFINE rest == s \ {x}
               g == [m \in s |-> f[m]]
               h == [m \in rest |-> f[m]]
    <2>1. IsFiniteSet(rest) /\ x \notin rest /\ s = rest \cup {x}
      BY <1>0, FS_Subset
    <2>2. /\ g \in [s -> Nat] /\ h \in [rest -> Nat] /\ g[x] = f[x]
          /\ \A y \in rest : g[y] = h[y]
      OBVIOUS
    <2> HIDE DEF rest, g, h
    <2>3. Total(h) \in Nat /\ g[x] \in Nat
      BY <2>1, <2>2, TotalNat
    <2>4. Total(g) = Total(h) + g[x]
      BY <2>1, <2>2, TotalExtend, SMTT(30)
    <2> QED
      BY <2>2, <2>3, <2>4 DEF rest, g, h
  <1>3. Total([m \in {} |-> f[m]]) = 0
    <2>1. [m \in {} |-> f[m]] = [m \in {} |-> 0]
      OBVIOUS
    <2> QED
      BY <2>1, TotalZero
  <1>4. part = Step(part)
    <2> SUFFICES ASSUME NEW s \in SUBSET D PROVE part[s] = Step(part)[s]
      OBVIOUS
    <2>1. CASE s = {}
      BY <1>3, <2>1
    <2>2. CASE s # {}
      <3>1. PICK x \in s : x = CHOOSE y \in s : TRUE
        BY <2>2
      <3>2. part[s] = f[x] + part[s \ {x}]
        BY <1>2
      <3> HIDE DEF part
      <3> QED
        BY <2>2, <3>1, <3>2
    <2> QED
      BY <2>1, <2>2
  <1>5. iter = Step(iter)
    <2> HIDE DEF part, Step
    <2> QED
      BY <1>4
  <1>6. \A s \in SUBSET D : iter[s] = part[s]
    <2> DEFINE G == {s \in SUBSET D : iter[s] = part[s]}
    <2>1. {} \in G
      <3>1. iter[{}] = 0
        <4> HIDE DEF iter
        <4> QED
          BY <1>5
      <3> QED
        BY <1>3, <3>1
    <2>2. ASSUME NEW s \in SUBSET D, s # {}
          PROVE  \E x \in s : (s \ {x} \in G => s \in G)
      <3>1. PICK x \in s : x = CHOOSE y \in s : TRUE
        BY <2>2
      <3>2. iter[s] = f[x] + iter[s \ {x}]
        <4> HIDE DEF iter
        <4> QED
          BY <1>5, <2>2, <3>1
      <3>3. part[s] = f[x] + part[s \ {x}]
        BY <1>2
      <3> HIDE DEF iter, part
      <3> QED
        BY <3>2, <3>3
    <2> HIDE DEF iter, part, G
    <2>3. \A s \in SUBSET D : s \in G
      BY <2>1, <2>2, <1>0, PartInduction
    <2> QED
      BY <2>3 DEF G
  <1>7. iter[D] = Total([m \in D |-> f[m]])
    <2> HIDE DEF iter
    <2> QED
      BY <1>6
  <1> QED
    BY <1>1, <1>7

\* The sum over all of them.
LEMMA SigmaTotal ==
    ASSUME NEW f \in [Markets -> Nat]
    PROVE  Sigma(f) = Total(f)
  <1>1. Sigma(f) = SumOver(f, Markets)
    BY DEF Sigma, SumOver
  <1>2. f = [m \in Markets |-> f[m]]
    OBVIOUS
  <1> QED
    BY <1>1, <1>2, MarketsFinite, SumIsTotal


\* Each market has its own place in the configuration.
LEMMA PlaceIs ==
    ASSUME NEW m \in Markets
    PROVE  /\ Place(m) \in DOMAIN MarketOrder /\ Place(m) \in Nat \ {0}
           /\ MarketOrder[Place(m)] = m
  <1>1. \E i \in DOMAIN MarketOrder : MarketOrder[i] = m
    BY DEF Markets, Range
  <1> QED
    BY <1>1, MarketsFinite DEF Place

\* The order of a pass is total: some market of every set comes last.
LEMMA HindmostExists ==
    ASSUME NEW size \in [Markets -> Int]
    PROVE  \A s \in SUBSET Markets : s # {} => Hindmost(size, s) \in s
  <1> DEFINE Is(s, x) == \A o \in s \ {x} : Precedes(size, o, x)
             G == {s \in SUBSET Markets : s # {} => \E x \in s : Is(s, x)}
  <1>1. \A a, b \in Markets : a # b => Precedes(size, a, b) \/ Precedes(size, b, a)
    BY PlaceIs DEF Precedes
  <1>2. \A a, b, c \in Markets : Precedes(size, a, b) /\ Precedes(size, b, c) => Precedes(size, a, c)
    BY PlaceIs DEF Precedes
  <1>3. ASSUME NEW s \in SUBSET Markets, s # {} PROVE \E x \in s : (s \ {x} \in G => s \in G)
    <2>1. PICK x \in s : TRUE
      BY <1>3
    <2>2. ASSUME s \ {x} \in G PROVE \E z \in s : Is(s, z)
      <3>1. CASE s \ {x} = {}
        BY <3>1
      <3>2. CASE s \ {x} # {}
        <4>1. PICK z \in s \ {x} : Is(s \ {x}, z)
          BY <2>2, <3>2
        <4>2. CASE Precedes(size, z, x)
          <5>1. ASSUME NEW o \in s \ {x} PROVE Precedes(size, o, x)
            BY <1>2, <4>1, <4>2
          <5> QED
            BY <5>1
        <4>3. CASE Precedes(size, x, z)
          <5>1. ASSUME NEW o \in s \ {z} PROVE Precedes(size, o, z)
            BY <4>1, <4>3
          <5> QED
            BY <5>1
        <4> QED
          BY <1>1, <4>2, <4>3
      <3> QED
        BY <3>1, <3>2
    <2> QED
      BY <2>1, <2>2
  <1>4. {} \in G
    OBVIOUS
  <1>5. \A s \in SUBSET Markets : s \in G
    <2> HIDE DEF G
    <2> QED
      BY <1>3, <1>4, MarketsFinite, PartInduction
  <1>6. \A s \in SUBSET Markets : s # {} => \E x \in s : Is(s, x)
    BY <1>5
  <1> QED
    BY <1>6 DEF Hindmost

\* What a pass makes of a market, given what it took from the ones before.
Taken(limit, floor, amount, taken, m) ==
    LET take == Least(amount - Sigma(taken), limit[m])
    IN  IF take < floor THEN taken ELSE [taken EXCEPT ![m] = @ + take]

\* What h makes of every part of D: of a part, what taking from one of its
\* markets makes of the rest.
Passed(D, limit, floor, sofar, amount, h) ==
    /\ h[{}] = sofar
    /\ \A s \in SUBSET D : s # {} =>
          \E m \in s : h[s] = Taken(limit, floor, amount, h[s \ {m}], m)

\* One outcome for every part of D.
Outcomes(D) == [SUBSET D -> [Markets -> Nat]]

\* The pass is the outcome of all of D.
Result(size, D, limit, floor, sofar, amount, h) ==
    Pass(size, D, limit, floor, sofar, amount) = h[D]

\* A market's turn leaves a natural for every market.
LEMMA TakenTyped ==
    ASSUME NEW limit \in [Markets -> Int], NEW floor \in Nat, NEW amount \in Nat,
           NEW taken \in [Markets -> Nat], NEW m \in Markets
    PROVE  Taken(limit, floor, amount, taken, m) \in [Markets -> Nat]
  <1>1. Sigma(taken) \in Nat
    BY MarketsFinite, SigmaTotal, TotalNat
  <1> PICK take : take = Least(amount - Sigma(taken), limit[m])
    OBVIOUS
  <1>2. take \in Int
    BY <1>1 DEF Least
  <1>3. CASE take < floor
    BY <1>3 DEF Taken
  <1>4. CASE ~(take < floor)
    <2>1. taken[m] + take \in Nat
      BY <1>2, <1>4
    <2>2. [taken EXCEPT ![m] = taken[m] + take] \in [Markets -> Nat]
      BY <2>1
    <2> QED
      BY <1>4, <2>2 DEF Taken
  <1> QED
    BY <1>3, <1>4

\* A pass takes from one market after the other, in whatever order.
LEMMA PassIs ==
    ASSUME NEW size \in [Markets -> Int], NEW D \in SUBSET Markets,
           NEW limit \in [Markets -> Int], NEW floor \in Nat, NEW sofar \in [Markets -> Nat],
           NEW amount \in Nat
    PROVE  \E h \in Outcomes(D) :
              /\ Passed(D, limit, floor, sofar, amount, h)
              /\ Result(size, D, limit, floor, sofar, amount, h)
  <1> DEFINE V == [Markets -> Nat]
             last(s) == Hindmost(size, s)
             Take(taken, m) == Taken(limit, floor, amount, taken, m)
             Step(g) == [s \in SUBSET D |->
                            IF s = {} THEN sofar
                            ELSE Take(g[s \ {last(s)}], last(s))]
             iter == CHOOSE g : g = Step(g)
             pick == [s \in SUBSET D |-> IF s = {} THEN D ELSE last(s)]
             step == [p \in D \X V |-> Take(p[2], p[1])]
  <1>1. Pass(size, D, limit, floor, sofar, amount) = iter[D]
    BY DEF Pass, MapThenFoldSet, Taken
  <1>2. IsFiniteSet(D)
    BY MarketsFinite, FS_Subset
  <1>3. \A s \in SUBSET D : s # {} => last(s) \in s
    BY HindmostExists
  <1>4. ASSUME NEW taken \in V, NEW m \in Markets PROVE Take(taken, m) \in V
    BY TakenTyped
  <1> HIDE DEF Take, last
  <1>5. pick \in [SUBSET D -> D \cup {D}] /\ \A s \in SUBSET D : s # {} => pick[s] \in s
    BY <1>3
  <1>6. step \in [D \X V -> V]
    BY <1>4
  <1>7. \E h \in [SUBSET D -> V] : Folded(D, sofar, pick, step, h)
    <2> HIDE DEF V, pick, step
    <2>1. sofar \in V
      BY DEF V
    <2> QED
      BY <1>2, <1>5, <1>6, <2>1, FoldExists
  <1>8. \E h : h = Step(h)
    <2>0. PICK h \in [SUBSET D -> V] : Folded(D, sofar, pick, step, h)
      BY <1>7
    <2>1. \A s \in SUBSET D :
              h[s] = IF s = {} THEN sofar ELSE step[<<pick[s], h[s \ {pick[s]}]>>]
      BY <2>0 DEF Folded
    <2>2. ASSUME NEW s \in SUBSET D PROVE h[s] = Step(h)[s]
      <3>1. CASE s = {}
        BY <2>1, <3>1
      <3>2. CASE s # {}
        <4>1. pick[s] = last(s) /\ pick[s] \in D /\ h[s \ {pick[s]}] \in V
          BY <1>3, <3>2
        <4>2. h[s] = step[<<pick[s], h[s \ {pick[s]}]>>]
          BY <2>1, <3>2
        <4>3. step[<<pick[s], h[s \ {pick[s]}]>>] = Take(h[s \ {pick[s]}], pick[s])
          <5> HIDE DEF pick
          <5> QED
            BY <4>1
        <4> QED
          BY <3>2, <4>1, <4>2, <4>3
      <3> QED
        BY <3>1, <3>2
    <2>3. h = [s \in SUBSET D |-> h[s]]
      OBVIOUS
    <2>4. h = Step(h)
      BY <2>2, <2>3
    <2> QED
      BY <2>4
  <1>9. iter = Step(iter)
    <2> HIDE DEF Step
    <2> QED
      BY <1>8
  <1>10. \A s \in SUBSET D : iter[s] \in V
    <2> DEFINE G == {s \in SUBSET D : iter[s] \in V}
    <2> HIDE DEF iter
    <2>1. {} \in G
      BY <1>9
    <2>2. ASSUME NEW s \in SUBSET D, s # {} PROVE \E x \in s : (s \ {x} \in G => s \in G)
      <3>1. last(s) \in s
        BY <1>3, <2>2
      <3>2. iter[s] = Take(iter[s \ {last(s)}], last(s))
        BY <1>9, <2>2
      <3>3. ASSUME iter[s \ {last(s)}] \in V PROVE iter[s] \in V
        <4> PICK t : t = iter[s \ {last(s)}]
          OBVIOUS
        <4> HIDE DEF V
        <4>1. Take(t, last(s)) \in V
          BY <1>4, <3>1, <3>3
        <4> QED
          BY <3>2, <4>1
      <3> QED
        BY <3>1, <3>3
    <2> HIDE DEF G
    <2>3. \A s \in SUBSET D : s \in G
      BY <1>2, <2>1, <2>2, PartInduction
    <2> QED
      BY <2>3 DEF G
  <1>11. Passed(D, limit, floor, sofar, amount, iter)
    <2> HIDE DEF iter
    <2>1. iter[{}] = sofar
      BY <1>9
    <2>2. ASSUME NEW s \in SUBSET D, s # {}
          PROVE  \E m \in s : iter[s] = Taken(limit, floor, amount, iter[s \ {m}], m)
      <3>1. last(s) \in s
        BY <1>3, <2>2
      <3>2. iter[s] = Take(iter[s \ {last(s)}], last(s))
        BY <1>9, <2>2
      <3> QED
        BY <3>1, <3>2 DEF Take
    <2> QED
      BY <2>1, <2>2 DEF Passed
  <1>12. iter \in [SUBSET D -> V]
    <2>1. iter = [s \in SUBSET D |-> iter[s]]
      <3> HIDE DEF iter
      <3> QED
        BY <1>9
    <2> HIDE DEF iter, V
    <2> QED
      BY <1>10, <2>1
  <1> HIDE DEF iter
  <1> QED
    BY <1>1, <1>11, <1>12 DEF Outcomes, Result

\* A pass takes from each market nothing or a natural, in whatever order.
LEMMA PassTyped ==
    ASSUME NEW size \in [Markets -> Int], NEW D \in SUBSET Markets,
           NEW limit \in [Markets -> Int], NEW floor \in Nat, NEW sofar \in [Markets -> Nat],
           NEW amount \in Nat
    PROVE  Pass(size, D, limit, floor, sofar, amount) \in [Markets -> Nat]
  <1>1. PICK h \in Outcomes(D) :
            /\ Passed(D, limit, floor, sofar, amount, h)
            /\ Result(size, D, limit, floor, sofar, amount, h)
    BY PassIs
  <1> QED
    BY <1>1 DEF Outcomes, Result


\* A plan names a natural for every market.
LEMMA AllocationTyped ==
    ASSUME NEW value \in [Markets -> Nat], NEW sellable \in SUBSET Markets, NEW amount \in Nat
    PROVE  AllocateUnwind(value, sellable, amount) \in [Markets -> Nat]
  <1> DEFINE over   == [m \in Markets |-> Over(value, m)]
             limit  == [m \in Markets |-> OverweightLimit(value, m)]
             heavy  == {m \in sellable : over[m] > 0}
             first  == Pass(over, heavy, limit, MIN_UNWIND_LEG_USDC, NoPlan, amount)
             left   == [m \in Markets |-> value[m] - first[m]]
             rest   == {m \in sellable : left[m] > 0}
             second == Pass(left, rest, left, 1, first, amount)
  <1>1. NoPlan \in [Markets -> Nat]
    BY DEF NoPlan
  <1>over. ASSUME NEW m \in Markets
           PROVE  Over(value, m) \in Int /\ OverweightLimit(value, m) \in Int
    <2>1. Sigma(value) \in Nat /\ Weight[m] \in Nat /\ BPS \in Nat \ {0} /\ value[m] \in Nat
      BY MarketsFinite, SigmaTotal, TotalNat, VenueAssumption
    <2>2. Sigma(value) * Weight[m] \in Nat
      BY <2>1
    <2>3. (Sigma(value) * Weight[m]) \div BPS \in Nat
      BY <2>1, <2>2
    <2> QED
      BY <2>1, <2>3 DEF OverweightLimit, Over, Least
  <1>2. limit \in [Markets -> Int]
    BY <1>over
  <1>3. over \in [Markets -> Int]
    BY <1>over
  <1>4. first \in [Markets -> Nat]
    <2>1. heavy \in SUBSET Markets
      OBVIOUS
    <2> HIDE DEF over, heavy, limit
    <2> QED
      BY <1>1, <1>2, <1>3, <2>1, VenueAssumption, PassTyped
  <1>5. left \in [Markets -> Int]
    <2> HIDE DEF first
    <2> QED
      BY <1>4
  <1>6. second \in [Markets -> Nat]
    <2>1. rest \in SUBSET Markets
      OBVIOUS
    <2> HIDE DEF first, left, rest
    <2> QED
      BY <1>4, <1>5, <2>1, PassTyped
  <1> QED
    BY <1>1, <1>6 DEF AllocateUnwind


-----------------------------------------------------------------------------
\* Arithmetic.

\* Products of naturals are naturals, and grow with their factors.
LEMMA Products ==
    ASSUME NEW a \in Nat, NEW b \in Nat, NEW c \in Nat
    PROVE  /\ a * c \in Nat
           /\ (a + b) * c = a * c + b * c
           /\ a <= b => a * c <= b * c
  OBVIOUS

\* A common factor cancels.
LEMMA ProductsCancel ==
    ASSUME NEW a \in Nat, NEW b \in Nat, NEW c \in Nat \ {0}, a * c <= b * c
    PROVE  a <= b
  <1> SUFFICES ASSUME b + 1 <= a PROVE FALSE
    OBVIOUS
  <1>1. (b + 1) * c <= a * c
    BY Products
  <1>2. (b + 1) * c = b * c + c /\ b * c \in Nat /\ a * c \in Nat
    OBVIOUS
  <1> QED
    BY <1>1, <1>2

\* Rounding down, and by how much.
LEMMA Quotient ==
    ASSUME NEW a \in Nat, NEW k \in Nat \ {0}
    PROVE  /\ a \div k \in Nat
           /\ (a \div k) * k <= a /\ a < (a \div k) * k + k
  OBVIOUS

\* A quotient is the greatest number whose product fits.
LEMMA QuotientGreatest ==
    ASSUME NEW a \in Nat, NEW k \in Nat \ {0}, NEW n \in Nat
    PROVE  n * k <= a <=> n <= a \div k
  OBVIOUS

\* Rounding up covers, and nothing smaller does.
LEMMA CeilCovers ==
    ASSUME NEW a \in Nat, NEW k \in Nat \ {0}
    PROVE  /\ CeilDiv(a, k) \in Nat
           /\ \A n \in Nat : CeilDiv(a, k) <= n <=> a <= n * k
  <1>1. a + k - 1 \in Nat
    OBVIOUS
  <1>2. CeilDiv(a, k) \in Nat
    BY <1>1, Quotient DEF CeilDiv
  <1>3. ASSUME NEW n \in Nat PROVE CeilDiv(a, k) <= n <=> a <= n * k
    <2>1. (n + 1) * k <= a + k - 1 <=> n + 1 <= (a + k - 1) \div k
      BY <1>1, QuotientGreatest
    <2>2. (n + 1) * k = n * k + k /\ n * k \in Nat
      OBVIOUS
    <2> QED
      BY <1>2, <2>1, <2>2 DEF CeilDiv
  <1> QED
    BY <1>2, <1>3

\* The account's ceiling is a leverage, and not below the one that sizes.
LEMMA CeilingLeverage ==
    VenueLeverage \in Nat \ {0} /\ Leverage <= VenueLeverage * BPS
  <1>1. BPS \in Nat \ {0} /\ Leverage \in Nat \ {0}
    BY VenueAssumption
  <1>2. CeilDiv(Leverage, BPS) \in Nat /\ Leverage <= CeilDiv(Leverage, BPS) * BPS
    BY <1>1, CeilCovers
  <1>3. VenueLeverage \in Nat \ {0} /\ CeilDiv(Leverage, BPS) <= VenueLeverage
    BY <1>2 DEF VenueLeverage, Most
  <1>4. CeilDiv(Leverage, BPS) * BPS <= VenueLeverage * BPS
    BY <1>1, <1>2, <1>3, Products
  <1>5. VenueLeverage * BPS \in Nat /\ CeilDiv(Leverage, BPS) * BPS \in Nat
    BY <1>1, <1>2, <1>3, Products
  <1> QED
    BY <1>1, <1>2, <1>3, <1>4, <1>5

\* What is not held against a position is a part of the margin, and what is
\* left of the margin without it carries the shorts it carried before.
LEMMA UnallocatedIs ==
    ASSUME NEW margin \in Nat, NEW shorts \in [Markets -> Nat]
    PROVE  /\ Sigma(shorts) \in Nat
           /\ CeilDiv(Sigma(shorts), VenueLeverage) \in Nat
           /\ Unallocated(margin, shorts) \in Nat /\ Unallocated(margin, shorts) <= margin
           /\ Sigma(shorts) <= margin * VenueLeverage
                => \A w \in Nat : w <= Unallocated(margin, shorts)
                                    => Sigma(shorts) <= (margin - w) * VenueLeverage
  <1>1. Sigma(shorts) \in Nat
    BY MarketsFinite, SigmaTotal, TotalNat
  <1>2. CeilDiv(Sigma(shorts), VenueLeverage) \in Nat
    BY <1>1, CeilingLeverage, CeilCovers
  <1>3. Unallocated(margin, shorts) \in Nat /\ Unallocated(margin, shorts) <= margin
    BY <1>2 DEF Unallocated, Most
  <1>4. ASSUME Sigma(shorts) <= margin * VenueLeverage, NEW w \in Nat,
               w <= Unallocated(margin, shorts)
        PROVE  Sigma(shorts) <= (margin - w) * VenueLeverage
    <2>1. CeilDiv(Sigma(shorts), VenueLeverage) <= margin
      BY <1>1, <1>4, CeilingLeverage, CeilCovers
    <2>2. margin - w \in Nat /\ CeilDiv(Sigma(shorts), VenueLeverage) <= margin - w
      BY <1>2, <1>4, <2>1 DEF Unallocated, Most
    <2> QED
      BY <1>1, <2>2, CeilingLeverage, CeilCovers
  <1> QED
    BY <1>1, <1>2, <1>3, <1>4

-----------------------------------------------------------------------------
\* The lot grid.

OnGrid == {k * Lot : k \in Nat}

\* Sizes on the grid stay on it when they are added, and subtracted down to zero.
LEMMA GridCloses ==
    ASSUME NEW a \in OnGrid, NEW b \in OnGrid
    PROVE  a \in Nat /\ 0 \in OnGrid /\ a + b \in OnGrid /\ Most(0, a - b) \in OnGrid
  <1>1. Lot \in Nat \ {0}
    BY VenueAssumption
  <1>2. PICK i \in Nat : a = i * Lot
    BY DEF OnGrid
  <1>3. PICK j \in Nat : b = j * Lot
    BY DEF OnGrid
  <1>4. a \in Nat /\ b \in Nat
    BY <1>1, <1>2, <1>3, Products
  <1>5. 0 \in OnGrid
    <2>1. 0 = 0 * Lot
      BY <1>1
    <2> QED
      BY <2>1 DEF OnGrid
  <1>6. a + b \in OnGrid
    <2>1. a + b = (i + j) * Lot
      BY <1>1, <1>2, <1>3, Products
    <2> QED
      BY <2>1 DEF OnGrid
  <1>7. CASE i >= j
    <2>1. PICK k \in Nat : i = k + j
      <3>1. i - j \in Nat /\ i = (i - j) + j
        BY <1>7
      <3> QED
        BY <3>1
    <2>2. a = k * Lot + b /\ k * Lot \in Nat
      BY <1>1, <1>2, <1>3, <2>1, Products
    <2>3. Most(0, a - b) = k * Lot
      BY <1>4, <2>2 DEF Most
    <2> QED
      BY <1>4, <1>5, <1>6, <2>3 DEF OnGrid
  <1>8. CASE i <= j
    <2>1. a <= b
      BY <1>1, <1>2, <1>3, <1>8, Products
    <2> QED
      BY <1>4, <1>5, <1>6, <2>1 DEF Most
  <1> QED
    BY <1>7, <1>8

\* Snapping goes down to the grid, by less than a lot, and not below a size on it.
LEMMA SnapIs ==
    ASSUME NEW n \in Nat
    PROVE  /\ SnapToLot(n) \in OnGrid /\ SnapToLot(n) \in Nat
           /\ SnapToLot(n) <= n /\ n <= SnapToLot(n) + (Lot - 1)
           /\ \A g \in OnGrid : g <= n => g <= SnapToLot(n)
  <1>1. Lot \in Nat \ {0}
    BY VenueAssumption
  <1>2. n \div Lot \in Nat
    BY <1>1, Quotient
  <1>3. SnapToLot(n) \in OnGrid /\ SnapToLot(n) \in Nat
    BY <1>1, <1>2, Products DEF OnGrid, SnapToLot
  <1>4. SnapToLot(n) <= n /\ n <= SnapToLot(n) + (Lot - 1)
    BY <1>1, <1>2, <1>3, Quotient DEF SnapToLot
  <1>5. ASSUME NEW g \in OnGrid, g <= n PROVE g <= SnapToLot(n)
    <2>1. PICK k \in Nat : g = k * Lot
      BY DEF OnGrid
    <2>2. k <= n \div Lot
      BY <1>1, <1>5, <2>1, QuotientGreatest
    <2> QED
      BY <1>1, <1>2, <2>1, <2>2, Products DEF SnapToLot
  <1> QED
    BY <1>3, <1>4, <1>5

\* The greatest of a finite set of naturals is one of them, and none exceeds it.
LEMMA GreatestIs ==
    ASSUME NEW S \in SUBSET Nat, S # {}, IsFiniteSet(S)
    PROVE  Max(S) \in S /\ \A y \in S : y <= Max(S)
  <1> DEFINE G == {s \in SUBSET S : s # {} => \E x \in s : \A y \in s : y <= x}
  <1>2. ASSUME NEW s \in SUBSET S, s # {} PROVE \E x \in s : (s \ {x} \in G => s \in G)
    <2>1. PICK x \in s : TRUE
      BY <1>2
    <2>2. ASSUME s \ {x} \in G PROVE \E z \in s : \A y \in s : y <= z
      <3>1. CASE s \ {x} = {}
        BY <3>1
      <3>2. CASE s \ {x} # {}
        <4>1. PICK z \in s \ {x} : \A y \in s \ {x} : y <= z
          BY <2>2, <3>2
        <4>2. CASE x <= z
          BY <4>1, <4>2
        <4>3. CASE ~(x <= z)
          <5>1. \A y \in s : y <= x
            BY <4>1, <4>3
          <5> QED
            BY <5>1
        <4> QED
          BY <4>2, <4>3
      <3> QED
        BY <3>1, <3>2
    <2> QED
      BY <2>1, <2>2
  <1>3. S \in G
    <2>1. {} \in G
      OBVIOUS
    <2> HIDE DEF G
    <2> QED
      BY <1>2, <2>1, PartInduction
  <1>4. \E x \in S : \A y \in S : x >= y
    BY <1>3
  <1> QED
    BY <1>4 DEF Max

\* The worst slip is one of them.
LEMMA WorstSlip ==
    Max(Slips) \in Nat /\ \A slip \in Slips : slip <= Max(Slips)
  BY VenueAssumption, GreatestIs


-----------------------------------------------------------------------------
\* The inductive invariant.

\* Which operation a step belongs to; between calls there is nothing of one.
StepsOk ==
    /\ At("idle") => call = Idle
    /\ At("cross") => call.op \in {"deploy", "topUpMargin"}
    /\ call.step \in DeploySteps \ {"cross"} => call.op = "deploy"
    /\ call.step \in CloseSteps => call.op \in {"unwind", "closeAll"}
    /\ call.op = "deploy" \/ call.step \in {"reduce", "sell"} => AtMarket

\* What a call is about to pay out is in the wallet.
InHandOk ==
    /\ At("cross") => call.asked <= cash["base"]
    /\ call.op = "unwind" => call.raised <= cash["base"]

\* An order is sized to the margin that arrived for it.
SizedOk == At("short") => call.units * BPS <= call.backing * Leverage

\* No step belongs to a call that was not counted.
StartedOk == ~At("idle") => calls > 0

\* The account carries its shorts at its ceiling, without what backs the next one.
CarriedOk ==
    /\ Sigma(perp) <= cash["margin"] * VenueLeverage
    /\ call.step \in {"size", "short"} =>
          /\ call.backing <= cash["margin"]
          /\ Sigma(perp) <= (cash["margin"] - call.backing) * VenueLeverage

\* Shorts, and the one about to be opened, are whole lots.
GridOk ==
    /\ \A m \in Markets : perp[m] \in OnGrid
    /\ call.step \in {"short", "buy", "naked"} => call.units \in OnGrid

\* What a close without a failure has left behind is flat.
FlatOk ==
    call.op = "closeAll" /\ call.failures = 0 =>
       /\ \A i \in DOMAIN MarketOrder :
             i < call.at => spot[MarketOrder[i]] = 0 /\ perp[MarketOrder[i]] = 0
       /\ At("reduce") => spot[Market] <= call.units /\ perp[Market] <= call.units
       /\ At("sell")   => spot[Market] <= call.units /\ perp[Market] = 0
       /\ call.step \in {"repatriate", "return"} => \A i \in DOMAIN MarketOrder : i < call.at
       /\ At("return") => cash["margin"] = 0

\* As long as it is a swap that fails, rows are legs.
RecordOk ==
    faults \subseteq {"swap", "closeNaked"} =>
       /\ call.legs <= call.rows
       /\ call.op # "closeAll" => call.rows = call.legs
       /\ At("cross") => call.legs = 0

\* What one call may leave a short without, and what the earlier ones have.
Grain  == Lot - 1 + Max(Slips)
Before == (calls - 1) * Grain

Backed(s, p, extra) == \A m \in Markets : p[m] <= s[m] + extra

\* The short without its spot is the one being bought for.
NakedOk ==
    faults \subseteq CleanFaults =>
       /\ At("idle") => Backed(spot, perp, Slack)
       /\ call.step \in {"cross", "size", "short"} => Backed(spot, perp, Before)
       /\ call.step \in {"buy", "naked"} =>
             \A m \in Markets :
                perp[m] <= spot[m] + Before + (IF m = Market THEN call.units ELSE 0)
       /\ call.step \in {"short", "buy"} => call.units <= call.notional
       /\ call.step \in CloseSteps =>
             /\ Backed(spot, perp, Slack)
             /\ \A i \in DOMAIN MarketOrder :
                   i >= call.at => perp[MarketOrder[i]] <= spot[MarketOrder[i]] + Before
       /\ At("sell") => \/ perp[Market] = 0
                        \/ perp[Market] + SnapToLot(call.units) <= spot[Market] + Before

CallInv  == TypeOK /\ StepsOk /\ InHandOk /\ SizedOk /\ GridOk /\ FlatOk
BooksInv == StartedOk /\ CarriedOk /\ RecordOk /\ NakedOk
VInv     == CallInv /\ BooksInv

-----------------------------------------------------------------------------
\* Lemmas about the state.

\* The slack grows by one grain a call.
LEMMA SlackIs ==
    ASSUME TypeOK
    PROVE  /\ Grain \in Nat /\ Slack \in Nat /\ Slack = calls * Grain
           /\ calls > 0 => Before \in Nat /\ Slack = Before + Grain
           /\ Lot - 1 \in Nat /\ Max(Slips) \in Nat /\ Grain = (Lot - 1) + Max(Slips)
  <1>1. Lot - 1 \in Nat /\ Max(Slips) \in Nat /\ Grain \in Nat /\ calls \in Nat
    BY VenueAssumption, WorstSlip DEF Grain, TypeOK
  <1>2. Slack = calls * Grain /\ Slack \in Nat
    BY <1>1, Products DEF Slack, Grain
  <1>3. ASSUME calls > 0 PROVE Before \in Nat /\ Slack = Before + Grain
    <2>1. PICK n \in Nat : calls = n + 1
      <3>1. calls - 1 \in Nat /\ calls = (calls - 1) + 1
        BY <1>1, <1>3
      <3> QED
        BY <3>1
    <2>2. Before = n * Grain
      <3>1. calls - 1 = n
        BY <2>1
      <3> QED
        BY <3>1 DEF Before
    <2>3. (n + 1) * Grain = n * Grain + 1 * Grain
      BY <1>1, Products
    <2> QED
      BY <1>1, <1>2, <2>1, <2>2, <2>3, Products
  <1> QED
    BY <1>1, <1>2, <1>3 DEF Grain

\* Inside of a call the market it is at is one of them.
LEMMA MarketIs ==
    ASSUME AtMarket
    PROVE  Market \in Markets
  BY DEF AtMarket, Market, Markets, Range

\* No two places hold the same market.
LEMMA OnePlace ==
    ASSUME NEW i \in DOMAIN MarketOrder, NEW j \in DOMAIN MarketOrder,
           MarketOrder[i] = MarketOrder[j]
    PROVE  i = j
  BY VenueAssumption DEF IsInjective

\* The idle adapter is a state of the call's record.
LEMMA IdleIs ==
    /\ Idle \in CallStates /\ Idle.op = "none" /\ Idle.step = "idle" /\ Idle.at = 1
    /\ Idle.rows = 0 /\ Idle.legs = 0 /\ Idle.failures = 0 /\ Idle.raised = 0
  BY DEF Idle, CallStates, CallOps, NoPlan

\* A record of legs changes two fields.
LEMMA DoneIs ==
    ASSUME NEW c \in CallStates, NEW n \in Nat, NEW d, d = Done(c, n)
    PROVE  /\ d \in CallStates
           /\ d.rows = c.rows + n /\ d.legs = c.legs + n
           /\ d.op = c.op /\ d.step = c.step /\ d.at = c.at /\ d.notional = c.notional
           /\ d.asked = c.asked /\ d.backing = c.backing /\ d.units = c.units
           /\ d.plan = c.plan /\ d.raised = c.raised /\ d.failures = c.failures
  <1>1. d \in CallStates
    <2>1. PICK r \in Nat, l \in Nat : r = c.rows + n /\ l = c.legs + n
      BY DEF CallStates
    <2>2. [c EXCEPT !.rows = r, !.legs = l] \in CallStates
      BY DEF CallStates
    <2> QED
      BY <2>1, <2>2 DEF Done
  <1>2. /\ d.rows = c.rows + n /\ d.legs = c.legs + n
        /\ d.op = c.op /\ d.step = c.step /\ d.at = c.at /\ d.notional = c.notional
        /\ d.asked = c.asked /\ d.backing = c.backing /\ d.units = c.units
        /\ d.plan = c.plan /\ d.raised = c.raised /\ d.failures = c.failures
    BY DEF Done, CallStates
  <1> QED
    BY <1>1, <1>2

\* So does the end of a market's legs.
LEMMA NextMarketIs ==
    ASSUME NEW c \in CallStates, NEW d, d = NextMarket(c)
    PROVE  /\ d \in CallStates
           /\ d.at = c.at + 1 /\ d.step = "close" /\ d.units = 0
           /\ d.op = c.op /\ d.raised = c.raised /\ d.rows = c.rows /\ d.legs = c.legs
           /\ d.failures = c.failures
  <1>1. d \in CallStates
    <2>1. PICK a \in Nat \ {0} : a = c.at + 1
      BY DEF CallStates
    <2>2. PICK s \in CloseSteps : s = "close"
      BY DEF CloseSteps
    <2>3. [c EXCEPT !.at = a, !.step = s, !.units = 0] \in CallStates
      BY DEF CallStates
    <2> QED
      BY <2>1, <2>2, <2>3 DEF NextMarket
  <1>2. /\ d.at = c.at + 1 /\ d.step = "close" /\ d.units = 0
        /\ d.op = c.op /\ d.raised = c.raised /\ d.rows = c.rows /\ d.legs = c.legs
        /\ d.failures = c.failures
    BY DEF NextMarket, CallStates
  <1> QED
    BY <1>1, <1>2

\* A short that shrinks does not add to the sum.
LEMMA SigmaMoves ==
    ASSUME NEW p \in [Markets -> Nat], NEW q \in [Markets -> Nat]
    PROVE  /\ Sigma(p) \in Nat /\ Sigma(q) \in Nat
           /\ (\A m \in Markets : q[m] <= p[m]) => Sigma(q) <= Sigma(p)
  <1>1. Sigma(p) = Total(p) /\ Sigma(q) = Total(q) /\ Total(p) \in Nat /\ Total(q) \in Nat
    BY MarketsFinite, SigmaTotal, TotalNat
  <1>2. ASSUME \A m \in Markets : q[m] <= p[m] PROVE Total(q) <= Total(p)
    BY <1>2, MarketsFinite, TotalLe
  <1> QED
    BY <1>1, <1>2

\* One that grows adds what it grows.
LEMMA SigmaGrows ==
    ASSUME NEW p \in [Markets -> Nat], NEW q \in [Markets -> Nat], NEW m \in Markets,
           NEW n \in Nat, q[m] = p[m] + n, \A y \in Markets : y # m => q[y] = p[y]
    PROVE  Sigma(q) = Sigma(p) + n
  <1>1. Sigma(p) = Total(p) /\ Sigma(q) = Total(q)
    BY MarketsFinite, SigmaTotal
  <1>2. Total(q) = Total(p) + n
    BY MarketsFinite, TotalGains, SMTT(30)
  <1> QED
    BY <1>1, <1>2

\* A call that ends leaves an idle adapter, whatever its record was.
LEMMA EndsCall ==
    ASSUME CallInv, call' = Idle, calls' = calls, faults' = faults,
           unseen' \in BOOLEAN, doubled' \in BOOLEAN,
           cash' \in [Places -> Nat], spot' \in [Markets -> Nat], perp' \in [Markets -> Nat],
           \A m \in Markets : perp'[m] \in OnGrid,
           BooksInv => Sigma(perp') <= cash'["margin"] * VenueLeverage,
           BooksInv /\ faults \subseteq CleanFaults => Backed(spot', perp', Slack)
    PROVE  CallInv' /\ (BooksInv => BooksInv')
  <1>1. /\ call' \in CallStates /\ call'.op = "none" /\ call'.step = "idle"
        /\ call'.rows = 0 /\ call'.legs = 0
    BY IdleIs
  <1>2. TypeOK'
    BY <1>1 DEF TypeOK, CallInv
  <1>3. StepsOk' /\ StartedOk'
    BY <1>1 DEF StepsOk, StartedOk, At, DeploySteps, CloseSteps
  <1>4. InHandOk' /\ SizedOk'
    BY <1>1 DEF InHandOk, SizedOk, At
  <1>5. BooksInv => CarriedOk'
    BY <1>1 DEF CarriedOk, At
  <1>6. GridOk'
    BY <1>1 DEF GridOk
  <1>7. FlatOk'
    BY <1>1 DEF FlatOk
  <1>8. RecordOk'
    BY <1>1 DEF RecordOk, At
  <1>9. BooksInv => NakedOk'
    <2> SUFFICES ASSUME BooksInv PROVE NakedOk'
      OBVIOUS
    <2>1. Slack' = Slack
      BY DEF Slack
    <2> QED
      BY <1>1, <2>1 DEF NakedOk, At, CloseSteps
  <1> QED
    BY <1>2, <1>3, <1>4, <1>5, <1>6, <1>7, <1>8, <1>9 DEF CallInv, BooksInv

\* Whatever a call was doing, except for the short it was buying for, every
\* short was backed up to the slack.
LEMMA BackedNow ==
    ASSUME VInv, faults \subseteq CleanFaults, call.step \notin {"buy", "naked"}
    PROVE  Backed(spot, perp, Slack)
  <1>1. call.step \in {"idle"} \cup DeploySteps \cup CloseSteps
    BY DEF VInv, CallInv, TypeOK, CallStates
  <1>2. CASE call.step \in {"cross", "size", "short"}
    <2>1. calls > 0 /\ Backed(spot, perp, Before)
      BY <1>2 DEF VInv, BooksInv, StartedOk, NakedOk, At
    <2> QED
      BY <2>1, SlackIs DEF Backed, VInv, CallInv, TypeOK
  <1>3. CASE call.step \in {"idle"} \cup CloseSteps
    BY <1>3 DEF VInv, BooksInv, NakedOk, At
  <1> QED
    BY <1>1, <1>2, <1>3 DEF DeploySteps

\* A call that ends without moving a leg, and without margin leaving the account.
LEMMA EndsQuietly ==
    ASSUME CallInv, call' = Idle, calls' = calls, faults' = faults,
           unseen' \in BOOLEAN, doubled' \in BOOLEAN, UNCHANGED <<spot, perp>>,
           cash' \in [Places -> Nat], cash["margin"] <= cash'["margin"],
           call.step \notin {"buy", "naked"}
    PROVE  CallInv' /\ (BooksInv => BooksInv')
  <1>1. BooksInv => Sigma(perp') <= cash'["margin"] * VenueLeverage
    <2> SUFFICES ASSUME BooksInv PROVE Sigma(perp') <= cash'["margin"] * VenueLeverage
      OBVIOUS
    <2>1. Sigma(perp) \in Nat /\ Sigma(perp) <= cash["margin"] * VenueLeverage
      BY SigmaMoves DEF CallInv, BooksInv, CarriedOk, TypeOK
    <2>2. cash["margin"] \in Nat /\ cash'["margin"] \in Nat
      BY DEF CallInv, TypeOK, Places
    <2>3. /\ cash["margin"] * VenueLeverage \in Nat /\ cash'["margin"] * VenueLeverage \in Nat
          /\ cash["margin"] * VenueLeverage <= cash'["margin"] * VenueLeverage
      BY <2>2, CeilingLeverage, Products
    <2> QED
      BY <2>1, <2>3
  <1>2. spot' \in [Markets -> Nat] /\ perp' \in [Markets -> Nat]
    BY DEF CallInv, TypeOK
  <1>3. \A m \in Markets : perp'[m] \in OnGrid
    BY DEF CallInv, GridOk
  <1>4. BooksInv /\ faults \subseteq CleanFaults => Backed(spot', perp', Slack)
    BY BackedNow DEF VInv
  <1> QED
    BY <1>1, <1>2, <1>3, <1>4, EndsCall


-----------------------------------------------------------------------------
\* How calls start.

\* Money that moves leaves one place and arrives, less the loss, at another.
LEMMA MoveIs ==
    ASSUME TypeOK, NEW from \in Places, NEW to \in Places, from # to,
           NEW amount \in Nat, amount <= cash[from], NEW loss \in Nat, loss <= amount,
           NEW after, after = Move(from, to, amount, loss)
    PROVE  /\ after \in [Places -> Nat]
           /\ after[from] = cash[from] - amount /\ after[to] = cash[to] + (amount - loss)
           /\ \A p \in Places : p # from /\ p # to => after[p] = cash[p]
  <1>1. cash \in [Places -> Nat]
    BY DEF TypeOK
  <1>2. PICK a \in Nat : a = cash[from] - amount
    BY <1>1
  <1>3. PICK b \in Nat : b = cash[to] + amount - loss
    BY <1>1
  <1>4. after = [cash EXCEPT ![from] = a, ![to] = b]
    BY <1>2, <1>3 DEF Move
  <1> QED
    BY <1>1, <1>2, <1>3, <1>4

\* The vault's money adds to what waits on Base and to nothing else.
LEMMA FundIs ==
    ASSUME TypeOK, NEW source \in {"vault", "base"}, NEW amount \in Nat, Fund(source, amount)
    PROVE  /\ cash' \in [Places -> Nat] /\ amount <= cash'["base"]
           /\ cash'["margin"] = cash["margin"]
  <1>1. CASE source = "vault"
    <2>1. cash' = Move("vault", "base", amount, 0) /\ amount <= cash["vault"]
      BY <1>1 DEF Fund, TypeOK, Places
    <2>2. cash' \in [Places -> Nat] /\ cash'["base"] = cash["base"] + (amount - 0)
          /\ cash'["margin"] = cash["margin"]
      BY <2>1, MoveIs DEF Places
    <2> QED
      BY <2>2 DEF TypeOK, Places
  <1>2. CASE source = "base"
    BY <1>2 DEF Fund, TypeOK, Places
  <1> QED
    BY <1>1, <1>2

\* A call that starts: its money is there, and nothing of it is done.
LEMMA OpensCall ==
    ASSUME CallInv, At("idle"), UNCHANGED <<spot, perp>>,
           calls' \in 0 .. MaxCalls, unseen' \in BOOLEAN, doubled' \in BOOLEAN,
           faults' \subseteq AllFaults, cash' \in [Places -> Nat],
           call' \in CallStates, call'.step \in {"cross", "size", "close"}, call'.raised = 0,
           call'.step = "cross" => /\ call'.op \in {"deploy", "topUpMargin"}
                                   /\ call'.asked <= cash'["base"],
           call'.step = "size" => call'.op = "deploy",
           call'.step = "close" => call'.op \in {"unwind", "closeAll"} /\ call'.at = 1,
           call'.op = "deploy" => call'.at \in DOMAIN MarketOrder
    PROVE  CallInv'
  <1>1. TypeOK'
    BY DEF CallInv, TypeOK
  <1>2. StepsOk'
    BY DEF StepsOk, At, AtMarket, DeploySteps, CloseSteps
  <1>3. InHandOk' /\ SizedOk'
    BY <1>1 DEF InHandOk, SizedOk, At, TypeOK, Places
  <1>4. GridOk'
    BY DEF GridOk, CallInv
  <1>5. FlatOk'
    <2>1. ASSUME call'.op = "closeAll" PROVE call'.at = 1 /\ call'.step = "close"
      BY <2>1
    <2>2. \A i \in DOMAIN MarketOrder : ~(i < 1)
      BY MarketsFinite
    <2> QED
      BY <2>1, <2>2 DEF FlatOk, At
  <1> QED
    BY <1>1, <1>2, <1>3, <1>4, <1>5 DEF CallInv

\* Its record is empty, and the shorts of the calls before it are the whole of
\* what is not backed.
LEMMA StartsCall ==
    ASSUME CallInv, At("idle"), calls < MaxCalls, Counted, UNCHANGED <<spot, perp>>,
           cash' \in [Places -> Nat], cash'["margin"] = cash["margin"],
           call' \in CallStates, call'.step \in {"cross", "size", "close"},
           call'.rows = 0, call'.legs = 0, call'.raised = 0,
           call'.step = "cross" => /\ call'.op \in {"deploy", "topUpMargin"}
                                   /\ call'.asked <= cash'["base"],
           call'.step = "size" => /\ call'.op = "deploy"
                                  /\ call'.backing = Unallocated(cash["margin"], perp),
           call'.step = "close" => call'.op \in {"unwind", "closeAll"} /\ call'.at = 1,
           call'.op = "deploy" => call'.at \in DOMAIN MarketOrder
    PROVE  CallInv' /\ (BooksInv => BooksInv')
  <1>1. calls' = calls + 1 /\ calls \in Nat /\ calls' \in 0 .. MaxCalls /\ faults' = faults
    BY VenueAssumption DEF Counted, CallInv, TypeOK
  <1>2. CallInv'
    <2>1. unseen' \in BOOLEAN /\ doubled' \in BOOLEAN /\ faults' \subseteq AllFaults
      BY DEF Counted, CallInv, TypeOK
    <2> QED
      BY <1>1, <2>1, OpensCall
  <1>3. StartedOk'
    BY <1>1 DEF StartedOk
  <1>4. BooksInv => CarriedOk'
    <2> SUFFICES ASSUME BooksInv PROVE CarriedOk'
      OBVIOUS
    <2>1. cash["margin"] \in Nat /\ Sigma(perp) <= cash["margin"] * VenueLeverage
      BY DEF CallInv, BooksInv, TypeOK, CarriedOk, Places
    <2>2. /\ Unallocated(cash["margin"], perp) \in Nat
          /\ Unallocated(cash["margin"], perp) <= cash["margin"]
          /\ Sigma(perp) <= (cash["margin"] - Unallocated(cash["margin"], perp)) * VenueLeverage
      BY <2>1, UnallocatedIs DEF CallInv, TypeOK
    <2> QED
      BY <2>1, <2>2 DEF CarriedOk, At
  <1>5. RecordOk'
    BY DEF RecordOk
  <1>6. BooksInv => NakedOk'
    <2>1. Before' = Slack /\ Slack' = Slack + Grain /\ Slack \in Nat /\ Grain \in Nat
      <3>1. Slack' = calls' * Grain /\ Slack = calls * Grain
        BY <1>2, SlackIs DEF CallInv, Slack, Grain
      <3>2. (calls + 1) * Grain = calls * Grain + 1 * Grain /\ Grain \in Nat
        BY <1>1, SlackIs, Products DEF CallInv
      <3>3. Before' = calls * Grain
        <4>1. calls' - 1 = calls
          BY <1>1
        <4> QED
          BY <4>1 DEF Before, Grain
      <3> QED
        BY <1>1, <3>1, <3>2, <3>3, SlackIs DEF CallInv
    <2>2. faults' = faults
      BY DEF Counted
    <2> SUFFICES ASSUME BooksInv, faults \subseteq CleanFaults PROVE NakedOk'
      BY <2>2 DEF NakedOk
    <2>3. Backed(spot, perp, Slack)
      BY DEF CallInv, BooksInv, NakedOk
    <2>4. Backed(spot', perp', Before') /\ Backed(spot', perp', Slack')
      BY <2>1, <2>3 DEF Backed, CallInv, TypeOK
    <2>5. \A i \in DOMAIN MarketOrder : MarketOrder[i] \in Markets
      BY DEF Markets, Range
    <2> QED
      BY <2>4, <2>5 DEF NakedOk, At, Backed, CloseSteps
  <1> QED
    BY <1>2, <1>3, <1>4, <1>5, <1>6 DEF BooksInv

\* What a deployment's call carries: its margin in hand, or what the account has
\* to spare.
LEMMA DeployIs ==
    ASSUME TypeOK, NEW m \in Markets, NEW n \in Nat, NEW margin \in Nat, Deploy(m, n, margin)
    PROVE  /\ call' \in CallStates /\ call'.op = "deploy" /\ call'.asked = margin
           /\ call'.step = IF margin = 0 THEN "size" ELSE "cross"
           /\ call'.at \in DOMAIN MarketOrder
           /\ call'.step = "size" => call'.backing = Unallocated(cash["margin"], perp)
           /\ call'.rows = 0 /\ call'.legs = 0 /\ call'.raised = 0
  <1>1. PICK u \in Nat : u = Unallocated(cash["margin"], perp)
    BY UnallocatedIs DEF TypeOK, Places
  <1>2. PICK s \in {"size", "cross"} : s = IF margin = 0 THEN "size" ELSE "cross"
    OBVIOUS
  <1>3. PICK b \in Nat : b = IF margin = 0 THEN u ELSE 0
    BY <1>1
  <1>4. PICK p \in Nat \ {0} : p = Place(m) /\ p \in DOMAIN MarketOrder
    BY PlaceIs
  <1>5. call' = [Idle EXCEPT !.op = "deploy", !.step = s, !.at = p, !.notional = n,
                             !.asked = margin, !.backing = b]
    BY <1>1, <1>2, <1>3, <1>4 DEF Deploy
  <1>6. call' \in CallStates
    BY <1>5 DEF Idle, CallStates, CallOps, DeploySteps, NoPlan
  <1> QED
    BY <1>1, <1>2, <1>3, <1>4, <1>5, <1>6 DEF Idle

\* A top-up's carries what it moves.
LEMMA TopUpIs ==
    ASSUME NEW n \in Nat, TopUpMargin(n)
    PROVE  /\ call' \in CallStates /\ call'.op = "topUpMargin" /\ call'.step = "cross"
           /\ call'.asked = n /\ call'.rows = 0 /\ call'.legs = 0 /\ call'.raised = 0
  <1>1. call' = [Idle EXCEPT !.op = "topUpMargin", !.step = "cross", !.asked = n]
    BY DEF TopUpMargin
  <1>2. PICK c \in CallStates : c = Idle
    BY IdleIs
  <1>3. [c EXCEPT !.op = "topUpMargin", !.step = "cross", !.asked = n] \in CallStates
    BY DEF CallStates, CallOps, DeploySteps
  <1> QED
    BY <1>1, <1>2, <1>3 DEF Idle

\* An unwind's carries a plan.
LEMMA UnwindIs ==
    ASSUME TypeOK, NEW amount \in Nat, NEW sellable \in SUBSET Markets, Unwind(amount, sellable)
    PROVE  /\ call' \in CallStates /\ call'.op = "unwind" /\ call'.step = "close"
           /\ call'.at = 1 /\ call'.rows = 0 /\ call'.legs = 0 /\ call'.raised = 0
  <1> DEFINE value == [m \in Markets |-> IF m \in sellable THEN spot[m] ELSE 0]
  <1>1. PICK plan \in [Markets -> Nat] : plan = AllocateUnwind(value, sellable, amount)
    <2>1. value \in [Markets -> Nat]
      BY DEF TypeOK
    <2> HIDE DEF value
    <2> QED
      BY <2>1, AllocationTyped
  <1>2. call' = [Idle EXCEPT !.op = "unwind", !.step = "close", !.asked = amount, !.plan = plan]
    BY <1>1 DEF Unwind
  <1> HIDE DEF value
  <1>3. PICK c \in CallStates : c = Idle
    BY IdleIs
  <1>4. [c EXCEPT !.op = "unwind", !.step = "close", !.asked = amount, !.plan = plan] \in CallStates
    BY DEF CallStates, CallOps, CloseSteps
  <1> QED
    BY <1>2, <1>3, <1>4 DEF Idle

\* A close's carries nothing.
LEMMA CloseAllIs ==
    ASSUME CloseAll
    PROVE  /\ call' \in CallStates /\ call'.op = "closeAll" /\ call'.step = "close"
           /\ call'.at = 1 /\ call'.rows = 0 /\ call'.legs = 0 /\ call'.raised = 0
  <1>1. call' = [Idle EXCEPT !.op = "closeAll", !.step = "close"]
    BY DEF CloseAll
  <1>2. PICK c \in CallStates : c = Idle
    BY IdleIs
  <1>3. [c EXCEPT !.op = "closeAll", !.step = "close"] \in CallStates
    BY DEF CallStates, CallOps, CloseSteps
  <1> QED
    BY <1>1, <1>2, <1>3 DEF Idle

\* worker.ts 547-583: a deployment starts with its margin in hand, or with what
\* the account has to spare.
LEMMA StartDeployInv ==
    ASSUME CallInv, StartDeploy
    PROVE  CallInv' /\ (BooksInv => BooksInv')
  <1>0. TypeOK /\ At("idle") /\ calls < MaxCalls /\ Counted /\ UNCHANGED <<spot, perp>>
    BY DEF CallInv, StartDeploy, Ready
  <1>1. PICK m \in Markets, n \in Notionals : \E margin \in {0, MarginFor(n)} :
            /\ \E source \in {"vault", "base"} : Fund(source, n + margin)
            /\ Deploy(m, n, margin)
    BY DEF StartDeploy
  <1>2. PICK margin \in {0, MarginFor(n)} :
            /\ \E source \in {"vault", "base"} : Fund(source, n + margin)
            /\ Deploy(m, n, margin)
    BY <1>1
  <1>3. n \in Nat /\ margin \in Nat
    <2>1. n \in Nat /\ BPS \in Nat /\ Leverage \in Nat \ {0}
      BY VenueAssumption
    <2>2. MarginFor(n) \in Nat
      BY <2>1, Products, Quotient DEF MarginFor
    <2> QED
      BY <2>1, <2>2
  <1>4. /\ cash' \in [Places -> Nat] /\ n + margin <= cash'["base"]
        /\ cash'["margin"] = cash["margin"]
    <2>1. n + margin \in Nat
      BY <1>3
    <2> QED
      BY <1>0, <1>2, <2>1, FundIs
  <1>5. margin <= cash'["base"]
    BY <1>3, <1>4 DEF Places
  <1> QED
    BY <1>0, <1>2, <1>3, <1>4, <1>5, DeployIs, StartsCall

\* worker.ts 584-589: so does a top-up.
LEMMA StartTopUpInv ==
    ASSUME CallInv, StartTopUp
    PROVE  CallInv' /\ (BooksInv => BooksInv')
  <1>0. TypeOK /\ At("idle") /\ calls < MaxCalls /\ Counted /\ UNCHANGED <<spot, perp>>
    BY DEF CallInv, StartTopUp, Ready
  <1>1. PICK n \in Notionals :
            (\E source \in {"vault", "base"} : Fund(source, n)) /\ TopUpMargin(n)
    BY DEF StartTopUp
  <1>2. n \in Nat
    BY VenueAssumption
  <1>3. /\ cash' \in [Places -> Nat] /\ n <= cash'["base"]
        /\ cash'["margin"] = cash["margin"]
    BY <1>0, <1>1, <1>2, FundIs
  <1> QED
    BY <1>0, <1>1, <1>2, <1>3, TopUpIs, StartsCall

\* venue.ts 841-893: an unwind starts with a plan and moves nothing.
LEMMA StartUnwindInv ==
    ASSUME CallInv, StartUnwind
    PROVE  CallInv' /\ (BooksInv => BooksInv')
  <1>0. TypeOK /\ At("idle") /\ calls < MaxCalls /\ Counted /\ UNCHANGED <<cash, spot, perp>>
    BY DEF CallInv, StartUnwind, Ready
  <1>1. PICK amount \in UnwindAmounts, sellable \in SUBSET Markets : Unwind(amount, sellable)
    <2>1. \A s \in IF Fault("venue") THEN SUBSET Markets ELSE {Markets} : s \in SUBSET Markets
      OBVIOUS
    <2> QED
      BY <2>1 DEF StartUnwind
  <1>2. amount \in Nat
    BY VenueAssumption
  <1> QED
    BY <1>0, <1>1, <1>2, UnwindIs, StartsCall DEF TypeOK

\* venue.ts 1021-1030: nor does a close.
LEMMA StartCloseInv ==
    ASSUME CallInv, StartClose
    PROVE  CallInv' /\ (BooksInv => BooksInv')
  <1>0. TypeOK /\ At("idle") /\ calls < MaxCalls /\ Counted /\ UNCHANGED <<cash, spot, perp>>
    BY DEF CallInv, StartClose, Ready
  <1> QED
    BY <1>0, CloseAllIs, StartsCall DEF StartClose, TypeOK

\* Nothing is open before the first call.
LEMMA InitInv ==
    ASSUME Init
    PROVE  VInv
  <1>1. call = Idle /\ calls = 0 /\ spot = NoPlan /\ perp = NoPlan
        /\ cash = [p \in Places |-> IF p = "vault" THEN Funding ELSE 0]
    BY DEF Init
  <1>2. TypeOK
    <2>1. calls \in 0 .. MaxCalls /\ faults \subseteq AllFaults
      BY VenueAssumption DEF Init
    <2>2. cash \in [Places -> Nat] /\ spot \in [Markets -> Nat] /\ perp \in [Markets -> Nat]
      BY <1>1, VenueAssumption DEF NoPlan
    <2> QED
      BY <1>1, <2>1, <2>2, IdleIs DEF TypeOK, Init
  <1>3. /\ call.op = "none" /\ call.step = "idle" /\ call.rows = 0 /\ call.legs = 0
        /\ cash["margin"] = 0
    BY <1>1, IdleIs DEF Places
  <1>4. StepsOk /\ StartedOk
    BY <1>1, <1>3 DEF StepsOk, StartedOk, At, DeploySteps, CloseSteps
  <1>5. InHandOk /\ SizedOk /\ FlatOk /\ RecordOk
    BY <1>3 DEF InHandOk, SizedOk, FlatOk, RecordOk, At
  <1>6. CarriedOk
    <2>1. Sigma(perp) = 0
      <3>1. Sigma(perp) = Total(perp) /\ Total([m \in Markets |-> 0]) = 0
        BY <1>2, MarketsFinite, SigmaTotal, TotalZero DEF TypeOK
      <3> QED
        BY <1>1, <3>1 DEF NoPlan
    <2> QED
      BY <1>3, <2>1, CeilingLeverage DEF CarriedOk, At
  <1>7. GridOk
    <2>1. 0 \in OnGrid
      <3>1. SnapToLot(0) \in OnGrid
        BY SnapIs
      <3> QED
        BY <3>1, GridCloses
    <2> QED
      BY <1>1, <1>3, <2>1 DEF GridOk, NoPlan
  <1>8. NakedOk
    <2>1. Backed(spot, perp, Slack)
      BY <1>1, <1>2, SlackIs DEF Backed, NoPlan
    <2> QED
      BY <1>3, <2>1 DEF NakedOk, At, CloseSteps
  <1> QED
    BY <1>2, <1>4, <1>5, <1>6, <1>7, <1>8 DEF VInv, CallInv, BooksInv


-----------------------------------------------------------------------------
\* Steps of a deployment.

\* A step that stays inside of a deployment leaves these parts to show.
LEMMA DeployStep ==
    ASSUME CallInv, call.op = "deploy", ~At("idle"), UNCHANGED history,
           call' \in CallStates, call'.op = "deploy", call'.at = call.at,
           call'.step \in DeploySteps \ {"cross"},
           cash' \in [Places -> Nat], spot' \in [Markets -> Nat], perp' \in [Markets -> Nat],
           SizedOk', GridOk', BooksInv => CarriedOk' /\ RecordOk' /\ NakedOk'
    PROVE  CallInv' /\ (BooksInv => BooksInv')
  <1>1. TypeOK'
    BY DEF CallInv, TypeOK, history
  <1>2. StepsOk'
    BY DEF CallInv, StepsOk, At, AtMarket, DeploySteps, CloseSteps
  <1>3. InHandOk' /\ FlatOk'
    BY DEF InHandOk, FlatOk, At
  <1>4. StartedOk => StartedOk'
    BY DEF StartedOk, history
  <1> QED
    BY <1>1, <1>2, <1>3, <1>4 DEF CallInv, BooksInv

\* worker.ts 606-633: the end of a call leaves the adapter idle and every balance
\* alone.
LEMMA FinishIs ==
    ASSUME TypeOK, NEW r, NEW l, Finish(r, l)
    PROVE  /\ call' = Idle /\ calls' = calls /\ faults' = faults
           /\ unseen' \in BOOLEAN /\ doubled' \in BOOLEAN
  BY DEF Finish, TypeOK

\* The leg the deployment is at has a market.
LEMMA AtDeploy ==
    ASSUME CallInv, call.step \in DeploySteps \ {"cross"}
    PROVE  /\ TypeOK /\ call \in CallStates /\ call.op = "deploy" /\ ~At("idle")
           /\ AtMarket /\ Market \in Markets /\ (BooksInv => calls > 0)
  BY MarketIs DEF CallInv, BooksInv, TypeOK, StepsOk, StartedOk, At, DeploySteps

\* topUpMargin: what crosses leaves the wallet and, less the loss, becomes margin
\* that backs no short yet.
LEMMA CrossInv ==
    ASSUME CallInv, Cross
    PROVE  CallInv' /\ (BooksInv => BooksInv')
  <1>0. TypeOK /\ call \in CallStates /\ call.step = "cross" /\ UNCHANGED <<spot, perp>>
    BY DEF CallInv, TypeOK, Cross, At
  <1>1. call.op \in {"deploy", "topUpMargin"} /\ call.asked <= cash["base"] /\ call.asked \in Nat
    BY <1>0 DEF CallInv, StepsOk, InHandOk, At, CallStates
  <1>2. PICK loss \in Losses :
            /\ loss < call.asked
            /\ cash' = Move("base", "margin", call.asked, loss)
            /\ IF call.op = "topUpMargin"
               THEN /\ call' = Idle /\ UNCHANGED history
               ELSE Advance([Done(call, 2) EXCEPT !.step = "size", !.backing = call.asked - loss])
    BY DEF Cross
  <1>3. loss \in Nat
    BY VenueAssumption
  <1>4. PICK arrived \in Nat : arrived = call.asked - loss
    BY <1>1, <1>2, <1>3
  <1>5. /\ cash' \in [Places -> Nat]
        /\ cash'["margin"] = cash["margin"] + arrived /\ cash["margin"] \in Nat
    BY <1>0, <1>1, <1>2, <1>3, <1>4, MoveIs, SMTT(30) DEF Places, TypeOK
  <1>6. CASE call.op = "topUpMargin"
    BY <1>0, <1>2, <1>5, <1>6, EndsQuietly DEF history, TypeOK
  <1>7. CASE call.op = "deploy"
    <2>1. PICK d : d = Done(call, 2)
      OBVIOUS
    <2>2. d \in CallStates /\ d.op = "deploy" /\ d.at = call.at /\ d.rows = call.rows + 2
          /\ d.legs = call.legs + 2
      BY <1>0, <1>7, <2>1, DoneIs
    <2>3. call' = [d EXCEPT !.step = "size", !.backing = arrived] /\ UNCHANGED history
      BY <1>2, <1>4, <1>7, <2>1 DEF Advance
    <2>4. call' \in CallStates
      BY <2>2, <2>3 DEF CallStates, DeploySteps
    <2>5. /\ call'.op = "deploy" /\ call'.at = call.at /\ call'.step = "size"
          /\ call'.backing = arrived /\ call'.rows = call.rows + 2 /\ call'.legs = call.legs + 2
      BY <2>2, <2>3 DEF CallStates
    <2>6. BooksInv => CarriedOk'
      <3> SUFFICES ASSUME BooksInv PROVE CarriedOk'
        OBVIOUS
      <3>1. Sigma(perp) \in Nat /\ Sigma(perp) <= cash["margin"] * VenueLeverage
        BY <1>0, SigmaMoves DEF CallInv, BooksInv, CarriedOk, TypeOK
      <3>2. /\ cash["margin"] * VenueLeverage \in Nat
            /\ cash'["margin"] * VenueLeverage \in Nat
            /\ cash["margin"] * VenueLeverage <= cash'["margin"] * VenueLeverage
        BY <1>5, CeilingLeverage, Products
      <3>3. cash'["margin"] - arrived = cash["margin"]
        BY <1>5
      <3> QED
        BY <1>0, <1>5, <2>5, <3>1, <3>2, <3>3 DEF CarriedOk, At
    <2>7. GridOk' /\ SizedOk'
      BY <1>0, <2>5 DEF CallInv, GridOk, SizedOk, At
    <2>8. BooksInv => RecordOk'
      <3> SUFFICES ASSUME BooksInv PROVE RecordOk'
        OBVIOUS
      <3>1. call.rows \in Nat /\ call.legs \in Nat /\ faults' = faults
        BY <1>0, <2>3 DEF CallStates, history
      <3>2. faults \subseteq {"swap", "closeNaked"} => call.rows = call.legs
        BY <1>7 DEF CallInv, BooksInv, RecordOk
      <3> QED
        BY <2>5, <3>1, <3>2 DEF RecordOk, At
    <2>9. BooksInv => NakedOk'
      <3> SUFFICES ASSUME BooksInv PROVE NakedOk'
        OBVIOUS
      <3>1. Before' = Before /\ faults' = faults
        BY <2>3 DEF Before, Grain, history
      <3> QED
        BY <1>0, <2>5, <3>1 DEF CallInv, BooksInv, NakedOk, At, CloseSteps
    <2> QED
      BY <1>0, <1>5, <1>7, <2>3, <2>4, <2>5, <2>6, <2>7, <2>8, <2>9, DeployStep
         DEF At, TypeOK, DeploySteps
  <1> QED
    BY <1>1, <1>6, <1>7

\* venue.ts 601-612: a crossing that fails ends the call.
LEMMA CrossFailsInv ==
    ASSUME CallInv, CrossFails
    PROVE  CallInv' /\ (BooksInv => BooksInv')
  <1>0. TypeOK /\ call \in CallStates /\ call.step = "cross" /\ UNCHANGED <<spot, perp>>
    BY DEF CallInv, TypeOK, CrossFails, At
  <1>1. call.asked <= cash["base"] /\ call.asked \in Nat
    BY <1>0 DEF CallInv, InHandOk, At, CallStates
  <1>2. /\ call' = Idle /\ calls' = calls /\ faults' = faults
        /\ unseen' \in BOOLEAN /\ doubled' \in BOOLEAN
    BY <1>0, FinishIs DEF CrossFails, Throw
  <1>3. cash' \in [Places -> Nat] /\ cash'["margin"] = cash["margin"]
    <2>1. CASE UNCHANGED cash
      BY <1>0, <2>1 DEF TypeOK
    <2>2. CASE cash' = Move("base", "outbound", call.asked, 0)
      BY <1>0, <1>1, <2>2, MoveIs DEF Places
    <2>3. ASSUME NEW loss \in Losses, loss < call.asked,
                 cash' = Move("base", "solana", call.asked, loss)
          PROVE  cash' \in [Places -> Nat] /\ cash'["margin"] = cash["margin"]
      <3>1. loss \in Nat /\ loss <= call.asked
        BY <1>1, <2>3, VenueAssumption
      <3> QED
        BY <1>0, <1>1, <2>3, <3>1, MoveIs DEF Places
    <2> QED
      BY <2>1, <2>2, <2>3 DEF CrossFails
  <1> QED
    BY <1>0, <1>2, <1>3, EndsQuietly DEF TypeOK, Places

\* What is spent fits the margin that backs it, at the sizing leverage.
LEMMA SpendIs ==
    ASSUME NEW c \in CallStates, c = call
    PROVE  /\ Spend(c.backing) \in Nat /\ Spend(c.backing) <= c.notional
           /\ \A n \in Nat : n <= Spend(c.backing) => n * BPS <= c.backing * Leverage
  <1>1. c.backing \in Nat /\ c.notional \in Nat /\ BPS \in Nat \ {0} /\ Leverage \in Nat \ {0}
    BY VenueAssumption DEF CallStates
  <1>2. c.backing * Leverage \in Nat
    BY <1>1, Products
  <1>3. (c.backing * Leverage) \div BPS \in Nat
    BY <1>1, <1>2, Quotient
  <1>4. Spend(c.backing) \in Nat /\ Spend(c.backing) <= c.notional
        /\ Spend(c.backing) <= (c.backing * Leverage) \div BPS
    BY <1>1, <1>3 DEF Spend, Least
  <1>5. ASSUME NEW n \in Nat, n <= Spend(c.backing) PROVE n * BPS <= c.backing * Leverage
    BY <1>1, <1>2, <1>3, <1>4, <1>5, QuotientGreatest
  <1> QED
    BY <1>4, <1>5

\* venue.ts 664-732: the order is sized to the margin that arrived, or not
\* placed.
LEMMA SizeInv ==
    ASSUME CallInv, Size
    PROVE  CallInv' /\ (BooksInv => BooksInv')
  <1>0. /\ TypeOK /\ call \in CallStates /\ call.step = "size" /\ call.op = "deploy" /\ ~At("idle")
        /\ UNCHANGED <<cash, spot, perp>>
    BY AtDeploy DEF Size, At, DeploySteps
  <1>1. PICK spend \in Nat : spend = Spend(call.backing)
    BY <1>0, SpendIs
  <1>2. PICK units \in Nat : units = SnapToLot(spend)
    BY SnapIs
  <1>3. /\ spend <= call.notional /\ units <= spend /\ units \in OnGrid
        /\ units * BPS <= call.backing * Leverage
    BY <1>0, <1>1, <1>2, SpendIs, SnapIs
  <1>4. CASE ThrowVenue
    BY <1>0, <1>4, FinishIs, EndsQuietly DEF ThrowVenue, TypeOK, Places
  <1>5. CASE Advance([call EXCEPT !.step = "short", !.notional = spend, !.units = units])
    <2>1. /\ call' = [call EXCEPT !.step = "short", !.notional = spend, !.units = units]
          /\ UNCHANGED history
      BY <1>5 DEF Advance
    <2>2. call' \in CallStates
      BY <1>0, <2>1 DEF CallStates, DeploySteps
    <2>3. /\ call'.op = "deploy" /\ call'.at = call.at /\ call'.step = "short"
          /\ call'.backing = call.backing /\ call'.rows = call.rows /\ call'.legs = call.legs
          /\ call'.units = units /\ call'.notional = spend
      BY <1>0, <2>1 DEF CallStates
    <2>4. BooksInv => CarriedOk'
      BY <1>0, <1>3, <2>3 DEF CallInv, BooksInv, CarriedOk, At
    <2>5. GridOk' /\ SizedOk'
      BY <1>0, <1>3, <2>3 DEF CallInv, GridOk, SizedOk, At
    <2>6. BooksInv => RecordOk'
      BY <1>0, <2>1, <2>3 DEF CallInv, BooksInv, RecordOk, At, history
    <2>7. BooksInv => NakedOk'
      <3> SUFFICES ASSUME BooksInv PROVE NakedOk'
        OBVIOUS
      <3>1. Before' = Before /\ faults' = faults
        BY <2>1 DEF Before, Grain, history
      <3> QED
        BY <1>0, <1>3, <2>3, <3>1 DEF CallInv, BooksInv, NakedOk, At, CloseSteps
    <2> QED
      BY <1>0, <2>1, <2>2, <2>3, <2>4, <2>5, <2>6, <2>7, DeployStep DEF TypeOK, DeploySteps
  <1> QED
    BY <1>1, <1>2, <1>4, <1>5 DEF Size

\* venue.ts 318-344: a market that cannot be read ends the call with no leg open.
LEMMA SizeFailsInv ==
    ASSUME CallInv, SizeFails
    PROVE  CallInv' /\ (BooksInv => BooksInv')
  <1>0. TypeOK /\ call.step = "size" /\ UNCHANGED <<cash, spot, perp>>
    BY DEF CallInv, SizeFails, At
  <1>1. \E r, l : Finish(r, l)
    BY DEF SizeFails, ThrowVenue, Throw
  <1> QED
    BY <1>0, <1>1, FinishIs, EndsQuietly DEF TypeOK, Places

\* The order adds its lots to one short.
LEMMA ShortIs ==
    ASSUME CallInv, Short
    PROVE  /\ perp' = [perp EXCEPT ![Market] = perp[Market] + call.units]
           /\ perp' \in [Markets -> Nat] /\ Sigma(perp') = Sigma(perp) + call.units
           /\ Sigma(perp') <= cash["margin"] * VenueLeverage
           /\ \A m \in Markets : perp'[m] \in OnGrid
           /\ UNCHANGED <<cash, spot>> /\ Sigma(perp) \in Nat
  <1>0. /\ TypeOK /\ call \in CallStates /\ call.step = "short"
        /\ Market \in Markets /\ UNCHANGED <<cash, spot>>
    BY AtDeploy DEF Short, At, DeploySteps
  <1>1. /\ perp' = [perp EXCEPT ![Market] = perp[Market] + call.units]
        /\ Carried([perp EXCEPT ![Market] = perp[Market] + call.units])
    BY DEF Short
  <1>2. call.units \in Nat /\ call.units \in OnGrid /\ perp \in [Markets -> Nat]
    BY <1>0 DEF CallInv, GridOk, CallStates, TypeOK
  <1>3. perp' \in [Markets -> Nat]
    BY <1>0, <1>1, <1>2
  <1>4. Sigma(perp') = Sigma(perp) + call.units /\ Sigma(perp') \in Nat /\ Sigma(perp) \in Nat
    <2>1. perp'[Market] = perp[Market] + call.units
      BY <1>0, <1>1, <1>2
    <2>2. \A m \in Markets : m # Market => perp'[m] = perp[m]
      BY <1>0, <1>1, <1>2
    <2> QED
      BY <1>0, <1>2, <1>3, <2>1, <2>2, SigmaGrows, SigmaMoves
  <1>5. Sigma(perp') <= cash["margin"] * VenueLeverage
    <2>1. cash["margin"] \in Nat /\ CeilDiv(Sigma(perp'), VenueLeverage) <= cash["margin"]
      BY <1>0, <1>1 DEF Carried, TypeOK, Places
    <2> QED
      BY <1>4, <2>1, CeilingLeverage, CeilCovers
  <1>6. \A m \in Markets : perp'[m] \in OnGrid
    BY <1>0, <1>1, <1>2, GridCloses DEF CallInv, GridOk
  <1> QED
    BY <1>0, <1>1, <1>3, <1>4, <1>5, <1>6

\* venue.ts 738-765: the order opens whole lots and uses the margin that backs
\* them.
LEMMA ShortInv ==
    ASSUME CallInv, Short
    PROVE  CallInv' /\ (BooksInv => BooksInv')
  <1>0. /\ TypeOK /\ call \in CallStates /\ call.step = "short" /\ call.op = "deploy" /\ ~At("idle")
        /\ Market \in Markets /\ UNCHANGED <<cash, spot>>
    BY AtDeploy DEF Short, At, DeploySteps
  <1>1. /\ perp' = [perp EXCEPT ![Market] = perp[Market] + call.units]
        /\ perp' \in [Markets -> Nat]
        /\ Sigma(perp') <= cash["margin"] * VenueLeverage
        /\ \A m \in Markets : perp'[m] \in OnGrid
    BY ShortIs
  <1>2. CASE Fault("lostReply") /\ Finish(0, call.legs + 1)
    <2>1. ~(faults \subseteq CleanFaults)
      BY <1>2 DEF Fault, CleanFaults
    <2> QED
      BY <1>0, <1>1, <1>2, <2>1, FinishIs, EndsCall DEF TypeOK
  <1>3. CASE Advance([Done(call, 1) EXCEPT !.step = "buy"])
    <2>1. PICK d : d = Done(call, 1)
      OBVIOUS
    <2>2. /\ d \in CallStates /\ d.op = "deploy" /\ d.at = call.at /\ d.rows = call.rows + 1
          /\ d.legs = call.legs + 1 /\ d.units = call.units /\ d.notional = call.notional
      BY <1>0, <2>1, DoneIs
    <2>3. call' = [d EXCEPT !.step = "buy"] /\ UNCHANGED history
      BY <1>3, <2>1 DEF Advance
    <2>4. call' \in CallStates
      BY <2>2, <2>3 DEF CallStates, DeploySteps
    <2>5. /\ call'.op = "deploy" /\ call'.at = call.at /\ call'.step = "buy"
          /\ call'.rows = call.rows + 1 /\ call'.legs = call.legs + 1
          /\ call'.units = call.units /\ call'.notional = call.notional
      BY <2>2, <2>3 DEF CallStates
    <2>6. BooksInv => CarriedOk'
      BY <1>0, <1>1, <2>5 DEF CarriedOk, At
    <2>7. GridOk' /\ SizedOk'
      BY <1>0, <1>1, <2>5 DEF CallInv, GridOk, SizedOk, At
    <2>8. BooksInv => RecordOk'
      BY <1>0, <2>3, <2>5 DEF CallInv, BooksInv, RecordOk, At, CallStates, history
    <2>9. BooksInv => NakedOk'
      <3>1. Before' = Before /\ faults' = faults /\ Market' = Market
        BY <2>3, <2>5 DEF Before, Grain, history, Market
      <3> SUFFICES ASSUME BooksInv, faults \subseteq CleanFaults PROVE NakedOk'
        BY <3>1 DEF NakedOk
      <3>2. Backed(spot, perp, Before) /\ call.units <= call.notional /\ Before \in Nat
        BY <1>0, AtDeploy, SlackIs DEF CallInv, BooksInv, NakedOk, DeploySteps
      <3>3. \A m \in Markets :
               perp'[m] <= spot[m] + Before + (IF m = Market THEN call.units ELSE 0)
        BY <1>0, <1>1, <3>2 DEF Backed, TypeOK, CallStates
      <3> QED
        BY <1>0, <2>5, <3>1, <3>2, <3>3 DEF NakedOk, At, CloseSteps
    <2> QED
      BY <1>0, <1>1, <2>3, <2>4, <2>5, <2>6, <2>7, <2>8, <2>9, DeployStep DEF TypeOK, DeploySteps
  <1> QED
    BY <1>2, <1>3 DEF Short

\* venue.ts 732-753: an order that is refused opens nothing and ends the call.
LEMMA ShortRefusedInv ==
    ASSUME CallInv, ShortRefused
    PROVE  CallInv' /\ (BooksInv => BooksInv')
  <1>0. TypeOK /\ call.step = "short" /\ UNCHANGED <<cash, spot, perp>> /\ Throw
    BY DEF CallInv, ShortRefused, At
  <1> QED
    BY <1>0, FinishIs, EndsQuietly DEF TypeOK, Places, Throw

\* The swap pays the notional and gives it back in spot, less a slip.
LEMMA BoughtIs ==
    ASSUME CallInv, call.step = "buy", Bought
    PROVE  /\ cash' \in [Places -> Nat] /\ cash'["margin"] = cash["margin"]
           /\ spot' \in [Markets -> Nat]
           /\ \A m \in Markets : m # Market => spot'[m] = spot[m]
           /\ spot[Market] + call.notional <= spot'[Market] + Max(Slips)
  <1>0. /\ TypeOK /\ call \in CallStates /\ Market \in Markets /\ call.notional \in Nat
        /\ cash \in [Places -> Nat] /\ spot \in [Markets -> Nat]
    BY AtDeploy DEF DeploySteps, CallStates, TypeOK
  <1>1. call.notional <= cash["base"] /\ cash' = [cash EXCEPT !["base"] = cash["base"] - call.notional]
    BY <1>0 DEF Bought, Places
  <1>2. PICK slip \in Slips :
            /\ slip <= call.notional
            /\ spot' = [spot EXCEPT ![Market] = spot[Market] + call.notional - slip]
    BY DEF Bought
  <1>3. slip \in Nat /\ slip <= Max(Slips) /\ Max(Slips) \in Nat
    BY WorstSlip, VenueAssumption
  <1>4. PICK b \in Nat : b = cash["base"] - call.notional
    BY <1>0, <1>1 DEF Places
  <1>5. PICK s \in Nat : s = spot[Market] + call.notional - slip
    BY <1>0, <1>2, <1>3
  <1>6. cash' \in [Places -> Nat] /\ cash'["margin"] = cash["margin"]
    BY <1>0, <1>1, <1>4 DEF Places
  <1>7. spot' = [spot EXCEPT ![Market] = s]
    BY <1>2, <1>5
  <1>8. spot' \in [Markets -> Nat] /\ spot'[Market] = s
        /\ \A m \in Markets : m # Market => spot'[m] = spot[m]
    BY <1>0, <1>7
  <1>9. spot[Market] + call.notional <= s + Max(Slips)
    BY <1>0, <1>3, <1>5
  <1> QED
    BY <1>6, <1>8, <1>9

\* venue.ts 767-814: the swap covers the short but for its slip and ends the
\* call.
LEMMA BuyInv ==
    ASSUME CallInv, Buy
    PROVE  CallInv' /\ (BooksInv => BooksInv')
  <1>0. /\ TypeOK /\ call \in CallStates /\ call.step = "buy" /\ call.op = "deploy" /\ ~At("idle")
        /\ Market \in Markets /\ UNCHANGED perp /\ Bought /\ (BooksInv => calls > 0)
        /\ perp' \in [Markets -> Nat]
    BY AtDeploy DEF Buy, At, DeploySteps, TypeOK
  <1>1. /\ cash' \in [Places -> Nat] /\ cash'["margin"] = cash["margin"]
        /\ spot' \in [Markets -> Nat]
        /\ \A m \in Markets : m # Market => spot'[m] = spot[m]
        /\ spot[Market] + call.notional <= spot'[Market] + Max(Slips)
    BY <1>0, BoughtIs
  <1>2. CASE Finish(call.rows + 1, call.legs + 1)
    <2>1. /\ BooksInv => Sigma(perp') <= cash'["margin"] * VenueLeverage
          /\ \A m \in Markets : perp'[m] \in OnGrid
      BY <1>0, <1>1 DEF CallInv, BooksInv, CarriedOk, GridOk
    <2>2. ASSUME BooksInv, faults \subseteq CleanFaults, NEW m \in Markets
          PROVE  perp[m] <= spot'[m] + Slack
      <3>1. /\ perp[m] <= spot[m] + Before + (IF m = Market THEN call.units ELSE 0)
            /\ call.units <= call.notional
        BY <1>0, <2>2 DEF CallInv, BooksInv, NakedOk
      <3>2. /\ Before \in Nat /\ Slack = Before + Grain /\ Grain = (Lot - 1) + Max(Slips)
            /\ Lot - 1 \in Nat /\ Max(Slips) \in Nat
        BY <1>0, <2>2, SlackIs
      <3>3. perp[m] \in Nat /\ spot[m] \in Nat /\ spot'[m] \in Nat /\ call.units \in Nat
            /\ call.notional \in Nat
        BY <1>0, <1>1 DEF TypeOK, CallStates
      <3>4. CASE m = Market
        <4> HIDE DEF Grain
        <4> QED
          BY <1>1, <3>1, <3>2, <3>3, <3>4
      <3>5. CASE m # Market
        BY <1>1, <3>1, <3>2, <3>3, <3>5
      <3> QED
        BY <3>4, <3>5
    <2> QED
      BY <1>0, <1>1, <1>2, <2>1, <2>2, FinishIs, EndsCall DEF Backed
  <1>3. CASE Fault("lostReply") /\ Advance([call EXCEPT !.step = "naked", !.legs = @ + 1])
    <2>0. ~(faults \subseteq CleanFaults) /\ ~(faults \subseteq {"swap", "closeNaked"})
      BY <1>3 DEF Fault, CleanFaults
    <2>1. PICK l \in Nat : l = call.legs + 1
      BY <1>0 DEF CallStates
    <2>2. call' = [call EXCEPT !.step = "naked", !.legs = l] /\ UNCHANGED history
      BY <1>3, <2>1 DEF Advance
    <2>3. call' \in CallStates
      BY <1>0, <2>2 DEF CallStates, DeploySteps
    <2>4. /\ call'.op = "deploy" /\ call'.at = call.at /\ call'.step = "naked"
          /\ call'.units = call.units
      BY <1>0, <2>2 DEF CallStates
    <2>5. GridOk' /\ SizedOk' /\ (BooksInv => CarriedOk')
      BY <1>0, <1>1, <2>4 DEF CallInv, BooksInv, CarriedOk, GridOk, SizedOk, At
    <2>6. RecordOk' /\ NakedOk'
      BY <2>0, <2>2 DEF RecordOk, NakedOk, history
    <2> QED
      BY <1>0, <1>1, <2>2, <2>3, <2>4, <2>5, <2>6, DeployStep DEF DeploySteps
  <1> QED
    BY <1>2, <1>3 DEF Buy

\* venue.ts 775-797: a swap that fails sends the call to close the naked short.
LEMMA BuyFailsInv ==
    ASSUME CallInv, BuyFails
    PROVE  CallInv' /\ (BooksInv => BooksInv')
  <1>0. /\ TypeOK /\ call \in CallStates /\ call.step = "buy" /\ call.op = "deploy" /\ ~At("idle")
        /\ UNCHANGED <<cash, spot, perp>>
    BY AtDeploy DEF BuyFails, At, DeploySteps
  <1>1. call' = [call EXCEPT !.step = "naked"] /\ UNCHANGED history
    BY DEF BuyFails, AfterFailedBuy, Advance
  <1>2. call' \in CallStates
    BY <1>0, <1>1 DEF CallStates, DeploySteps
  <1>3. /\ call'.op = "deploy" /\ call'.at = call.at /\ call'.step = "naked"
        /\ call'.units = call.units /\ call'.rows = call.rows /\ call'.legs = call.legs
    BY <1>0, <1>1 DEF CallStates
  <1>4. GridOk' /\ SizedOk' /\ (BooksInv => CarriedOk')
    BY <1>0, <1>3 DEF CallInv, BooksInv, CarriedOk, GridOk, SizedOk, At
  <1>5. BooksInv => RecordOk'
    BY <1>0, <1>1, <1>3 DEF CallInv, BooksInv, RecordOk, At, history
  <1>6. BooksInv => NakedOk'
    <2> SUFFICES ASSUME BooksInv PROVE NakedOk'
      OBVIOUS
    <2>1. Before' = Before /\ faults' = faults /\ Market' = Market
      BY <1>1, <1>3 DEF Before, Grain, history, Market
    <2> QED
      BY <1>0, <1>3, <2>1 DEF CallInv, BooksInv, NakedOk, At, CloseSteps
  <1> QED
    BY <1>0, <1>1, <1>2, <1>3, <1>4, <1>5, <1>6, DeployStep DEF DeploySteps, TypeOK

\* venue.ts 767-799: a swap whose balance was not read leaves the short as it is.
LEMMA BuyUnreadInv ==
    ASSUME CallInv, BuyUnread
    PROVE  CallInv' /\ (BooksInv => BooksInv')
  <1>0. TypeOK /\ call.step = "buy" /\ UNCHANGED perp /\ Throw
    BY DEF CallInv, BuyUnread, At
  <1>1. ~(faults \subseteq CleanFaults)
    BY DEF BuyUnread, Fault, CleanFaults
  <1>2. /\ cash' \in [Places -> Nat] /\ spot' \in [Markets -> Nat]
        /\ cash'["margin"] = cash["margin"]
    BY <1>0, BoughtIs DEF BuyUnread, TypeOK
  <1>3. /\ BooksInv => Sigma(perp') <= cash'["margin"] * VenueLeverage
        /\ perp' \in [Markets -> Nat] /\ \A m \in Markets : perp'[m] \in OnGrid
    BY <1>0, <1>2 DEF CallInv, BooksInv, CarriedOk, GridOk, TypeOK
  <1> QED
    BY <1>0, <1>1, <1>2, <1>3, FinishIs, EndsCall DEF Throw

\* A reduce-only order leaves no more, and whole lots.
LEMMA ReducedIs ==
    ASSUME CallInv, NEW m \in Markets, NEW n \in OnGrid,
           perp' = [perp EXCEPT ![m] = ReduceOnly(perp[m], n)]
    PROVE  /\ perp' \in [Markets -> Nat] /\ Sigma(perp') <= Sigma(perp)
           /\ \A o \in Markets : perp'[o] <= perp[o] /\ perp'[o] \in OnGrid
           /\ \A o \in Markets : o # m => perp'[o] = perp[o]
           /\ perp'[m] = Most(0, perp[m] - n)
  <1>1. perp \in [Markets -> Nat] /\ \A o \in Markets : perp[o] \in OnGrid
    BY DEF CallInv, TypeOK, GridOk
  <1>2. PICK k \in Nat : k = ReduceOnly(perp[m], n)
    BY <1>1, GridCloses DEF ReduceOnly, Most
  <1>3. k \in OnGrid /\ k <= perp[m]
    BY <1>1, <1>2, GridCloses DEF ReduceOnly, Most
  <1>4. perp' = [perp EXCEPT ![m] = k]
    BY <1>2
  <1>5. perp' \in [Markets -> Nat] /\ \A o \in Markets : perp'[o] <= perp[o] /\ perp'[o] \in OnGrid
    BY <1>1, <1>3, <1>4
  <1>6. Sigma(perp') <= Sigma(perp)
    BY <1>1, <1>5, SigmaMoves
  <1> QED
    BY <1>1, <1>2, <1>4, <1>5, <1>6 DEF ReduceOnly

\* venue.ts 1647-1679: the clean-up buys back the lots, or fails and leaves them
\* to a later tick.
LEMMA CloseNakedInv ==
    ASSUME CallInv, CloseNaked
    PROVE  CallInv' /\ (BooksInv => BooksInv')
  <1>0. /\ TypeOK /\ call \in CallStates /\ call.step = "naked" /\ Market \in Markets
        /\ (BooksInv => calls > 0) /\ UNCHANGED <<cash, spot>>
        /\ cash' \in [Places -> Nat] /\ spot' \in [Markets -> Nat] /\ perp \in [Markets -> Nat]
    BY AtDeploy DEF CloseNaked, At, DeploySteps, TypeOK
  <1>1. CASE /\ perp' = [perp EXCEPT ![Market] = ReduceOnly(@, call.units)]
             /\ Finish(call.rows + 1, call.legs + 1)
    <2>1. call.units \in OnGrid /\ call.units \in Nat
      BY <1>0 DEF CallInv, GridOk, CallStates
    <2>2. /\ perp' \in [Markets -> Nat] /\ Sigma(perp') <= Sigma(perp)
          /\ \A m \in Markets : perp'[m] <= perp[m] /\ perp'[m] \in OnGrid
          /\ \A m \in Markets : m # Market => perp'[m] = perp[m]
          /\ perp'[Market] = Most(0, perp[Market] - call.units)
      BY <1>0, <1>1, <2>1, ReducedIs
    <2>3. BooksInv => Sigma(perp') <= cash'["margin"] * VenueLeverage
      <3>1. Sigma(perp) \in Nat /\ Sigma(perp') \in Nat
        BY <1>0, <2>2, SigmaMoves
      <3>2. cash["margin"] * VenueLeverage \in Nat
        BY <1>0, CeilingLeverage, Products DEF TypeOK, Places
      <3> QED
        BY <1>0, <2>2, <3>1, <3>2 DEF CallInv, BooksInv, CarriedOk
    <2>4. ASSUME BooksInv, faults \subseteq CleanFaults, NEW m \in Markets
          PROVE  perp'[m] <= spot'[m] + Slack
      <3>1. perp[m] <= spot[m] + Before + (IF m = Market THEN call.units ELSE 0)
        BY <1>0, <2>4 DEF CallInv, BooksInv, NakedOk
      <3>2. Before \in Nat /\ Slack = Before + Grain /\ Grain \in Nat
        BY <1>0, <2>4, SlackIs
      <3>3. perp[m] \in Nat /\ spot[m] \in Nat
        BY <1>0 DEF TypeOK
      <3>4. CASE m = Market
        BY <1>0, <2>1, <2>2, <3>1, <3>2, <3>3, <3>4 DEF Most
      <3>5. CASE m # Market
        BY <1>0, <2>2, <3>1, <3>2, <3>3, <3>5
      <3> QED
        BY <3>4, <3>5
    <2> QED
      BY <1>0, <1>1, <2>2, <2>3, <2>4, FinishIs, EndsCall DEF Backed
  <1>2. CASE Fault("closeNaked") /\ UNCHANGED perp /\ ThrowVenue
    <2>1. ~(faults \subseteq CleanFaults)
      BY <1>2 DEF Fault, CleanFaults
    <2>2. /\ BooksInv => Sigma(perp') <= cash'["margin"] * VenueLeverage
          /\ \A m \in Markets : perp'[m] \in OnGrid
      BY <1>0, <1>2 DEF CallInv, BooksInv, CarriedOk, GridOk
    <2> QED
      BY <1>0, <1>2, <2>1, <2>2, FinishIs, EndsCall DEF ThrowVenue
  <1> QED
    BY <1>1, <1>2 DEF CloseNaked


-----------------------------------------------------------------------------
\* Steps of an unwind and of a close.

\* A step that stays inside of one leaves these parts to show.
LEMMA CloseStep ==
    ASSUME CallInv, call.op \in {"unwind", "closeAll"}, ~At("idle"), UNCHANGED history,
           call' \in CallStates, call'.op = call.op, call'.step \in CloseSteps,
           call'.step \in {"reduce", "sell"} => call'.at \in DOMAIN MarketOrder,
           cash' \in [Places -> Nat], spot' \in [Markets -> Nat], perp' \in [Markets -> Nat],
           call.op = "unwind" => call'.raised <= cash'["base"],
           \A m \in Markets : perp'[m] \in OnGrid, FlatOk',
           BooksInv => Sigma(perp') <= cash'["margin"] * VenueLeverage,
           BooksInv => RecordOk' /\ NakedOk'
    PROVE  CallInv' /\ (BooksInv => BooksInv')
  <1>1. TypeOK'
    BY DEF CallInv, TypeOK, history
  <1>2. StepsOk'
    BY DEF CallInv, StepsOk, At, AtMarket, DeploySteps, CloseSteps
  <1>3. InHandOk' /\ SizedOk' /\ GridOk'
    BY DEF InHandOk, SizedOk, GridOk, At, CloseSteps
  <1>4. BooksInv => CarriedOk' /\ StartedOk'
    BY DEF BooksInv, CarriedOk, StartedOk, history, At, CloseSteps
  <1> QED
    BY <1>1, <1>2, <1>3, <1>4 DEF CallInv, BooksInv

\* What is known in every such step.
LEMMA AtClose ==
    ASSUME CallInv, call.step \in CloseSteps
    PROVE  /\ TypeOK /\ call \in CallStates /\ call.op \in {"unwind", "closeAll"} /\ ~At("idle")
           /\ cash \in [Places -> Nat] /\ spot \in [Markets -> Nat] /\ perp \in [Markets -> Nat]
           /\ Sigma(perp) \in Nat
           /\ BooksInv => calls > 0 /\ Sigma(perp) <= cash["margin"] * VenueLeverage
           /\ \A m \in Markets : perp[m] \in OnGrid
           /\ call.op = "unwind" => call.raised <= cash["base"]
           /\ call.step \in {"reduce", "sell"} => AtMarket /\ Market \in Markets
           /\ Slack' = calls' * Grain /\ Grain' = Grain /\ Before' = (calls' - 1) * Grain
  <1>1. TypeOK /\ call \in CallStates /\ (BooksInv => calls > 0) /\ call.op \in {"unwind", "closeAll"} /\ ~At("idle")
    BY DEF CallInv, BooksInv, TypeOK, StepsOk, StartedOk, At, CloseSteps
  <1>2. call.step \in {"reduce", "sell"} => AtMarket /\ Market \in Markets
    BY MarketIs DEF CallInv, StepsOk
  <1>3. /\ Sigma(perp) \in Nat
        /\ BooksInv => Sigma(perp) <= cash["margin"] * VenueLeverage
    BY SigmaMoves DEF CallInv, BooksInv, TypeOK, CarriedOk
  <1>4. Slack' = calls' * Grain /\ Grain' = Grain /\ Before' = (calls' - 1) * Grain
    BY DEF Slack, Grain, Before
  <1> QED
    BY <1>1, <1>2, <1>3, <1>4 DEF CallInv, TypeOK, GridOk, InHandOk

\* The margin as it is goes on carrying shorts that do not grow.
LEMMA StillCarried ==
    ASSUME VInv, perp' \in [Markets -> Nat], \A m \in Markets : perp'[m] <= perp[m],
           cash' \in [Places -> Nat], cash["margin"] <= cash'["margin"]
    PROVE  Sigma(perp') <= cash'["margin"] * VenueLeverage
  <1>1. Sigma(perp) \in Nat /\ Sigma(perp') \in Nat /\ Sigma(perp') <= Sigma(perp)
        /\ Sigma(perp) <= cash["margin"] * VenueLeverage
    BY SigmaMoves DEF VInv, CallInv, BooksInv, CarriedOk, TypeOK
  <1>2. cash["margin"] \in Nat /\ cash'["margin"] \in Nat
    BY DEF VInv, CallInv, TypeOK, Places
  <1>3. /\ cash["margin"] * VenueLeverage \in Nat /\ cash'["margin"] * VenueLeverage \in Nat
        /\ cash["margin"] * VenueLeverage <= cash'["margin"] * VenueLeverage
    BY <1>2, CeilingLeverage, Products
  <1> QED
    BY <1>1, <1>3

\* A leg that throws ends an unwind; a close counts it and goes to the next market.
LEMMA LegThrowsInv ==
    ASSUME CallInv, call.step \in {"reduce", "sell"}, NEW carried \in BOOLEAN, NEW legs \in Nat,
           LegThrows(carried, legs),
           faults \subseteq {"swap", "closeNaked"} => carried /\ legs = call.legs,
           cash' \in [Places -> Nat], cash'["margin"] = cash["margin"],
           spot' \in [Markets -> Nat], perp' \in [Markets -> Nat],
           \A m \in Markets : perp'[m] <= perp[m] /\ perp'[m] \in OnGrid,
           faults \subseteq CleanFaults => UNCHANGED <<spot, perp>>
    PROVE  CallInv' /\ (BooksInv => BooksInv')
  <1>0. /\ TypeOK /\ call \in CallStates /\ call.op \in {"unwind", "closeAll"} /\ ~At("idle")
        /\ call.step \in CloseSteps
    BY AtClose DEF CloseSteps
  <1>1. BooksInv => Sigma(perp') <= cash'["margin"] * VenueLeverage
    <2>1. cash["margin"] <= cash'["margin"]
      BY <1>0 DEF TypeOK, Places
    <2> QED
      BY <2>1, StillCarried DEF VInv
  <1>2. BooksInv /\ faults \subseteq CleanFaults => Backed(spot', perp', Slack)
    BY <1>0, BackedNow DEF VInv, CloseSteps
  <1>3. CASE call.op = "unwind"
    <2>1. \E r : Finish(r, legs)
      BY <1>3 DEF LegThrows
    <2> QED
      BY <1>0, <1>1, <1>2, <2>1, FinishIs, EndsCall
  <1>4. CASE call.op = "closeAll"
    <2>1. PICK d : d = NextMarket(call)
      OBVIOUS
    <2>2. /\ d \in CallStates /\ d.at = call.at + 1 /\ d.step = "close" /\ d.op = "closeAll"
          /\ d.rows = call.rows /\ d.failures = call.failures
      BY <1>0, <1>4, <2>1, NextMarketIs
    <2>3. call.rows \in Nat /\ call.failures \in Nat /\ call.at \in Nat \ {0}
      BY <1>0 DEF CallStates
    <2>4. PICK r \in Nat : r = IF carried THEN 2 * call.rows ELSE call.rows
      BY <2>3
    <2>5. PICK f \in Nat \ {0} : f = call.failures + 1
      BY <2>3
    <2>6. call' = [d EXCEPT !.failures = f, !.legs = legs, !.rows = r] /\ UNCHANGED history
      <3>1. Advance([d EXCEPT !.failures = d.failures + 1, !.legs = legs,
                              !.rows = IF carried THEN 2 * d.rows ELSE d.rows])
        BY <1>4, <2>1 DEF LegThrows
      <3> QED
        BY <2>2, <2>4, <2>5, <3>1 DEF Advance
    <2>7. call' \in CallStates
      BY <2>2, <2>6 DEF CallStates
    <2>8. /\ call'.op = "closeAll" /\ call'.step = "close" /\ call'.at = call.at + 1
          /\ call'.failures = f /\ call'.legs = legs /\ call'.rows = r
      BY <2>2, <2>6 DEF CallStates
    <2>9. FlatOk'
      BY <2>5, <2>8 DEF FlatOk
    <2>10. BooksInv => RecordOk'
      <3> SUFFICES ASSUME BooksInv PROVE RecordOk'
        OBVIOUS
      <3>1. faults \subseteq {"swap", "closeNaked"} => legs <= r
        <4>1. faults \subseteq {"swap", "closeNaked"} => call.legs <= call.rows
          BY DEF CallInv, BooksInv, RecordOk
        <4> QED
          BY <2>3, <2>4, <4>1
      <3>2. faults' = faults
        BY <2>6 DEF history
      <3> QED
        BY <2>8, <3>1, <3>2 DEF RecordOk, At
    <2>11. BooksInv => NakedOk'
      <3>1. Before' = Before /\ Slack' = Slack /\ faults' = faults
        BY <2>6 DEF Before, Slack, Grain, history
      <3> SUFFICES ASSUME BooksInv, faults \subseteq CleanFaults PROVE NakedOk'
        BY <3>1 DEF NakedOk
      <3>2. \A i \in DOMAIN MarketOrder :
                i >= call.at + 1 => perp[MarketOrder[i]] <= spot[MarketOrder[i]] + Before
        <4>1. \A i \in DOMAIN MarketOrder :
                i >= call.at => perp[MarketOrder[i]] <= spot[MarketOrder[i]] + Before
          BY <1>0 DEF CallInv, BooksInv, NakedOk
        <4> QED
          BY <2>3, <4>1, MarketsFinite
      <3> QED
        BY <1>2, <2>8, <3>1, <3>2 DEF NakedOk, At, CloseSteps
    <2> QED
      BY <1>0, <1>1, <1>4, <2>6, <2>7, <2>8, <2>9, <2>10, <2>11, CloseStep DEF CloseSteps
  <1> QED
    BY <1>0, <1>3, <1>4

\* A step of a call that leaves every leg alone leaves every short as backed.
LEMMA NakedKept ==
    ASSUME CallInv, call.step \in CloseSteps, UNCHANGED <<spot, perp, history>>,
           call'.step \in CloseSteps \ {"sell"}, call' \in CallStates, call.at <= call'.at
    PROVE  BooksInv => NakedOk'
  <1>1. Before' = Before /\ Slack' = Slack /\ faults' = faults
    BY DEF Before, Slack, Grain, history
  <1> SUFFICES ASSUME BooksInv, faults \subseteq CleanFaults PROVE NakedOk'
    BY <1>1 DEF NakedOk
  <1>2. /\ Backed(spot, perp, Slack)
        /\ \A i \in DOMAIN MarketOrder :
              i >= call.at => perp[MarketOrder[i]] <= spot[MarketOrder[i]] + Before
    BY DEF CallInv, BooksInv, NakedOk
  <1>3. \A i \in DOMAIN MarketOrder :
            i >= call'.at => perp[MarketOrder[i]] <= spot[MarketOrder[i]] + Before
    <2>1. call.at \in Nat /\ call'.at \in Nat
      BY DEF CallInv, TypeOK, CallStates
    <2> QED
      BY <1>2, <2>1, MarketsFinite
  <1> QED
    BY <1>1, <1>2, <1>3 DEF NakedOk, At, CloseSteps

\* venue.ts 1031-1058: a close sets out for both legs of a market in whole, an
\* unwind for its slice.
LEMMA CloseMarketInv ==
    ASSUME CallInv, CloseMarket
    PROVE  CallInv' /\ (BooksInv => BooksInv')
  <1>0. /\ call.step = "close" /\ call.step \in CloseSteps /\ UNCHANGED <<cash, spot, perp>>
    BY DEF CloseMarket, At, CloseSteps
  <1>1. /\ TypeOK /\ call \in CallStates /\ call.op \in {"unwind", "closeAll"} /\ ~At("idle")
        /\ call.op = "unwind" => call.raised <= cash["base"]
        /\ BooksInv => Sigma(perp) <= cash["margin"] * VenueLeverage
        /\ \A m \in Markets : perp[m] \in OnGrid
        /\ cash' \in [Places -> Nat] /\ spot' \in [Markets -> Nat] /\ perp' \in [Markets -> Nat]
    BY <1>0, AtClose
  <1>2. call.at \in Nat \ {0}
    BY <1>1 DEF CallStates
  <1>3. ASSUME ~AtMarket, Advance([call EXCEPT !.step = "repatriate"])
        PROVE  CallInv' /\ (BooksInv => BooksInv')
    <2>1. call' = [call EXCEPT !.step = "repatriate"] /\ UNCHANGED history
      BY <1>3 DEF Advance
    <2>2. call' \in CallStates
      BY <1>1, <2>1 DEF CallStates, CloseSteps
    <2>3. /\ call'.op = call.op /\ call'.step = "repatriate" /\ call'.at = call.at
          /\ call'.raised = call.raised /\ call'.rows = call.rows /\ call'.legs = call.legs
          /\ call'.failures = call.failures
      BY <1>1, <2>1 DEF CallStates
    <2>4. \A i \in DOMAIN MarketOrder : i < call.at
      BY <1>2, <1>3, MarketsFinite DEF AtMarket
    <2>5. FlatOk'
      BY <1>0, <2>3, <2>4 DEF CallInv, FlatOk, At
    <2>6. BooksInv => RecordOk'
      BY <1>0, <2>1, <2>3 DEF CallInv, BooksInv, RecordOk, At, history
    <2>7. BooksInv => NakedOk'
      BY <1>0, <1>2, <2>1, <2>2, <2>3, NakedKept DEF CloseSteps
    <2> QED
      BY <1>0, <1>1, <2>1, <2>2, <2>3, <2>5, <2>6, <2>7, CloseStep DEF CloseSteps
  <1>4. ASSUME AtMarket PROVE ToClose \in Nat /\ Market \in Markets
    BY <1>1, <1>4, MarketIs DEF ToClose, Most, TypeOK, CallStates
  <1>5. ASSUME AtMarket, ToClose = 0, Advance(NextMarket(call))
        PROVE  CallInv' /\ (BooksInv => BooksInv')
    <2>1. call' = NextMarket(call) /\ UNCHANGED history
      BY <1>5 DEF Advance
    <2>2. /\ call' \in CallStates /\ call'.op = call.op /\ call'.step = "close"
          /\ call'.at = call.at + 1 /\ call'.failures = call.failures
          /\ call'.raised = call.raised /\ call'.rows = call.rows /\ call'.legs = call.legs
      BY <1>1, <2>1, NextMarketIs
    <2>3. FlatOk'
      <3> SUFFICES ASSUME call.op = "closeAll", call.failures = 0 PROVE FlatOk'
        BY <2>2 DEF FlatOk
      <3>1. spot[Market] = 0 /\ perp[Market] = 0
        BY <1>1, <1>4, <1>5 DEF ToClose, Most, TypeOK
      <3>2. \A i \in DOMAIN MarketOrder :
                i < call.at + 1 => spot[MarketOrder[i]] = 0 /\ perp[MarketOrder[i]] = 0
        <4>1. \A i \in DOMAIN MarketOrder : i < call.at + 1 => i < call.at \/ i = call.at
          BY <1>2, MarketsFinite
        <4>2. \A i \in DOMAIN MarketOrder :
                i < call.at => spot[MarketOrder[i]] = 0 /\ perp[MarketOrder[i]] = 0
          BY DEF CallInv, FlatOk
        <4> QED
          BY <3>1, <4>1, <4>2 DEF Market
      <3> QED
        BY <1>0, <2>2, <3>2 DEF FlatOk, At
    <2>4. BooksInv => RecordOk'
      BY <1>0, <2>1, <2>2 DEF CallInv, BooksInv, RecordOk, At, history
    <2>5. BooksInv => NakedOk'
      BY <1>0, <1>2, <2>1, <2>2, NakedKept DEF CloseSteps
    <2> QED
      BY <1>0, <1>1, <2>1, <2>2, <2>3, <2>4, <2>5, CloseStep DEF CloseSteps
  <1>6. ASSUME AtMarket, Advance([call EXCEPT !.step = CloseOrder[1], !.units = ToClose])
        PROVE  CallInv' /\ (BooksInv => BooksInv')
    <2>1. PICK n \in Nat : n = ToClose
      BY <1>4, <1>6
    <2>2. call' = [call EXCEPT !.step = "reduce", !.units = n] /\ UNCHANGED history
      BY <1>6, <2>1 DEF Advance, CloseOrder
    <2>3. call' \in CallStates
      BY <1>1, <2>2 DEF CallStates, CloseSteps
    <2>4. /\ call'.op = call.op /\ call'.step = "reduce" /\ call'.at = call.at
          /\ call'.raised = call.raised /\ call'.rows = call.rows /\ call'.legs = call.legs
          /\ call'.failures = call.failures /\ call'.units = n
      BY <1>1, <2>2 DEF CallStates
    <2>5. FlatOk'
      <3> SUFFICES ASSUME call.op = "closeAll", call.failures = 0 PROVE FlatOk'
        BY <2>4 DEF FlatOk
      <3>1. spot[Market] <= n /\ perp[Market] <= n
        BY <1>1, <1>4, <1>6, <2>1 DEF ToClose, Most, TypeOK
      <3>2. Market' = Market
        BY <2>4 DEF Market
      <3> QED
        BY <1>0, <2>4, <3>1, <3>2 DEF CallInv, FlatOk, At
    <2>6. BooksInv => RecordOk'
      BY <1>0, <2>2, <2>4 DEF CallInv, BooksInv, RecordOk, At, history
    <2>7. BooksInv => NakedOk'
      BY <1>0, <1>2, <2>2, <2>3, <2>4, NakedKept DEF CloseSteps
    <2>8. call'.at \in DOMAIN MarketOrder
      BY <1>6, <2>4 DEF AtMarket
    <2> QED
      BY <1>0, <1>1, <2>2, <2>3, <2>4, <2>5, <2>6, <2>7, <2>8, CloseStep DEF CloseSteps
  <1> QED
    BY <1>3, <1>5, <1>6 DEF CloseMarket

\* venue.ts 1032-1039: a market that cannot be read is a failed leg.
LEMMA CloseReadFailsInv ==
    ASSUME CallInv, CloseReadFails
    PROVE  CallInv' /\ (BooksInv => BooksInv')
  <1>0. TypeOK /\ call.step = "close" /\ UNCHANGED <<cash, spot, perp>> /\ Throw
    BY DEF CallInv, CloseReadFails, At
  <1> QED
    BY <1>0, FinishIs, EndsQuietly DEF TypeOK, Places, Throw

\* What is recorded of a leg that may have been too small to trade.
Recorded(n) == IF n = 0 THEN call ELSE Done(call, 1)

\* What a leg's order and swap add to the record.
LEMMA RecordedIs ==
    ASSUME CallInv, NEW n
    PROVE  \E c \in CallStates :
              /\ c = Recorded(n) /\ c.op = call.op /\ c.step = call.step /\ c.at = call.at
              /\ c.units = call.units /\ c.raised = call.raised /\ c.failures = call.failures
              /\ BooksInv /\ faults \subseteq {"swap", "closeNaked"} =>
                    c.legs <= c.rows /\ (call.op # "closeAll" => c.rows = c.legs)
  <1>0. call \in CallStates /\ call.rows \in Nat /\ call.legs \in Nat
    BY DEF CallInv, TypeOK, CallStates
  <1>1. CASE n = 0
    BY <1>0, <1>1 DEF Recorded, CallInv, BooksInv, RecordOk
  <1>2. CASE n # 0
    <2>1. PICK c : c = Done(call, 1)
      OBVIOUS
    <2>2. /\ c \in CallStates /\ c.op = call.op /\ c.step = call.step /\ c.at = call.at
          /\ c.units = call.units /\ c.raised = call.raised /\ c.failures = call.failures
          /\ c.rows = call.rows + 1 /\ c.legs = call.legs + 1
      <3>1. call \in CallStates
        BY <1>0
      <3> QED
        BY <2>1, <3>1, DoneIs
    <2>3. c = Recorded(n)
      BY <1>2, <2>1 DEF Recorded
    <2>4. BooksInv /\ faults \subseteq {"swap", "closeNaked"} =>
                    c.legs <= c.rows /\ (call.op # "closeAll" => c.rows = c.legs)
      BY <1>0, <2>2 DEF CallInv, BooksInv, RecordOk
    <2> QED
      BY <2>2, <2>3, <2>4
  <1> QED
    BY <1>1, <1>2


\* venue.ts 1391-1425: the reduce-only order shrinks the short, and the swap is
\* what is left.
LEMMA ReduceInv ==
    ASSUME CallInv, Reduce
    PROVE  CallInv' /\ (BooksInv => BooksInv')
  <1>0. /\ call.step = "reduce" /\ call.step \in CloseSteps /\ UNCHANGED <<cash, spot>>
    BY DEF Reduce, At, CloseSteps
  <1>1. /\ TypeOK /\ call \in CallStates /\ call.op \in {"unwind", "closeAll"} /\ ~At("idle")
        /\ call.op = "unwind" => call.raised <= cash["base"]
        /\ AtMarket /\ Market \in Markets /\ (BooksInv => calls > 0)
        /\ cash' \in [Places -> Nat] /\ spot' \in [Markets -> Nat]
        /\ perp \in [Markets -> Nat] /\ \A m \in Markets : perp[m] \in OnGrid
    BY <1>0, AtClose
  <1>2. call.units \in Nat /\ call.at \in Nat \ {0}
    BY <1>1 DEF CallStates
  <1>3. PICK units \in OnGrid : units = SnapToLot(call.units)
    BY <1>2, SnapIs
  <1>4. /\ perp' = [perp EXCEPT ![Market] = ReduceOnly(perp[Market], units)]
        /\ \/ Advance(AfterLeg(Recorded(units), "reduce"))
           \/ Fault("lostReply") /\ units > 0 /\ LegThrows(FALSE, call.legs + 1)
    BY <1>3 DEF Reduce, Recorded
  <1>5. /\ perp' \in [Markets -> Nat]
        /\ \A m \in Markets : perp'[m] <= perp[m] /\ perp'[m] \in OnGrid
        /\ \A m \in Markets : m # Market => perp'[m] = perp[m]
        /\ perp'[Market] = Most(0, perp[Market] - units)
    BY <1>1, <1>4, ReducedIs
  <1>6. CASE Fault("lostReply") /\ LegThrows(FALSE, call.legs + 1)
    <2>1. ~(faults \subseteq CleanFaults) /\ ~(faults \subseteq {"swap", "closeNaked"})
      BY <1>6 DEF Fault, CleanFaults
    <2>2. call.legs + 1 \in Nat
      BY <1>1 DEF CallStates
    <2> QED
      BY <1>0, <1>1, <1>5, <1>6, <2>1, <2>2, LegThrowsInv
  <1>7. CASE Advance(AfterLeg(Recorded(units), "reduce"))
    <2>1. PICK c \in CallStates :
              /\ c = Recorded(units) /\ c.op = call.op /\ c.step = call.step /\ c.at = call.at
              /\ c.units = call.units /\ c.raised = call.raised /\ c.failures = call.failures
              /\ BooksInv /\ faults \subseteq {"swap", "closeNaked"} =>
                    c.legs <= c.rows /\ (call.op # "closeAll" => c.rows = c.legs)
      BY RecordedIs
    <2>2. call' = [c EXCEPT !.step = "sell"] /\ UNCHANGED history
      BY <1>7, <2>1 DEF Advance, AfterLeg, CloseOrder
    <2>3. call' \in CallStates
      BY <2>2 DEF CallStates, CloseSteps
    <2>4. /\ call'.op = call.op /\ call'.step = "sell" /\ call'.at = call.at
          /\ call'.raised = call.raised /\ call'.rows = c.rows /\ call'.legs = c.legs
          /\ call'.failures = call.failures /\ call'.units = call.units
      BY <2>1, <2>2 DEF CallStates
    <2>5. Before' = Before /\ Slack' = Slack /\ faults' = faults /\ Market' = Market
      BY <2>2, <2>4 DEF Before, Slack, Grain, history, Market
    <2>6. FlatOk'
      <3> SUFFICES ASSUME call.op = "closeAll", call.failures = 0 PROVE FlatOk'
        BY <2>4 DEF FlatOk
      <3>1. /\ spot[Market] <= call.units /\ perp[Market] <= call.units
            /\ \A i \in DOMAIN MarketOrder :
                  i < call.at => spot[MarketOrder[i]] = 0 /\ perp[MarketOrder[i]] = 0
        BY <1>0 DEF CallInv, FlatOk, At
      <3>2. perp'[Market] = 0
        <4>1. perp[Market] <= units
          BY <1>1, <1>2, <1>3, <3>1, SnapIs
        <4>2. units \in Nat /\ perp[Market] \in Nat
          BY <1>1, <1>2, <1>3, SnapIs
        <4> QED
          BY <1>5, <4>1, <4>2 DEF Most
      <3>3. \A i \in DOMAIN MarketOrder :
                i < call.at => spot[MarketOrder[i]] = 0 /\ perp'[MarketOrder[i]] = 0
        <4>1. \A i \in DOMAIN MarketOrder : MarketOrder[i] \in Markets
          BY DEF Markets, Range
        <4>2. \A i \in DOMAIN MarketOrder : 0 <= perp'[MarketOrder[i]]
          BY <1>5, <4>1
        <4> QED
          BY <1>1, <1>5, <3>1, <4>1, <4>2
      <3> QED
        BY <1>0, <2>4, <2>5, <3>1, <3>2, <3>3 DEF FlatOk, At
    <2>7. BooksInv => RecordOk'
      BY <2>1, <2>4, <2>5 DEF RecordOk, At
    <2>8. BooksInv => NakedOk'
      <3> SUFFICES ASSUME BooksInv, faults \subseteq CleanFaults PROVE NakedOk'
        BY <2>5 DEF NakedOk
      <3>1. /\ Backed(spot, perp, Slack)
            /\ \A i \in DOMAIN MarketOrder :
                  i >= call.at => perp[MarketOrder[i]] <= spot[MarketOrder[i]] + Before
        BY <1>0 DEF CallInv, BooksInv, NakedOk
      <3>2. Before \in Nat /\ Slack \in Nat
        BY <1>1, SlackIs
      <3>3. Backed(spot, perp', Slack)
        BY <1>0, <1>1, <1>5, <3>1, <3>2 DEF Backed
      <3>4. \A i \in DOMAIN MarketOrder :
                i >= call.at => perp'[MarketOrder[i]] <= spot[MarketOrder[i]] + Before
        <4>1. \A i \in DOMAIN MarketOrder : MarketOrder[i] \in Markets
          BY DEF Markets, Range
        <4>2. \A m \in Markets : perp'[m] \in Nat /\ perp[m] \in Nat /\ spot[m] \in Nat
          BY <1>0, <1>1, <1>5
        <4> QED
          BY <1>5, <3>1, <3>2, <4>1, <4>2
      <3>5. perp'[Market] = 0 \/ perp'[Market] + units <= spot[Market] + Before
        <4>1. perp[Market] <= spot[Market] + Before
          <5>1. call.at \in DOMAIN MarketOrder /\ call.at >= call.at
            BY <1>1, <1>2 DEF AtMarket
          <5> QED
            BY <3>1, <5>1 DEF Market
        <4>2. units \in Nat /\ perp[Market] \in Nat /\ spot[Market] \in Nat
          BY <1>0, <1>1, <1>2, <1>3, SnapIs
        <4> QED
          BY <1>5, <3>2, <4>1, <4>2 DEF Most
      <3> QED
        BY <1>0, <1>3, <2>4, <2>5, <3>3, <3>4, <3>5 DEF NakedOk, At, CloseSteps
    <2>9. BooksInv => Sigma(perp') <= cash'["margin"] * VenueLeverage
      <3>1. cash["margin"] <= cash'["margin"]
        BY <1>0, <1>1 DEF TypeOK, Places
      <3> QED
        BY <1>1, <1>5, <3>1, StillCarried DEF VInv
    <2>10. call'.at \in DOMAIN MarketOrder
      BY <1>1, <2>4 DEF AtMarket
    <2> QED
      BY <1>0, <1>1, <1>5, <2>2, <2>3, <2>4, <2>6, <2>7, <2>8, <2>9, <2>10, CloseStep
         DEF CloseSteps
  <1> QED
    BY <1>4, <1>6, <1>7

\* venue.ts 1398-1408: an order that fails, or whose answer is lost, throws the
\* leg.
LEMMA ReduceFailsInv ==
    ASSUME CallInv, ReduceFails
    PROVE  CallInv' /\ (BooksInv => BooksInv')
  <1>0. /\ call.step = "reduce" /\ call.step \in CloseSteps /\ UNCHANGED <<cash, spot, perp>>
        /\ Fault("venue") /\ LegThrows(FALSE, call.legs)
    BY DEF ReduceFails, At, CloseSteps
  <1>1. /\ TypeOK /\ cash' \in [Places -> Nat] /\ spot' \in [Markets -> Nat]
        /\ perp' \in [Markets -> Nat] /\ call.legs \in Nat
        /\ \A m \in Markets : perp'[m] <= perp[m] /\ perp'[m] \in OnGrid
    BY <1>0, AtClose DEF CallStates
  <1>2. ~(faults \subseteq {"swap", "closeNaked"})
    BY <1>0 DEF Fault
  <1> QED
    BY <1>0, <1>1, <1>2, LegThrowsInv

\* venue.ts 1439-1486: a swap that fails throws the leg with its order on record.
LEMMA SellFailsInv ==
    ASSUME CallInv, SellFails
    PROVE  CallInv' /\ (BooksInv => BooksInv')
  <1>0. /\ call.step = "sell" /\ call.step \in CloseSteps /\ UNCHANGED <<cash, spot, perp>>
    BY DEF SellFails, At, CloseSteps
  <1>1. /\ TypeOK /\ cash' \in [Places -> Nat] /\ spot' \in [Markets -> Nat]
        /\ perp' \in [Markets -> Nat] /\ call.legs \in Nat
        /\ \A m \in Markets : perp'[m] <= perp[m] /\ perp'[m] \in OnGrid
    BY <1>0, AtClose DEF CallStates
  <1>2. CASE LegThrows(TRUE, call.legs)
    BY <1>0, <1>1, <1>2, LegThrowsInv
  <1>3. CASE Fault("venue") /\ LegThrows(FALSE, call.legs)
    <2>1. ~(faults \subseteq {"swap", "closeNaked"})
      BY <1>3 DEF Fault
    <2> QED
      BY <1>0, <1>1, <1>3, <2>1, LegThrowsInv
  <1> QED
    BY <1>2, <1>3 DEF SellFails

\* venue.ts 1427-1509: what the swap gave is in the wallet when it counts as
\* raised.
LEMMA SellInv ==
    ASSUME CallInv, Sell
    PROVE  CallInv' /\ (BooksInv => BooksInv')
  <1>0. /\ call.step = "sell" /\ call.step \in CloseSteps /\ UNCHANGED perp
    BY DEF Sell, At, CloseSteps
  <1>1. /\ TypeOK /\ call \in CallStates /\ call.op \in {"unwind", "closeAll"} /\ ~At("idle")
        /\ call.op = "unwind" => call.raised <= cash["base"]
        /\ AtMarket /\ Market \in Markets /\ (BooksInv => calls > 0)
        /\ cash \in [Places -> Nat] /\ spot \in [Markets -> Nat]
        /\ perp \in [Markets -> Nat] /\ \A m \in Markets : perp[m] \in OnGrid
    BY <1>0, AtClose
  <1>2. call.units \in Nat /\ call.at \in Nat \ {0} /\ call.raised \in Nat /\ spot[Market] \in Nat
        /\ cash["base"] \in Nat
    BY <1>1 DEF CallStates, Places
  <1>3. PICK units \in Nat : units = Least(call.units, spot[Market])
    BY <1>2 DEF Least
  <1>4. units <= call.units /\ units <= spot[Market]
        /\ (units = call.units \/ units = spot[Market])
    BY <1>2, <1>3 DEF Least
  <1>5. PICK slip \in Slips :
          /\ slip <= units
          /\ spot' = [spot EXCEPT ![Market] = spot[Market] - units]
          /\ cash' = [cash EXCEPT !["base"] = cash["base"] + units - slip]
          /\ \/ Advance([AfterLeg(Recorded(units), "sell")
                           EXCEPT !.raised = @ + Proceeds(units, slip)])
             \/ Fault("lostReply") /\ units > 0 /\ LegThrows(TRUE, call.legs + 1)
    BY <1>3 DEF Sell, Recorded
  <1>6. PICK raised \in Nat : raised = units - slip
    BY <1>5, VenueAssumption, SMTT(30)
  <1>7. PICK s \in Nat : s = spot[Market] - units
    BY <1>2, <1>4
  <1>8. PICK b \in Nat : b = cash["base"] + raised
    BY <1>2
  <1>9. /\ spot' \in [Markets -> Nat] /\ spot'[Market] = s
        /\ \A m \in Markets : spot'[m] <= spot[m] /\ (m # Market => spot'[m] = spot[m])
    <2>1. spot' = [spot EXCEPT ![Market] = s]
      BY <1>5, <1>7
    <2> QED
      BY <1>1, <1>7, <2>1
  <1>10. /\ cash' \in [Places -> Nat] /\ cash'["margin"] = cash["margin"]
         /\ cash'["base"] = cash["base"] + raised
    <2>1. slip \in Nat
      BY VenueAssumption
    <2>2. cash' = [cash EXCEPT !["base"] = b]
      BY <1>2, <1>5, <1>6, <1>8, <2>1
    <2> QED
      BY <1>1, <1>8, <2>2 DEF Places
  <1>11. CASE Fault("lostReply") /\ LegThrows(TRUE, call.legs + 1)
    <2>1. ~(faults \subseteq CleanFaults) /\ ~(faults \subseteq {"swap", "closeNaked"})
      BY <1>11 DEF Fault, CleanFaults
    <2>2. call.legs + 1 \in Nat
      BY <1>1 DEF CallStates
    <2>3. perp' \in [Markets -> Nat] /\ \A m \in Markets : perp'[m] <= perp[m] /\ perp'[m] \in OnGrid
      BY <1>0, <1>1
    <2> QED
      BY <1>0, <1>9, <1>10, <1>11, <2>1, <2>2, <2>3, LegThrowsInv
  <1>12. CASE Advance([AfterLeg(Recorded(units), "sell") EXCEPT !.raised = @ + Proceeds(units, slip)])
    <2>1. PICK c \in CallStates :
              /\ c = Recorded(units) /\ c.op = call.op /\ c.step = call.step /\ c.at = call.at
              /\ c.units = call.units /\ c.raised = call.raised /\ c.failures = call.failures
              /\ BooksInv /\ faults \subseteq {"swap", "closeNaked"} =>
                    c.legs <= c.rows /\ (call.op # "closeAll" => c.rows = c.legs)
      BY RecordedIs
    <2>2. PICK d : d = NextMarket(c)
      OBVIOUS
    <2>3. /\ d \in CallStates /\ d.at = c.at + 1 /\ d.step = "close" /\ d.op = c.op
          /\ d.raised = c.raised /\ d.rows = c.rows /\ d.legs = c.legs
          /\ d.failures = c.failures
      BY <2>2, NextMarketIs
    <2>4. PICK r \in Nat : r = call.raised + raised
      BY <1>2
    <2>5. call' = [d EXCEPT !.raised = r] /\ UNCHANGED history
      BY <1>6, <1>12, <2>1, <2>2, <2>3, <2>4 DEF Advance, AfterLeg, CloseOrder, Proceeds
    <2>6. call' \in CallStates
      BY <2>3, <2>5 DEF CallStates
    <2>7. /\ call'.op = call.op /\ call'.step = "close" /\ call'.at = call.at + 1
          /\ call'.raised = call.raised + raised /\ call'.rows = c.rows /\ call'.legs = c.legs
          /\ call'.failures = call.failures
      BY <2>1, <2>3, <2>4, <2>5 DEF CallStates
    <2>8. Before' = Before /\ Slack' = Slack /\ faults' = faults
      BY <2>5 DEF Before, Slack, Grain, history
    <2>9. \A i \in DOMAIN MarketOrder : MarketOrder[i] \in Markets
      BY DEF Markets, Range
    <2>10. FlatOk'
      <3> SUFFICES ASSUME call.op = "closeAll", call.failures = 0 PROVE FlatOk'
        BY <2>7 DEF FlatOk
      <3>1. /\ spot[Market] <= call.units /\ perp[Market] = 0
            /\ \A i \in DOMAIN MarketOrder :
                  i < call.at => spot[MarketOrder[i]] = 0 /\ perp[MarketOrder[i]] = 0
        BY <1>0 DEF CallInv, FlatOk, At
      <3>2. spot'[Market] = 0
        BY <1>2, <1>4, <1>7, <1>9, <3>1
      <3>3. \A i \in DOMAIN MarketOrder :
                i < call.at + 1 => spot'[MarketOrder[i]] = 0 /\ perp[MarketOrder[i]] = 0
        <4>1. \A i \in DOMAIN MarketOrder : i < call.at + 1 => i < call.at \/ i = call.at
          BY <1>2, MarketsFinite
        <4>2. \A i \in DOMAIN MarketOrder : i < call.at => spot'[MarketOrder[i]] = 0
          BY <1>9, <2>9, <3>1, <3>2
        <4> QED
          BY <3>1, <3>2, <4>1, <4>2 DEF Market
      <3> QED
        BY <1>0, <2>7, <3>3 DEF FlatOk, At
    <2>11. BooksInv => RecordOk'
      BY <2>1, <2>7, <2>8 DEF RecordOk, At
    <2>12. BooksInv => NakedOk'
      <3> SUFFICES ASSUME BooksInv, faults \subseteq CleanFaults PROVE NakedOk'
        BY <2>8 DEF NakedOk
      <3>1. /\ Backed(spot, perp, Slack)
            /\ \A i \in DOMAIN MarketOrder :
                  i >= call.at => perp[MarketOrder[i]] <= spot[MarketOrder[i]] + Before
            /\ perp[Market] = 0 \/ perp[Market] + SnapToLot(call.units) <= spot[Market] + Before
        BY <1>0 DEF CallInv, BooksInv, NakedOk, At
      <3>2. /\ Before \in Nat /\ Slack = Before + Grain /\ Grain = (Lot - 1) + Max(Slips)
            /\ Lot - 1 \in Nat /\ Max(Slips) \in Nat
        BY <1>1, SlackIs
      <3>3. perp[Market] <= spot'[Market] + Slack
        <4>1. /\ SnapToLot(call.units) \in Nat
              /\ call.units <= SnapToLot(call.units) + (Lot - 1)
          BY <1>2, SnapIs
        <4>2. perp[Market] \in Nat
          BY <1>1
        <4>3. CASE perp[Market] = 0
          BY <1>9, <3>2, <4>3
        <4>4. CASE perp[Market] + SnapToLot(call.units) <= spot[Market] + Before
          <5> HIDE DEF Grain
          <5> QED
            BY <1>2, <1>4, <1>7, <1>9, <3>2, <4>1, <4>2, <4>4
        <4> QED
          BY <3>1, <4>3, <4>4
      <3>4. Backed(spot', perp, Slack)
        BY <1>9, <3>1, <3>3 DEF Backed
      <3>5. \A i \in DOMAIN MarketOrder :
                i >= call.at + 1 => perp[MarketOrder[i]] <= spot'[MarketOrder[i]] + Before
        <4>1. \A i \in DOMAIN MarketOrder :
                 i >= call.at + 1 => i >= call.at /\ i # call.at
          BY <1>2, MarketsFinite
        <4>2. \A i \in DOMAIN MarketOrder : i # call.at => MarketOrder[i] # Market
          BY <1>1, OnePlace DEF Market, AtMarket
        <4> QED
          BY <1>9, <2>9, <3>1, <4>1, <4>2
      <3> QED
        BY <1>0, <2>7, <2>8, <3>4, <3>5 DEF NakedOk, At, CloseSteps
    <2>13. BooksInv => Sigma(perp') <= cash'["margin"] * VenueLeverage
      BY <1>0, <1>10 DEF CallInv, BooksInv, CarriedOk
    <2>14. call.op = "unwind" => call'.raised <= cash'["base"]
      BY <1>1, <1>2, <1>10, <2>7
    <2> QED
      BY <1>0, <1>1, <1>9, <1>10, <2>5, <2>6, <2>7, <2>10, <2>11, <2>12, <2>13, <2>14, CloseStep
         DEF CloseSteps
  <1> QED
    BY <1>5, <1>11, <1>12


\* What is withdrawn is free margin, and all of it once nothing is short.
LEMMA WithdrawIs ==
    ASSUME CallInv, NEW kept \in Kept, NEW s \in Stranded
    PROVE  /\ Withdrawable(kept) \in Nat /\ Withdrawable(kept) <= cash["margin"]
           /\ BooksInv => Sigma(perp) <= (cash["margin"] - Withdrawable(kept)) * VenueLeverage
           /\ s \in Nat /\ s <= cash["solana"] /\ cash["margin"] \in Nat
           /\ call.op = "closeAll" /\ perp = NoPlan => Withdrawable(kept) = cash["margin"]
  <1>1. /\ cash["margin"] \in Nat /\ cash["solana"] \in Nat /\ perp \in [Markets -> Nat]
        /\ BooksInv => Sigma(perp) <= cash["margin"] * VenueLeverage
    BY DEF CallInv, BooksInv, TypeOK, Places, CarriedOk
  <1>2. kept \in Nat /\ (call.op = "closeAll" => kept = 0)
    <2>1. Retained(perp) \in Nat
      <3>1. Sigma(perp) \in Nat /\ BPS \in Nat /\ Leverage \in Nat \ {0}
        BY <1>1, SigmaMoves, VenueAssumption
      <3>2. (Sigma(perp) * BPS) \div Leverage \in Nat
        BY <3>1, Products, Quotient
      <3> QED
        BY <3>1, <3>2 DEF Retained, Most
    <2> QED
      BY <2>1 DEF Kept, Sweeps
  <1>3. s \in Nat /\ s <= cash["solana"]
    BY <1>1 DEF Stranded
  <1>4. /\ Unallocated(cash["margin"], perp) \in Nat
        /\ Unallocated(cash["margin"], perp) <= cash["margin"]
    BY <1>1, UnallocatedIs
  <1>5. Withdrawable(kept) \in Nat /\ Withdrawable(kept) <= Unallocated(cash["margin"], perp)
    BY <1>2, <1>4 DEF Withdrawable, Most
  <1>6. BooksInv => Sigma(perp) <= (cash["margin"] - Withdrawable(kept)) * VenueLeverage
    BY <1>1, <1>5, UnallocatedIs
  <1>7. ASSUME call.op = "closeAll", perp = NoPlan PROVE Withdrawable(kept) = cash["margin"]
    <2>1. Sigma(perp) = 0
      <3>1. Sigma(perp) = Total(perp)
        BY <1>1, SigmaTotal
      <3> QED
        BY <1>7, <3>1, TotalZero DEF NoPlan
    <2>2. CeilDiv(0, VenueLeverage) = 0
      <3>1. CeilDiv(0, VenueLeverage) \in Nat
            /\ (CeilDiv(0, VenueLeverage) <= 0 <=> 0 <= 0 * VenueLeverage)
        BY CeilingLeverage, CeilCovers
      <3>2. 0 * VenueLeverage = 0
        BY CeilingLeverage
      <3> QED
        BY <3>1, <3>2
    <2> QED
      BY <1>1, <1>2, <1>7, <2>1, <2>2 DEF Withdrawable, Unallocated, Most
  <1> QED
    BY <1>1, <1>3, <1>4, <1>5, <1>6, <1>7

\* A close without a failure has nothing short when it gets to the margin.
LEMMA FlatBeforeMargin ==
    ASSUME CallInv, call.step \in {"repatriate", "return"}, call.op = "closeAll", call.failures = 0
    PROVE  spot = NoPlan /\ perp = NoPlan
  <1>1. \A i \in DOMAIN MarketOrder : spot[MarketOrder[i]] = 0 /\ perp[MarketOrder[i]] = 0
    BY DEF CallInv, FlatOk, At
  <1>2. \A m \in Markets : spot[m] = 0 /\ perp[m] = 0
    BY <1>1 DEF Markets, Range
  <1>3. spot \in [Markets -> Nat] /\ perp \in [Markets -> Nat]
    BY DEF CallInv, TypeOK
  <1> QED
    BY <1>2, <1>3 DEF NoPlan

\* After the margin only the return is left to do.
LEMMA ToReturnInv ==
    ASSUME CallInv, call.step = "repatriate", UNCHANGED <<spot, perp, history>>,
           call' \in CallStates, call'.step = "return", call'.op = call.op, call'.at = call.at,
           cash' \in [Places -> Nat],
           BooksInv => Sigma(perp) <= cash'["margin"] * VenueLeverage,
           call.op = "unwind" => call'.raised <= cash'["base"],
           call'.failures = 0 => /\ call.failures = 0
                                 /\ call.op = "closeAll" => cash'["margin"] = 0,
           BooksInv /\ faults \subseteq {"swap", "closeNaked"} =>
              call'.legs <= call'.rows /\ (call.op # "closeAll" => call'.rows = call'.legs)
    PROVE  CallInv' /\ (BooksInv => BooksInv')
  <1>1. /\ call.op \in {"unwind", "closeAll"} /\ ~At("idle") /\ call.step \in CloseSteps
        /\ spot' \in [Markets -> Nat] /\ perp' \in [Markets -> Nat]
        /\ \A m \in Markets : perp'[m] \in OnGrid
    BY AtClose DEF CloseSteps
  <1>2. FlatOk'
    <2>1. call.op = "closeAll" /\ call.failures = 0 =>
             /\ \A i \in DOMAIN MarketOrder :
                   i < call.at => spot[MarketOrder[i]] = 0 /\ perp[MarketOrder[i]] = 0
             /\ \A i \in DOMAIN MarketOrder : i < call.at
      BY DEF CallInv, FlatOk
    <2> QED
      BY <2>1 DEF FlatOk, At
  <1>3. BooksInv => RecordOk'
    BY DEF RecordOk, At, history
  <1>4. BooksInv => NakedOk'
    <2> SUFFICES ASSUME BooksInv PROVE NakedOk'
      OBVIOUS
    <2>1. call.at <= call'.at
      BY DEF CallStates
    <2> QED
      BY <1>1, <2>1, NakedKept DEF CloseSteps
  <1> QED
    BY <1>1, <1>2, <1>3, <1>4, CloseStep DEF CloseSteps

\* The record stays as exact as it is when rows and legs grow together.
LEMMA RecordIs ==
    ASSUME VInv, faults \subseteq {"swap", "closeNaked"}
    PROVE  /\ call.rows \in Nat /\ call.legs \in Nat /\ call.legs <= call.rows
           /\ call.op # "closeAll" => call.rows = call.legs
  BY DEF VInv, CallInv, BooksInv, RecordOk, TypeOK, CallStates

\* venue.ts 1227-1301: free margin comes home, and counts as raised by what
\* arrived.
LEMMA RepatriateInv ==
    ASSUME CallInv, Repatriate
    PROVE  CallInv' /\ (BooksInv => BooksInv')
  <1>0. /\ call.step = "repatriate" /\ UNCHANGED <<spot, perp>> /\ call \in CallStates /\ TypeOK
        /\ cash \in [Places -> Nat]
    BY DEF Repatriate, At, CallInv, TypeOK
  <1>1. PICK kept \in Kept, s \in Stranded :
            IF Withdrawable(kept) + s = 0
            THEN UNCHANGED cash /\ Advance([call EXCEPT !.step = "return"])
            ELSE \E loss \in Losses :
               /\ loss < Withdrawable(kept) + s
               /\ cash' = [cash EXCEPT !.margin = @ - Withdrawable(kept), !.solana = @ - s,
                                       !.base = @ + Withdrawable(kept) + s - loss]
               /\ Advance([Done(call, IF Withdrawable(kept) > 0 THEN 2 ELSE 1)
                             EXCEPT !.step = "return", !.raised = @ + Withdrawable(kept) + s - loss])
    BY DEF Repatriate
  <1>2. PICK w \in Nat : w = Withdrawable(kept)
    BY WithdrawIs
  <1>3. /\ w <= cash["margin"]
        /\ BooksInv => Sigma(perp) <= (cash["margin"] - w) * VenueLeverage
        /\ s \in Nat /\ s <= cash["solana"] /\ cash["margin"] \in Nat /\ cash["solana"] \in Nat
        /\ cash["base"] \in Nat
        /\ call.op = "closeAll" /\ call.failures = 0 => w = cash["margin"]
    BY <1>0, <1>2, WithdrawIs, FlatBeforeMargin DEF Places
  <1>4. call.raised \in Nat /\ (call.op = "unwind" => call.raised <= cash["base"])
    BY <1>0 DEF CallInv, InHandOk, CallStates
  <1>5. CASE w + s = 0
    <2>1. UNCHANGED cash /\ call' = [call EXCEPT !.step = "return"] /\ UNCHANGED history
      BY <1>1, <1>2, <1>5 DEF Advance
    <2>2. call' \in CallStates
      BY <1>0, <2>1 DEF CallStates, CloseSteps
    <2>3. /\ call'.step = "return" /\ call'.op = call.op /\ call'.at = call.at
          /\ call'.raised = call.raised /\ call'.failures = call.failures
          /\ call'.rows = call.rows /\ call'.legs = call.legs
      BY <1>0, <2>1 DEF CallStates
    <2>4. call'.failures = 0 => /\ call.failures = 0
                                /\ call.op = "closeAll" => cash'["margin"] = 0
      BY <1>3, <1>5, <2>1, <2>3
    <2>5. /\ BooksInv => Sigma(perp) <= cash'["margin"] * VenueLeverage
          /\ cash' \in [Places -> Nat]
      BY <1>0, <2>1 DEF CallInv, BooksInv, CarriedOk
    <2> QED
      BY <1>0, <1>4, <2>1, <2>2, <2>3, <2>4, <2>5, RecordIs, ToReturnInv DEF VInv
  <1>6. CASE w + s # 0
    <2>1. PICK loss \in Losses :
               /\ loss < w + s
               /\ cash' = [cash EXCEPT !.margin = @ - w, !.solana = @ - s,
                                       !.base = @ + w + s - loss]
               /\ Advance([Done(call, IF w > 0 THEN 2 ELSE 1)
                             EXCEPT !.step = "return", !.raised = @ + w + s - loss])
      BY <1>1, <1>2, <1>6
    <2>2. loss \in Nat
      BY VenueAssumption
    <2>3. PICK got \in Nat : got = w + s - loss
      BY <1>3, <2>1, <2>2
    <2>4. PICK n \in Nat : n = IF w > 0 THEN 2 ELSE 1
      OBVIOUS
    <2>5. PICK c : c = Done(call, n)
      OBVIOUS
    <2>6. /\ c \in CallStates /\ c.op = call.op /\ c.at = call.at /\ c.raised = call.raised
          /\ c.failures = call.failures /\ c.rows = call.rows + n /\ c.legs = call.legs + n
      BY <1>0, <2>5, DoneIs
    <2>7. PICK r \in Nat : r = call.raised + got
      BY <1>4
    <2>8. call' = [c EXCEPT !.step = "return", !.raised = r] /\ UNCHANGED history
      <3>1. Advance([c EXCEPT !.step = "return", !.raised = c.raised + w + s - loss])
        BY <2>1, <2>4, <2>5
      <3>2. c.raised + w + s - loss = r
        BY <1>3, <1>4, <2>2, <2>3, <2>6, <2>7
      <3> QED
        BY <3>1, <3>2 DEF Advance
    <2>9. call' \in CallStates
      BY <2>6, <2>8 DEF CallStates, CloseSteps
    <2>10. /\ call'.step = "return" /\ call'.op = call.op /\ call'.at = call.at
           /\ call'.raised = call.raised + got /\ call'.failures = call.failures
           /\ call'.rows = call.rows + n /\ call'.legs = call.legs + n
      BY <2>6, <2>7, <2>8 DEF CallStates
    <2>11. PICK m \in Nat, o \in Nat, b \in Nat :
                m = cash["margin"] - w /\ o = cash["solana"] - s /\ b = cash["base"] + got
      BY <1>3
    <2>12. cash' \in [Places -> Nat] /\ cash'["margin"] = m /\ cash'["base"] = b
      <3>1. cash' = [cash EXCEPT !["margin"] = m, !["solana"] = o, !["base"] = b]
        <4>1. cash["base"] + w + s - loss = b
          BY <1>3, <2>2, <2>3, <2>11
        <4> QED
          BY <1>0, <2>1, <2>11, <4>1 DEF Places
      <3> QED
        BY <1>0, <3>1 DEF Places
    <2>13. call'.failures = 0 => /\ call.failures = 0
                                 /\ call.op = "closeAll" => cash'["margin"] = 0
      BY <1>3, <2>10, <2>11, <2>12
    <2>14. BooksInv => Sigma(perp) <= cash'["margin"] * VenueLeverage
      BY <1>3, <2>11, <2>12
    <2>15. call.op = "unwind" => call'.raised <= cash'["base"]
      BY <1>3, <1>4, <2>10, <2>11, <2>12
    <2>16. BooksInv /\ faults \subseteq {"swap", "closeNaked"} =>
              call'.legs <= call'.rows /\ (call.op # "closeAll" => call'.rows = call'.legs)
      BY <2>10, RecordIs DEF VInv
    <2> QED
      BY <1>0, <2>8, <2>9, <2>10, <2>12, <2>13, <2>14, <2>15, <2>16, ToReturnInv
  <1> QED
    BY <1>5, <1>6

\* A crossing home that fails is counted, and the call goes on to the return.
LEMMA RepatriateFailsInv ==
    ASSUME CallInv, RepatriateFails
    PROVE  CallInv' /\ (BooksInv => BooksInv')
  <1>0. /\ call.step = "repatriate" /\ UNCHANGED <<spot, perp>> /\ call \in CallStates /\ TypeOK
        /\ cash \in [Places -> Nat]
    BY DEF RepatriateFails, At, CallInv, BooksInv, TypeOK, CarriedOk
  <1> DEFINE Moved(n) == Advance([Done(call, n) EXCEPT !.step = "return", !.failures = @ + 1])
  <1>1. PICK kept \in Kept, s \in Stranded :
         LET w == Withdrawable(kept)
             withdrawn == IF w > 0 THEN 1 ELSE 0
         IN  \/ (Fault("bridge") \/ Fault("venue")) /\ UNCHANGED cash /\ Moved(0)
             \/ /\ cash' = [cash EXCEPT !.margin = @ - w, !.solana = @ + w]
                /\ Moved(withdrawn)
             \/ /\ Fault("bridge")
                /\ cash' = [cash EXCEPT !.margin = @ - w, !.solana = @ - s,
                                        !.homebound = @ + w + s]
                /\ Advance([Done(call, withdrawn)
                              EXCEPT !.step = "return", !.failures = @ + 1, !.legs = @ + 1])
    BY DEF RepatriateFails
  <1>2. PICK w \in Nat : w = Withdrawable(kept)
    BY WithdrawIs
  <1>3. /\ w <= cash["margin"]
        /\ BooksInv => Sigma(perp) <= (cash["margin"] - w) * VenueLeverage
        /\ s \in Nat /\ s <= cash["solana"] /\ cash["margin"] \in Nat /\ cash["solana"] \in Nat
        /\ cash["homebound"] \in Nat
    BY <1>0, <1>2, WithdrawIs DEF Places
  <1>4. PICK withdrawn \in Nat : withdrawn = IF w > 0 THEN 1 ELSE 0
    OBVIOUS
  <1>5. call.op = "unwind" => call.raised <= cash["base"]
    BY <1>0 DEF CallInv, InHandOk
  <1>6. ASSUME NEW n \in Nat, Moved(n),
               cash' \in [Places -> Nat], cash'["base"] = cash["base"],
               BooksInv => Sigma(perp) <= cash'["margin"] * VenueLeverage
        PROVE  CallInv' /\ (BooksInv => BooksInv')
    <2>1. PICK c : c = Done(call, n)
      OBVIOUS
    <2>2. /\ c \in CallStates /\ c.op = call.op /\ c.at = call.at /\ c.raised = call.raised
          /\ c.failures = call.failures /\ c.rows = call.rows + n /\ c.legs = call.legs + n
      BY <1>0, <2>1, DoneIs
    <2>3. PICK f \in Nat \ {0} : f = c.failures + 1
      BY <2>2 DEF CallStates
    <2>4. call' = [c EXCEPT !.step = "return", !.failures = f] /\ UNCHANGED history
      BY <1>6, <2>1, <2>3 DEF Advance
    <2>5. call' \in CallStates
      BY <2>2, <2>4 DEF CallStates, CloseSteps
    <2>6. /\ call'.step = "return" /\ call'.op = call.op /\ call'.at = call.at
          /\ call'.raised = call.raised /\ call'.failures = f
          /\ call'.rows = call.rows + n /\ call'.legs = call.legs + n
      BY <2>2, <2>4 DEF CallStates
    <2>7. BooksInv /\ faults \subseteq {"swap", "closeNaked"} =>
              call'.legs <= call'.rows /\ (call.op # "closeAll" => call'.rows = call'.legs)
      BY <2>6, RecordIs DEF VInv
    <2> HIDE DEF Moved
    <2> QED
      BY <1>0, <1>5, <1>6, <2>3, <2>4, <2>5, <2>6, <2>7, ToReturnInv
  <1>7. CASE UNCHANGED cash /\ Moved(0)
    <2>1. BooksInv => Sigma(perp) <= cash'["margin"] * VenueLeverage
      BY <1>7 DEF BooksInv, CarriedOk
    <2> HIDE DEF Moved
    <2> QED
      BY <1>0, <1>6, <1>7, <2>1
  <1>8. PICK m \in Nat, o \in Nat, p \in Nat, h \in Nat :
            /\ m = cash["margin"] - w /\ o = cash["solana"] + w /\ p = cash["solana"] - s
            /\ h = cash["homebound"] + w + s
    BY <1>3
  <1>9. CASE /\ cash' = [cash EXCEPT !.margin = @ - w, !.solana = @ + w]
             /\ Moved(withdrawn)
    <2>1. cash' = [cash EXCEPT !["margin"] = m, !["solana"] = o]
      BY <1>0, <1>8, <1>9 DEF Places
    <2>2. cash' \in [Places -> Nat] /\ cash'["margin"] = m /\ cash'["base"] = cash["base"]
      BY <1>0, <2>1 DEF Places
    <2>3. BooksInv => Sigma(perp) <= cash'["margin"] * VenueLeverage
      BY <1>3, <1>8, <2>2
    <2> HIDE DEF Moved
    <2> QED
      BY <1>6, <1>9, <2>2, <2>3
  <1>10. CASE /\ Fault("bridge")
              /\ cash' = [cash EXCEPT !.margin = @ - w, !.solana = @ - s,
                                      !.homebound = @ + w + s]
              /\ Advance([Done(call, withdrawn)
                              EXCEPT !.step = "return", !.failures = @ + 1, !.legs = @ + 1])
    <2>1. cash' = [cash EXCEPT !["margin"] = m, !["solana"] = p, !["homebound"] = h]
      BY <1>0, <1>8, <1>10 DEF Places
    <2>2. cash' \in [Places -> Nat] /\ cash'["margin"] = m /\ cash'["base"] = cash["base"]
      BY <1>0, <2>1 DEF Places
    <2>3. BooksInv => Sigma(perp) <= cash'["margin"] * VenueLeverage
      BY <1>3, <1>8, <2>2
    <2>4. ~(faults \subseteq {"swap", "closeNaked"})
      BY <1>10 DEF Fault
    <2>5. PICK c : c = Done(call, withdrawn)
      OBVIOUS
    <2>6. /\ c \in CallStates /\ c.op = call.op /\ c.at = call.at /\ c.raised = call.raised
      BY <1>0, <1>4, <2>5, DoneIs
    <2>7. PICK f \in Nat \ {0}, l \in Nat : f = c.failures + 1 /\ l = c.legs + 1
      BY <2>6 DEF CallStates
    <2>8. call' = [c EXCEPT !.step = "return", !.failures = f, !.legs = l] /\ UNCHANGED history
      BY <1>10, <2>5, <2>7 DEF Advance
    <2>9. call' \in CallStates
      BY <2>6, <2>8 DEF CallStates, CloseSteps
    <2>10. /\ call'.step = "return" /\ call'.op = call.op /\ call'.at = call.at
           /\ call'.raised = call.raised /\ call'.failures = f
      BY <2>6, <2>8 DEF CallStates
    <2> QED
      BY <1>0, <1>5, <2>2, <2>3, <2>4, <2>7, <2>8, <2>9, <2>10, ToReturnInv
  <1> HIDE DEF Moved
  <1> QED
    BY <1>1, <1>2, <1>4, <1>7, <1>9, <1>10

\* venue.ts 1511-1537: the return takes what was raised out of the wallet and
\* ends the call.
LEMMA ReturnAllInv ==
    ASSUME CallInv, ReturnAll
    PROVE  CallInv' /\ (BooksInv => BooksInv')
  <1>0. /\ TypeOK /\ call \in CallStates /\ call.step = "return" /\ UNCHANGED <<spot, perp>>
        /\ cash' = Move("base", "vault", ToReturn, 0) /\ \E r, l : Finish(r, l)
        /\ ToReturn <= cash["base"] /\ ToReturn \in Nat
    BY DEF ReturnAll, At, CallInv, TypeOK, ToReturn, CallStates, Places
  <1>1. cash' \in [Places -> Nat] /\ cash'["margin"] = cash["margin"]
    BY <1>0, MoveIs DEF Places
  <1>2. cash["margin"] <= cash'["margin"]
    BY <1>0, <1>1 DEF TypeOK, Places
  <1> QED
    BY <1>0, <1>1, <1>2, FinishIs, EndsQuietly

\* venue.ts 933-941: a return that fails leaves it there.
LEMMA ReturnFailsInv ==
    ASSUME CallInv, ReturnFails
    PROVE  CallInv' /\ (BooksInv => BooksInv')
  <1>0. TypeOK /\ call.step = "return" /\ UNCHANGED <<cash, spot, perp>> /\ Throw
    BY DEF CallInv, ReturnFails, At
  <1> QED
    BY <1>0, FinishIs, EndsQuietly DEF TypeOK, Places, Throw

-----------------------------------------------------------------------------
\* Steps outside of a call.

\* Money that arrives later only adds to what is in hand.
LEMMA CashArrives ==
    ASSUME CallInv, UNCHANGED <<spot, perp, call, history>>, cash' \in [Places -> Nat],
           cash'["margin"] = cash["margin"], cash["base"] <= cash'["base"]
    PROVE  CallInv' /\ (BooksInv => BooksInv')
  <1>1. TypeOK'
    BY DEF CallInv, TypeOK, history
  <1>2. StepsOk' /\ GridOk' /\ SizedOk'
    BY DEF CallInv, StepsOk, GridOk, SizedOk, At, AtMarket
  <1>3. InHandOk'
    <2>1. cash["base"] \in Nat /\ cash'["base"] \in Nat /\ call.asked \in Nat /\ call.raised \in Nat
      BY DEF CallInv, TypeOK, Places, CallStates
    <2> QED
      BY <2>1 DEF CallInv, InHandOk, At
  <1>4. BooksInv => StartedOk' /\ CarriedOk' /\ RecordOk'
    BY DEF BooksInv, StartedOk, CarriedOk, RecordOk, At, history
  <1>5. FlatOk'
    BY DEF CallInv, FlatOk, At, Market
  <1>6. BooksInv => NakedOk'
    <2> SUFFICES ASSUME BooksInv PROVE NakedOk'
      OBVIOUS
    <2>1. Before' = Before /\ Slack' = Slack /\ faults' = faults /\ Market' = Market
      BY DEF Before, Slack, Grain, history, Market
    <2> QED
      BY <2>1 DEF CallInv, BooksInv, NakedOk, At
  <1> QED
    BY <1>1, <1>2, <1>3, <1>4, <1>5, <1>6 DEF CallInv, BooksInv

\* Relay delivers what a lost answer hid.
LEMMA LandsInv ==
    ASSUME CallInv, Lands
    PROVE  CallInv' /\ (BooksInv => BooksInv')
  <1>1. TypeOK /\ cash \in [Places -> Nat]
    BY DEF CallInv, TypeOK
  <1>2. UNCHANGED <<spot, perp, call, history>>
    BY DEF Lands
  <1>3. CASE cash' = Move("outbound", "solana", cash.outbound, 0)
    <2>0. PICK n \in Nat : n = cash["outbound"]
      BY <1>1 DEF Places
    <2>1. /\ cash' \in [Places -> Nat] /\ cash'["margin"] = cash["margin"]
          /\ cash'["base"] = cash["base"]
      BY <1>1, <1>3, <2>0, MoveIs, SMTT(30) DEF Places
    <2> QED
      BY <1>1, <1>2, <2>1, CashArrives DEF Places
  <1>4. CASE cash' = Move("homebound", "base", cash.homebound, 0)
    <2>0. PICK n \in Nat : n = cash["homebound"]
      BY <1>1 DEF Places
    <2>1. /\ cash' \in [Places -> Nat] /\ cash'["margin"] = cash["margin"]
          /\ cash'["base"] = cash["base"] + n
      <3>1. n <= cash["homebound"] /\ 0 <= n /\ n - 0 = n /\ cash["homebound"] \in Nat
        BY <2>0
      <3>2. cash' = Move("homebound", "base", n, 0)
        BY <1>4, <2>0
      <3> QED
        BY <1>1, <3>1, <3>2, MoveIs, SMTT(30) DEF Places
    <2> QED
      BY <1>1, <1>2, <2>1, CashArrives DEF Places
  <1> QED
    BY <1>3, <1>4 DEF Lands

\* A process that dies forgets its call and moves nothing.
LEMMA CrashInv ==
    ASSUME CallInv, Crash
    PROVE  CallInv' /\ (BooksInv => BooksInv')
  <1>1. /\ call' = Idle /\ UNCHANGED <<cash, spot, perp, history>>
        /\ ~(faults \subseteq CleanFaults)
    BY DEF Crash, Fault, CleanFaults
  <1> QED
    BY <1>1, EndsCall DEF CallInv, BooksInv, TypeOK, CarriedOk, GridOk, history

\* A correction is whole lots, and no more than what it corrects.
LEMMA CorrectionIs ==
    ASSUME NEW n \in Nat
    PROVE  Correction(n) \in OnGrid /\ Correction(n) \in Nat /\ Correction(n) <= n
  <1>1. SnapToLot(n) \in OnGrid /\ SnapToLot(n) \in Nat /\ SnapToLot(n) <= n /\ 0 \in OnGrid
    BY SnapIs, GridCloses
  <1> QED
    BY <1>1 DEF Correction

\* A trade in a market brings its legs towards each other, in whole lots.
LEMMA TradeIs ==
    ASSUME CallInv, NEW m \in Markets, Trade(m)
    PROVE  /\ perp' \in [Markets -> Nat] /\ \A o \in Markets : perp'[o] \in OnGrid
           /\ \A o \in Markets : perp'[o] <= Most(perp[o], spot[o])
           /\ BooksInv => Sigma(perp') <= cash["margin"] * VenueLeverage
  <1>0. /\ TypeOK /\ spot \in [Markets -> Nat] /\ perp \in [Markets -> Nat]
        /\ \A o \in Markets : perp[o] \in OnGrid
    BY DEF CallInv, TypeOK, GridOk
  <1>2. PICK delta \in Int : delta = spot[m] - perp[m]
    BY <1>0
  <1>3. PICK step \in OnGrid : step = Correction(Abs(delta)) /\ step \in Nat /\ step <= Abs(delta)
    <2>1. Abs(delta) \in Nat
      BY DEF Abs
    <2> QED
      BY <2>1, CorrectionIs
  <1>4. perp' = [perp EXCEPT ![m] = IF delta > 0 THEN perp[m] + step ELSE perp[m] - step]
    BY <1>2, <1>3 DEF Trade, Traded
  <1>5. PICK k \in Nat : k = IF delta > 0 THEN perp[m] + step ELSE perp[m] - step
    BY <1>0, <1>2, <1>3 DEF Abs
  <1>6. k \in OnGrid /\ (k > perp[m] => k <= spot[m])
    <2>1. CASE delta > 0
      BY <1>0, <1>2, <1>3, <1>5, <2>1, GridCloses DEF Abs
    <2>2. CASE ~(delta > 0)
      <3>1. k = Most(0, perp[m] - step)
        BY <1>0, <1>5, <2>2 DEF Most
      <3> QED
        BY <1>0, <1>3, <1>5, <2>2, <3>1, GridCloses
    <2> QED
      BY <2>1, <2>2
  <1>7. /\ perp' \in [Markets -> Nat] /\ perp'[m] = k
        /\ \A o \in Markets : o # m => perp'[o] = perp[o]
    BY <1>0, <1>4, <1>5
  <1>8. BooksInv => Sigma(perp') <= cash["margin"] * VenueLeverage
    <2> SUFFICES ASSUME BooksInv PROVE Sigma(perp') <= cash["margin"] * VenueLeverage
      OBVIOUS
    <2>1. Sigma(perp') \in Nat /\ cash["margin"] \in Nat
      BY <1>0, <1>7, SigmaMoves DEF TypeOK, Places
    <2>2. CASE k > perp[m]
      <3>1. CeilDiv(Sigma(perp'), VenueLeverage) <= cash["margin"]
        BY <1>7, <2>2 DEF Trade, Accepted, Carried
      <3> QED
        BY <2>1, <3>1, CeilingLeverage, CeilCovers
    <2>3. CASE ~(k > perp[m])
      <3>1. \A o \in Markets : perp'[o] <= perp[o]
        BY <1>0, <1>7, <2>3
      <3>2. Sigma(perp') <= Sigma(perp) /\ Sigma(perp) \in Nat
        BY <1>0, <1>7, <3>1, SigmaMoves
      <3>3. cash["margin"] * VenueLeverage \in Nat
        BY <2>1, CeilingLeverage, Products
      <3> QED
        BY <2>1, <3>2, <3>3 DEF CallInv, BooksInv, CarriedOk
    <2> QED
      BY <2>2, <2>3
  <1> QED
    BY <1>0, <1>6, <1>7, <1>8 DEF Most

\* venue.ts 1112-1188: a correction brings the legs of each market towards each
\* other.
LEMMA RebalanceInv ==
    ASSUME CallInv, Rebalance
    PROVE  CallInv' /\ (BooksInv => BooksInv')
  <1>0. /\ TypeOK /\ At("idle") /\ call = Idle /\ calls < MaxCalls
        /\ Counted /\ UNCHANGED <<cash, spot, call>>
    BY DEF CallInv, StepsOk, Rebalance, Ready
  <1>1. /\ perp' \in [Markets -> Nat] /\ \A o \in Markets : perp'[o] \in OnGrid
        /\ \A o \in Markets : perp'[o] <= Most(perp[o], spot[o])
        /\ BooksInv => Sigma(perp') <= cash["margin"] * VenueLeverage
    BY TradeIs DEF Rebalance
  <1>2. calls' = calls + 1 /\ calls \in Nat /\ calls' \in 0 .. MaxCalls /\ faults' = faults
    BY <1>0, VenueAssumption DEF Counted, TypeOK
  <1>3. TypeOK'
    BY <1>0, <1>1, <1>2 DEF TypeOK, Counted
  <1>4. /\ call'.step = "idle" /\ call'.op = "none" /\ call'.rows = 0 /\ call'.legs = 0
        /\ call' = Idle
    BY <1>0, IdleIs
  <1>5. StepsOk' /\ StartedOk' /\ InHandOk' /\ SizedOk' /\ FlatOk' /\ RecordOk'
    BY <1>4 DEF StepsOk, StartedOk, InHandOk, SizedOk, FlatOk, RecordOk, At, DeploySteps, CloseSteps
  <1>6. BooksInv => CarriedOk'
    BY <1>0, <1>1, <1>4 DEF CarriedOk, At
  <1>7. GridOk'
    BY <1>1, <1>4 DEF GridOk
  <1>8. BooksInv => NakedOk'
    <2> SUFFICES ASSUME BooksInv, faults \subseteq CleanFaults PROVE NakedOk'
      BY <1>2 DEF NakedOk
    <2>1. Backed(spot, perp, Slack)
      BY <1>0 DEF BooksInv, NakedOk
    <2>2. Slack' = Slack + Grain /\ Slack \in Nat /\ Grain \in Nat
      <3>1. Slack' = calls' * Grain /\ Slack = calls * Grain /\ Slack \in Nat /\ Grain \in Nat
        BY <1>0, SlackIs DEF Slack, Grain
      <3>2. (calls + 1) * Grain = calls * Grain + 1 * Grain
        BY <1>2, <3>1, Products
      <3> QED
        BY <1>2, <3>1, <3>2
    <2>3. Backed(spot, perp', Slack')
      BY <1>0, <1>1, <2>1, <2>2 DEF Backed, Most, TypeOK
    <2> QED
      BY <1>0, <1>4, <2>3 DEF NakedOk, At, CloseSteps
  <1> QED
    BY <1>3, <1>4, <1>5, <1>6, <1>7, <1>8 DEF CallInv, BooksInv


-----------------------------------------------------------------------------
\* The invariant, and what follows from it.

\* The invariant is about this module's variables only.
LEMMA StutterInv ==
    ASSUME CallInv, UNCHANGED vars
    PROVE  CallInv' /\ (BooksInv => BooksInv')
  <1>1. cash' \in [Places -> Nat] /\ UNCHANGED <<spot, perp, call, history>>
        /\ cash'["margin"] = cash["margin"] /\ cash["base"] <= cash'["base"]
    BY DEF CallInv, TypeOK, vars, history, Places
  <1> QED
    BY <1>1, CashArrives

\* Every step of the adapter and of its environment keeps it.
LEMMA NextInv ==
    ASSUME VInv, [Next]_vars
    PROVE  VInv'
  <1>0. CallInv /\ BooksInv
    BY DEF VInv
  <1>1. CASE Deploying
    BY <1>0, <1>1, StartDeployInv, StartTopUpInv, CrossInv, CrossFailsInv, SizeInv, SizeFailsInv,
       ShortInv, ShortRefusedInv, BuyInv, BuyUnreadInv, BuyFailsInv, CloseNakedInv
       DEF Deploying, VInv
  <1>2. CASE Closing
    BY <1>0, <1>2, StartUnwindInv, StartCloseInv, CloseMarketInv, CloseReadFailsInv, ReduceInv,
       ReduceFailsInv, SellInv, SellFailsInv, RepatriateInv, RepatriateFailsInv,
       ReturnAllInv, ReturnFailsInv
       DEF Closing, VInv
  <1>3. CASE Rebalance \/ Lands \/ Crash
    BY <1>0, <1>3, RebalanceInv, LandsInv, CrashInv DEF VInv
  <1>4. CASE UNCHANGED vars
    BY <1>0, <1>4, StutterInv DEF VInv
  <1> QED
    BY <1>1, <1>2, <1>3, <1>4 DEF Next

\* What a call is about to hand over is in the wallet.
LEMMA ReturnFunded ==
    ASSUME CallInv
    PROVE  ProceedsInHand
  <1> SUFFICES ASSUME At("return") PROVE cash["base"] >= ToReturn
    BY DEF ProceedsInHand
  <1>1. /\ call.op \in {"unwind", "closeAll"} /\ cash["base"] \in Nat /\ call.raised \in Nat
        /\ call.op = "unwind" => call.raised <= cash["base"]
    BY DEF CallInv, StepsOk, InHandOk, TypeOK, CallStates, Places, At, CloseSteps
  <1> QED
    BY <1>1 DEF ToReturn

\* An order within the leverage of its own margin keeps the account within it.
LEMMA ShortKeepsLeverage ==
    ASSUME CallInv, Short, WithinLeverage(perp, cash.margin - call.backing)
    PROVE  WithinLeverage(perp', cash'.margin)
  <1>0. At("short") /\ TypeOK /\ call \in CallStates
    BY DEF Short, CallInv, TypeOK
  <1>1. /\ cash.margin \in Nat /\ call.backing \in Nat /\ call.units \in Nat
        /\ Sigma(perp) \in Nat /\ BPS \in Nat /\ Leverage \in Nat \ {0}
    BY <1>0, SigmaMoves, VenueAssumption DEF TypeOK, CallStates, Places
  <1>2. Sigma(perp') = Sigma(perp) + call.units /\ cash' = cash
    BY ShortIs
  <1>3. call.units * BPS <= call.backing * Leverage
    BY <1>0 DEF CallInv, SizedOk, At
  <1>4. call.backing <= cash.margin
    <2> SUFFICES ASSUME call.backing > cash.margin PROVE FALSE
      BY <1>1
    <2>1. PICK k \in Nat \ {0} : cash.margin - call.backing = -k
      <3>1. call.backing - cash.margin \in Nat \ {0}
        BY <1>1
      <3>2. cash.margin - call.backing = -(call.backing - cash.margin)
        BY <1>1
      <3> QED
        BY <3>1, <3>2
    <2>2. Sigma(perp) * BPS \in Nat /\ k * Leverage \in Nat /\ k <= k * Leverage
      BY <1>1, Products
    <2>3. (-k) * Leverage = -(k * Leverage)
      BY <1>1
    <2>4. Sigma(perp) * BPS <= -(k * Leverage)
      BY <2>1, <2>3 DEF WithinLeverage
    <2> QED
      BY <2>2, <2>4
  <1>5. PICK rest \in Nat : rest = cash.margin - call.backing
    BY <1>1, <1>4
  <1>6. Sigma(perp) * BPS <= rest * Leverage
    BY <1>5 DEF WithinLeverage
  <1>7. (Sigma(perp) + call.units) * BPS = Sigma(perp) * BPS + call.units * BPS
    BY <1>1, Products
  <1>8. (rest + call.backing) * Leverage = rest * Leverage + call.backing * Leverage
    BY <1>1, Products
  <1>9. cash.margin = rest + call.backing
    BY <1>1, <1>4, <1>5
  <1>10. /\ Sigma(perp) * BPS \in Nat /\ call.units * BPS \in Nat
         /\ rest * Leverage \in Nat /\ call.backing * Leverage \in Nat
    BY <1>1, Products
  <1>11. Sigma(perp) * BPS + call.units * BPS <= rest * Leverage + call.backing * Leverage
    BY <1>3, <1>6, <1>10
  <1> QED
    BY <1>2, <1>7, <1>8, <1>9, <1>11 DEF WithinLeverage

\* A close without a failure ends flat.
LEMMA CloseIsFlat ==
    ASSUME CallInv, ReturnAll, call.op = "closeAll", call.failures = 0
    PROVE  spot' = NoPlan /\ perp' = NoPlan /\ cash'.margin = 0
  <1>1. call.step = "return" /\ spot = NoPlan /\ perp = NoPlan /\ cash["margin"] = 0
    BY FlatBeforeMargin DEF ReturnAll, At, CallInv, FlatOk
  <1>2. UNCHANGED <<spot, perp>> /\ ToReturn \in Nat /\ ToReturn <= cash["base"] /\ TypeOK
        /\ cash' = Move("base", "vault", ToReturn, 0)
    BY DEF ReturnAll, CallInv, TypeOK, ToReturn, CallStates, Places
  <1>3. cash'["margin"] = cash["margin"]
    BY <1>2, MoveIs DEF Places
  <1> QED
    BY <1>1, <1>2, <1>3

\* VInv holds in every state that the calls, the environment and the failures lead to.
THEOREM VenueInvariant == Spec => []VInv
  <1>1. Init => VInv
    BY InitInv
  <1>2. VInv /\ [Next]_vars => VInv'
    BY NextInv
  <1> QED
    BY <1>1, <1>2, PTL DEF Spec

\* Balances, legs and the call's record keep their types.
THEOREM VenueTypes == Spec => []TypeOK
  <1>1. VInv => TypeOK
    BY DEF VInv, CallInv, BooksInv
  <1> QED
    BY <1>1, VenueInvariant, PTL

\* closeLeg, unwind and closeAll never name a number the wallet does not hold.
THEOREM ReturnsAreFunded == Spec => []ProceedsInHand
  <1>1. VInv => ProceedsInHand
    BY ReturnFunded DEF VInv
  <1> QED
    BY <1>1, VenueInvariant, PTL

\* A short without its spot is one that deploy has sold and not yet bought for.
THEOREM NakedOnlyBriefly == Spec => []NakedOnlyWhileBuying
  <1>1. VInv => NakedOnlyWhileBuying
    <2> SUFFICES ASSUME VInv, faults \subseteq CleanFaults, NEW m \in Markets,
                        perp[m] > spot[m] + Slack
                 PROVE  call.op = "deploy" /\ Market = m /\ call.step \in {"buy", "naked"}
      BY DEF NakedOnlyWhileBuying
    <2>1. perp[m] \in Nat /\ spot[m] \in Nat /\ Slack \in Nat
      BY SlackIs DEF VInv, CallInv, BooksInv, TypeOK
    <2>2. call.step \in {"buy", "naked"}
      BY <2>1, BackedNow DEF Backed
    <2>3. call.op = "deploy" /\ calls > 0
      BY <2>2, AtDeploy DEF VInv, DeploySteps
    <2>4. Market = m
      <3>1. perp[m] <= spot[m] + Before + (IF m = Market THEN call.units ELSE 0)
        BY <2>2 DEF VInv, CallInv, BooksInv, NakedOk
      <3>2. Before \in Nat /\ Slack = Before + Grain /\ Grain \in Nat
        BY <2>3, SlackIs DEF VInv, CallInv, BooksInv
      <3> QED
        BY <2>1, <3>1, <3>2
    <2> QED
      BY <2>2, <2>3, <2>4
  <1> QED
    BY <1>1, VenueInvariant, PTL

\* The order deploy places fits the margin that arrived for it, at the sizing leverage.
THEOREM DeploymentsKeepLeverage == Spec => DeploysWithinLeverage
  <1>1. VInv => (Short /\ WithinLeverage(perp, cash.margin - call.backing)
                    => WithinLeverage(perp', cash'.margin))
    BY ShortKeepsLeverage DEF VInv
  <1> QED
    BY <1>1, VenueInvariant, PTL DEF DeploysWithinLeverage

\* A close that reports no failure leaves no leg and no margin.
THEOREM ClosesAreFlat == Spec => FlatAfterClose
  <1>1. VInv => (ReturnAll /\ call.op = "closeAll" /\ call.failures = 0 =>
                    spot' = NoPlan /\ perp' = NoPlan /\ cash'.margin = 0)
    BY CloseIsFlat DEF VInv
  <1> QED
    BY <1>1, VenueInvariant, PTL DEF FlatAfterClose


-----------------------------------------------------------------------------
\* The record.

\* The record is left exact.
Exact == unseen' = unseen /\ (call.op # "closeAll" => doubled' = doubled)

\* It is when rows cover legs, and in a single run are as many.
LEMMA FinishExact ==
    ASSUME VInv, NEW r \in Nat, NEW l \in Nat, Finish(r, l), l <= r,
           call.op # "closeAll" => r = l
    PROVE  Exact
  <1>1. unseen' = (unseen \/ r < l) /\ doubled' = (doubled \/ r > l)
    BY DEF Finish
  <1>2. ~(r < l) /\ (call.op # "closeAll" => ~(r > l))
    OBVIOUS
  <1>3. unseen \in BOOLEAN /\ doubled \in BOOLEAN
    BY DEF VInv, CallInv, BooksInv, TypeOK
  <1> QED
    BY <1>1, <1>2, <1>3 DEF Exact

\* A step that advances a call adds as many rows as legs.
LEMMA AdvanceExact ==
    ASSUME NEW c, Advance(c)
    PROVE  Exact
  BY DEF Advance, history, Exact

\* Only a swap fails, or the order that flattens after it.
SwapsOnly == faults \subseteq {"swap", "closeNaked"}

\* In a run whose only faults are swaps that revert, no other step fails.
LEMMA NoOtherFault ==
    ASSUME SwapsOnly
    PROVE  /\ ~Fault("bridge") /\ ~Fault("venue") /\ ~Fault("return") /\ ~Fault("lostReply")
           /\ ~Fault("read") /\ ~Fault("crash")
  BY DEF SwapsOnly, Fault

\* The steps of a deployment keep the record exact.
LEMMA DeployingExact ==
    ASSUME VInv, SwapsOnly, Deploying
    PROVE  Exact
  <1>0. /\ call \in CallStates /\ call.rows \in Nat /\ call.legs \in Nat /\ call.legs <= call.rows
        /\ call.op # "closeAll" => call.rows = call.legs
        /\ At("cross") => call.legs = 0
    BY RecordIs DEF VInv, CallInv, BooksInv, TypeOK, RecordOk, SwapsOnly
  <1>1. CASE StartDeploy \/ StartTopUp
    BY <1>1 DEF StartDeploy, StartTopUp, Counted, Exact
  <1>2. CASE Cross
    BY <1>2, AdvanceExact DEF Cross, Exact, history
  <1>3. CASE CrossFails
    <2>1. Throw /\ At("cross")
      BY <1>3, NoOtherFault DEF CrossFails
    <2>2. Finish(0, 0)
      BY <1>0, <2>1 DEF Throw
    <2> QED
      BY <2>2, FinishExact
  <1>4. CASE Size
    <2>1. ThrowVenue \/ \E c : Advance(c)
      BY <1>4 DEF Size
    <2> QED
      BY <1>0, <2>1, FinishExact, AdvanceExact DEF ThrowVenue
  <1>5. CASE SizeFails \/ BuyUnread
    BY <1>5, NoOtherFault DEF SizeFails, BuyUnread
  <1>6. CASE Short
    <2>1. Advance([Done(call, 1) EXCEPT !.step = "buy"])
      BY <1>6, NoOtherFault DEF Short
    <2> QED
      BY <2>1, AdvanceExact
  <1>7. CASE ShortRefused
    \* The account carries what the margin behind the order allows.
    <2>0. ~Fault("venue")
      BY NoOtherFault
    <2>1. At("short") /\ ~Carried([perp EXCEPT ![Market] = perp[Market] + call.units])
      BY <1>7, <2>0 DEF ShortRefused
    <2>2. /\ Market \in Markets /\ perp \in [Markets -> Nat] /\ call.units \in Nat
          /\ call.backing \in Nat /\ cash["margin"] \in Nat
      BY <1>0, <2>1, AtDeploy DEF At, DeploySteps, VInv, CallInv, BooksInv, TypeOK, CallStates, Places
    <2>3. PICK shorts \in [Markets -> Nat] :
              shorts = [perp EXCEPT ![Market] = perp[Market] + call.units]
      <3>1. PICK k \in Nat : k = perp[Market] + call.units
        BY <2>2
      <3>2. [perp EXCEPT ![Market] = k] \in [Markets -> Nat]
        BY <2>2
      <3> QED
        BY <3>1, <3>2
    <2>4. Sigma(shorts) = Sigma(perp) + call.units /\ Sigma(shorts) \in Nat /\ Sigma(perp) \in Nat
      <3>1. /\ shorts[Market] = perp[Market] + call.units
            /\ \A m \in Markets : m # Market => shorts[m] = perp[m]
        BY <2>2, <2>3
      <3> QED
        BY <2>2, <3>1, SigmaGrows, SigmaMoves
    <2>5. PICK rest \in Nat : cash["margin"] = rest + call.backing
      <3>1. call.backing <= cash["margin"]
        BY <2>1 DEF VInv, CallInv, BooksInv, CarriedOk, At
      <3>2. cash["margin"] - call.backing \in Nat
            /\ cash["margin"] = (cash["margin"] - call.backing) + call.backing
        BY <2>2, <3>1
      <3> QED
        BY <3>2
    <2>6. Sigma(perp) <= rest * VenueLeverage /\ call.units * BPS <= call.backing * Leverage
      <3>1. cash["margin"] - call.backing = rest
        BY <2>2, <2>5
      <3> QED
        BY <2>1, <3>1 DEF VInv, CallInv, BooksInv, CarriedOk, SizedOk, At
    <2>7. call.units <= call.backing * VenueLeverage
      <3>1. BPS \in Nat \ {0} /\ Leverage \in Nat /\ VenueLeverage \in Nat
            /\ Leverage <= VenueLeverage * BPS
        BY CeilingLeverage, VenueAssumption
      <3>2. VenueLeverage * BPS \in Nat /\ call.backing * VenueLeverage \in Nat
        BY <2>2, <3>1, Products
      <3>3. Leverage * call.backing <= (VenueLeverage * BPS) * call.backing
        BY <2>2, <3>1, <3>2, Products
      <3>4. (VenueLeverage * BPS) * call.backing = (call.backing * VenueLeverage) * BPS
        BY <2>2, <3>1
      <3>5. Leverage * call.backing = call.backing * Leverage
        BY <2>2, <3>1
      <3>6. /\ call.units * BPS \in Nat /\ call.backing * Leverage \in Nat
            /\ (call.backing * VenueLeverage) * BPS \in Nat
        BY <2>2, <3>1, <3>2, Products
      <3>7. call.units * BPS <= (call.backing * VenueLeverage) * BPS
        BY <2>6, <3>3, <3>4, <3>5, <3>6
      <3> QED
        BY <2>2, <3>1, <3>2, <3>7, ProductsCancel
    <2>8. Sigma(shorts) <= cash["margin"] * VenueLeverage
      <3>1. VenueLeverage \in Nat
        BY CeilingLeverage
      <3>2. /\ (rest + call.backing) * VenueLeverage
                  = rest * VenueLeverage + call.backing * VenueLeverage
            /\ rest * VenueLeverage \in Nat /\ call.backing * VenueLeverage \in Nat
        BY <2>2, <3>1, Products
      <3> QED
        BY <2>2, <2>4, <2>5, <2>6, <2>7, <3>2
    <2>9. Carried(shorts)
      BY <2>2, <2>4, <2>8, CeilingLeverage, CeilCovers DEF Carried
    <2> QED
      BY <2>1, <2>3, <2>9
  <1>8. CASE Buy
    <2>1. Finish(call.rows + 1, call.legs + 1)
      BY <1>8, NoOtherFault DEF Buy
    <2> QED
      BY <1>0, <2>1, FinishExact
  <1>9. CASE BuyFails
    BY <1>9, AdvanceExact DEF BuyFails, AfterFailedBuy
  <1>10. CASE CloseNaked
    <2>1. Finish(call.rows + 1, call.legs + 1) \/ Finish(call.rows, call.legs)
      BY <1>10 DEF CloseNaked, ThrowVenue
    <2>2. /\ call.rows + 1 \in Nat /\ call.legs + 1 \in Nat /\ call.legs + 1 <= call.rows + 1
          /\ call.op # "closeAll" => call.rows + 1 = call.legs + 1
      BY <1>0
    <2>3. CASE Finish(call.rows + 1, call.legs + 1)
      BY <2>2, <2>3, FinishExact
    <2>4. CASE Finish(call.rows, call.legs)
      BY <1>0, <2>4, FinishExact
    <2> QED
      BY <2>1, <2>3, <2>4
  <1> QED
    BY <1>1, <1>2, <1>3, <1>4, <1>5, <1>6, <1>7, <1>8, <1>9, <1>10 DEF Deploying

\* So do those of an unwind and of a close.
LEMMA ClosingExact ==
    ASSUME VInv, SwapsOnly, Closing
    PROVE  Exact
  <1>0. /\ call \in CallStates /\ call.rows \in Nat /\ call.legs \in Nat /\ call.legs <= call.rows
        /\ call.op # "closeAll" => call.rows = call.legs
    BY RecordIs DEF VInv, CallInv, BooksInv, TypeOK, SwapsOnly
  <1>1. CASE StartUnwind \/ StartClose
    BY <1>1 DEF StartUnwind, StartClose, Counted, Exact
  <1>2. CASE CloseMarket \/ Repatriate
    <2>1. \E c : Advance(c)
      BY <1>2 DEF CloseMarket, Repatriate
    <2> QED
      BY <2>1, AdvanceExact
  <1>3. CASE CloseReadFails \/ ReduceFails
    BY <1>3, NoOtherFault DEF CloseReadFails, ReduceFails
  <1>4. CASE Reduce
    <2>1. \E c : Advance(c)
      BY <1>4, NoOtherFault DEF Reduce
    <2> QED
      BY <2>1, AdvanceExact
  <1>5. CASE Sell
    <2>1. \E c : Advance(c)
      BY <1>5, NoOtherFault DEF Sell
    <2> QED
      BY <2>1, AdvanceExact
  <1>6. CASE SellFails
    <2>1. LegThrows(TRUE, call.legs)
      BY <1>6, NoOtherFault DEF SellFails
    <2>2. (\E c : Advance(c)) \/ Finish(call.rows, call.legs)
      BY <2>1 DEF LegThrows
    <2> QED
      BY <1>0, <2>2, AdvanceExact, FinishExact
  <1>7. CASE RepatriateFails
    <2>1. \E c : Advance(c)
      BY <1>7 DEF RepatriateFails
    <2> QED
      BY <2>1, AdvanceExact
  <1>8. CASE ReturnAll
    <2>1. PICK n \in Nat : Finish(call.rows + n, call.legs + n)
      BY <1>8 DEF ReturnAll
    <2> QED
      BY <1>0, <2>1, FinishExact
  <1>9. CASE ReturnFails
    <2>1. cash.base < ToReturn /\ call.step = "return"
      BY <1>9, NoOtherFault DEF ReturnFails, At
    <2>2. cash["base"] \in Nat /\ (call.op = "unwind" => call.raised <= cash["base"])
          /\ call.op \in {"unwind", "closeAll"} /\ call.raised \in Nat
      BY <2>1 DEF VInv, CallInv, BooksInv, TypeOK, InHandOk, StepsOk, Places, CallStates, CloseSteps
    <2> QED
      BY <2>1, <2>2 DEF ToReturn
  <1> QED
    BY <1>1, <1>2, <1>3, <1>4, <1>5, <1>6, <1>7, <1>8, <1>9 DEF Closing

\* What a call hands over counts every leg that moved money, and no leg twice.
THEOREM RecordsAreExact == Spec => RecordExact
  <1>1. ASSUME VInv, [Next]_vars, SwapsOnly PROVE Exact
    <2>1. CASE Rebalance \/ Lands \/ UNCHANGED vars
      BY <2>1 DEF Rebalance, Lands, Counted, Exact, history, vars
    <2>2. CASE Crash
      BY <1>1, <2>2, NoOtherFault DEF Crash
    <2> QED
      BY <1>1, <2>1, <2>2, DeployingExact, ClosingExact DEF Next
  <1>2. VInv /\ [Next]_vars =>
           (faults \subseteq {"swap", "closeNaked"} =>
              unseen' = unseen /\ (call.op # "closeAll" => doubled' = doubled))
    BY <1>1 DEF SwapsOnly, Exact
  <1> QED
    BY <1>2, VenueInvariant, PTL DEF RecordExact, Spec

-----------------------------------------------------------------------------
\* The buffer.

\* Free margin leaves the account only on its way home.
LEMMA MarginLeaves ==
    ASSUME VInv, [Next]_vars, cash'["margin"] < cash["margin"]
    PROVE  Repatriate \/ RepatriateFails
  <1>0. TypeOK /\ cash \in [Places -> Nat] /\ cash["margin"] \in Nat /\ call \in CallStates
    BY DEF VInv, CallInv, BooksInv, TypeOK, Places
  <1>1. ~(UNCHANGED cash)
    BY <1>0
  <1>2. cash'["margin"] # cash["margin"]
    BY <1>0
  <1>3. CASE StartDeploy \/ StartTopUp
    <2>1. \E source \in {"vault", "base"} : \E n :
             cash' = IF source = "vault" THEN Move("vault", "base", n, 0) ELSE cash
      BY <1>3 DEF StartDeploy, StartTopUp, Fund
    <2>2. ASSUME NEW n, cash' = Move("vault", "base", n, 0) PROVE cash'["margin"] = cash["margin"]
      BY <1>0, <2>2 DEF Move, Places
    <2> QED
      BY <1>0, <1>2, <2>1, <2>2
  <1>4. CASE Cross
    <2>1. PICK loss \in Losses :
              loss < call.asked /\ cash' = Move("base", "margin", call.asked, loss)
      BY <1>4 DEF Cross
    <2>2. loss \in Nat /\ call.asked \in Nat
      BY <1>0, VenueAssumption DEF CallStates
    <2>3. cash'["margin"] = cash["margin"] + call.asked - loss
      BY <1>0, <2>1 DEF Move, Places
    <2> QED
      BY <1>0, <2>1, <2>2, <2>3
  <1>5. CASE CrossFails
    <2>1. ASSUME NEW to \in {"outbound", "solana"}, NEW loss,
                 cash' = Move("base", to, call.asked, loss)
          PROVE  cash'["margin"] = cash["margin"]
      BY <1>0, <2>1 DEF Move, Places
    <2> QED
      BY <1>0, <1>1, <1>2, <1>5, <2>1 DEF CrossFails
  <1>6. CASE Buy \/ BuyUnread
    <2>1. Bought => cash'["margin"] = cash["margin"]
      BY <1>0 DEF Bought, Places
    <2> QED
      BY <1>0, <1>1, <1>2, <1>6, <2>1 DEF Buy, BuyUnread
  <1>7. CASE Sell
    <2>1. \E b : cash' = [cash EXCEPT !.base = b]
      BY <1>7 DEF Sell
    <2> QED
      BY <1>0, <1>2, <2>1 DEF Places
  <1>8. CASE ReturnAll
    <2>1. cash' = Move("base", "vault", ToReturn, 0)
      BY <1>8 DEF ReturnAll
    <2> QED
      BY <1>0, <1>2, <2>1 DEF Move, Places
  <1>9. CASE Lands
    <2>1. \/ cash' = Move("outbound", "solana", cash.outbound, 0)
          \/ cash' = Move("homebound", "base", cash.homebound, 0)
      BY <1>9 DEF Lands
    <2> QED
      BY <1>0, <1>2, <2>1 DEF Move, Places
  <1>10. CASE Deploying
    BY <1>1, <1>3, <1>4, <1>5, <1>6, <1>10
       DEF Deploying, Size, SizeFails, Short, ShortRefused, BuyFails, CloseNaked
  <1>11. CASE Closing
    BY <1>1, <1>7, <1>8, <1>11
       DEF Closing, StartUnwind, StartClose, CloseMarket, CloseReadFails, Reduce, ReduceFails,
           SellFails, ReturnFails
  <1>12. CASE Rebalance \/ Crash \/ UNCHANGED vars
    BY <1>1, <1>12 DEF Rebalance, Crash, vars
  <1> QED
    BY <1>9, <1>10, <1>11, <1>12 DEF Next

\* The mandate's leverage is the venue's: whole, or at most one.
WholeLeverage == Leverage <= BPS \/ \E k \in Nat : Leverage = k * BPS

\* With such a one, the venue's requirement and what is retained make up the mandate's.
LEMMA RetainedCovers ==
    ASSUME WholeLeverage, NEW n \in Nat
    PROVE  MarginFor(n) <= CeilDiv(n, VenueLeverage) + Most(0, (n * BPS) \div Leverage - n)
  <1>1. BPS \in Nat \ {0} /\ Leverage \in Nat \ {0} /\ VenueLeverage \in Nat \ {0}
    BY VenueAssumption, CeilingLeverage
  <1>2. PICK x \in Nat : x = (n * BPS) \div Leverage /\ x * Leverage <= n * BPS
    BY <1>1, Products, Quotient
  <1>3. PICK c \in Nat : c = CeilDiv(n, VenueLeverage) /\ n <= c * VenueLeverage
    BY <1>1, CeilCovers
  <1>4. CASE Leverage <= BPS
    <2>1. VenueLeverage = 1
      <3>1. CeilDiv(Leverage, BPS) \in Nat /\ CeilDiv(Leverage, BPS) <= 1
        <4>1. Leverage <= 1 * BPS
          BY <1>1, <1>4
        <4> QED
          BY <1>1, <4>1, CeilCovers
      <3> QED
        BY <3>1 DEF VenueLeverage, Most
    <2>2. n <= c
      BY <1>3, <2>1
    <2> QED
      BY <1>2, <1>3, <2>2 DEF MarginFor, Most
  <1>5. ASSUME NEW k \in Nat, Leverage = k * BPS
        PROVE  MarginFor(n) <= CeilDiv(n, VenueLeverage) + Most(0, (n * BPS) \div Leverage - n)
    <2>1. k # 0
      BY <1>1, <1>5
    <2>2. VenueLeverage <= k
      <3>1. CeilDiv(Leverage, BPS) \in Nat /\ CeilDiv(Leverage, BPS) <= k
        <4>1. Leverage <= k * BPS
          BY <1>1, <1>5
        <4> QED
          BY <1>1, <4>1, CeilCovers
      <3> QED
        BY <2>1, <3>1 DEF VenueLeverage, Most
    <2>3. x * k <= n
      <3>1. x * Leverage = (x * k) * BPS
        BY <1>1, <1>5
      <3>2. x * k \in Nat
        BY <1>5, Products
      <3>3. (x * k) * BPS <= n * BPS
        BY <1>2, <3>1
      <3> QED
        BY <1>1, <3>2, <3>3, ProductsCancel
    <2>4. c * VenueLeverage <= c * k
      <3>1. VenueLeverage * c <= k * c
        BY <1>1, <2>2, Products
      <3> QED
        BY <1>1, <3>1
    <2>5. x * k <= c * k
      <3>1. c * VenueLeverage \in Nat /\ c * k \in Nat /\ x * k \in Nat
        BY <1>1, Products
      <3> QED
        BY <1>3, <2>3, <2>4, <3>1
    <2>6. x <= c
      BY <2>1, <2>5, ProductsCancel
    <2> QED
      BY <1>2, <1>3, <2>6 DEF MarginFor, Most
  <1> QED
    BY <1>4, <1>5 DEF WholeLeverage

\* An unwind leaves the shorts that remain with the margin the mandate sizes them at.
THEOREM BuffersSurvive == WholeLeverage => (Spec => BufferSurvivesUnwind)
  <1> SUFFICES ASSUME WholeLeverage PROVE Spec => BufferSurvivesUnwind
    OBVIOUS
  <1>1. ASSUME VInv, [Next]_vars, ~Fault("read"), call.op = "unwind", cash'.margin < cash.margin
        PROVE  cash'.margin >= MarginFor(Sigma(perp))
    <2>1. Repatriate \/ RepatriateFails
      BY <1>1, MarginLeaves
    <2>2. \A kept \in Kept : kept = Retained(perp)
      BY <1>1 DEF Kept, Sweeps
    <2>3. cash \in [Places -> Nat] /\ perp \in [Markets -> Nat] /\ cash["margin"] \in Nat
      BY <1>1 DEF VInv, CallInv, BooksInv, TypeOK, Places
    <2>4. PICK w : w = Withdrawable(Retained(perp))
      OBVIOUS
    <2>5. cash'["margin"] = cash["margin"] - w
      <3>1. ASSUME NEW kept \in Kept PROVE Withdrawable(kept) = w
        BY <2>2, <2>4
      <3>2. \/ UNCHANGED cash
            \/ \E o, b : cash' = [cash EXCEPT !.margin = @ - w, !.solana = o, !.base = b]
            \/ \E o : cash' = [cash EXCEPT !.margin = @ - w, !.solana = o]
            \/ \E o, h : cash' = [cash EXCEPT !.margin = @ - w, !.solana = o, !.homebound = h]
        BY <2>1, <3>1 DEF Repatriate, RepatriateFails
      <3>3. ~UNCHANGED cash
        BY <1>1, <2>3
      <3>4. cash' = [cash EXCEPT !.margin = @ - w, !.solana = cash'.solana,
                                 !.base = cash'.base, !.homebound = cash'.homebound]
        BY <2>3, <3>2, <3>3 DEF Places
      <3> QED
        BY <2>3, <3>4 DEF Places
    <2>6. /\ Sigma(perp) \in Nat /\ CeilDiv(Sigma(perp), VenueLeverage) \in Nat
      BY <2>3, UnallocatedIs
    <2>7. Retained(perp) \in Nat
      <3>1. (Sigma(perp) * BPS) \div Leverage \in Nat
        BY <2>6, VenueAssumption, Products, Quotient
      <3> QED
        BY <2>6, <3>1 DEF Retained, Most
    <2>8. cash'["margin"] = CeilDiv(Sigma(perp), VenueLeverage) + Retained(perp)
      BY <1>1, <2>3, <2>4, <2>5, <2>6, <2>7 DEF Withdrawable, Unallocated, Most
    <2>9. MarginFor(Sigma(perp)) <= CeilDiv(Sigma(perp), VenueLeverage) + Retained(perp)
      BY <2>6, RetainedCovers DEF Retained
    <2>10. MarginFor(Sigma(perp)) \in Nat
      BY <2>6, VenueAssumption, Products, Quotient DEF MarginFor
    <2> QED
      BY <2>6, <2>7, <2>8, <2>9, <2>10
  <1>2. VInv /\ [Next]_vars =>
           (~Fault("read") /\ call.op = "unwind" /\ cash'.margin < cash.margin =>
              cash'.margin >= MarginFor(Sigma(perp)))
    BY <1>1
  <1> QED
    BY <1>2, VenueInvariant, PTL DEF BufferSurvivesUnwind, Spec


-----------------------------------------------------------------------------
\* allocateUnwind.

\* What a pass over s has made of `sofar`: never more than the amount, from each
\* market nothing or at most its limit, and with a floor of one either the amount
\* or all there is.
Held(s, limit, floor, sofar, amount, taken) ==
    /\ Sigma(taken) <= amount
    /\ \A m \in Markets \ s : taken[m] = sofar[m]
    /\ \A m \in s : sofar[m] <= taken[m] /\ taken[m] <= sofar[m] + limit[m]
    /\ floor <= 1 => \/ Sigma(taken) = amount
                     \/ \A m \in s : taken[m] = sofar[m] + limit[m]

\* One market more keeps it so.
LEMMA HeldOn ==
    ASSUME NEW limit \in [Markets -> Int], NEW floor \in Nat, NEW amount \in Nat,
           NEW sofar \in [Markets -> Nat], NEW taken \in [Markets -> Nat],
           NEW s \in SUBSET Markets, NEW x \in s, limit[x] >= 0,
           Held(s \ {x}, limit, floor, sofar, amount, taken)
    PROVE  Held(s, limit, floor, sofar, amount, Taken(limit, floor, amount, taken, x))
  <1>1. Sigma(taken) \in Nat /\ Sigma(taken) <= amount
    BY MarketsFinite, SigmaTotal, TotalNat DEF Held
  <1>0. PICK take \in Nat : take = Least(amount - Sigma(taken), limit[x])
    BY <1>1 DEF Least
  <1>2. /\ take \in Nat /\ take <= limit[x] /\ take <= amount - Sigma(taken)
        /\ take = limit[x] \/ take = amount - Sigma(taken)
    BY <1>0, <1>1 DEF Least
  <1>3. taken[x] = sofar[x] /\ \A m \in Markets \ s : taken[m] = sofar[m]
    BY DEF Held
  <1>4. \A m \in s \ {x} : sofar[m] <= taken[m] /\ taken[m] <= sofar[m] + limit[m]
    BY DEF Held
  <1>5. floor <= 1 => \/ Sigma(taken) = amount
                      \/ \A m \in s \ {x} : taken[m] = sofar[m] + limit[m]
    BY DEF Held
  <1>6. CASE take < floor
    <2>1. Taken(limit, floor, amount, taken, x) = taken
      BY <1>0, <1>6 DEF Taken
    <2>2. floor <= 1 => Sigma(taken) = amount \/ limit[x] = 0
      BY <1>1, <1>2, <1>6
    <2>3. floor <= 1 => \/ Sigma(taken) = amount
                        \/ \A m \in s : taken[m] = sofar[m] + limit[m]
      BY <1>3, <1>5, <2>2
    <2>4. \A m \in s : sofar[m] <= taken[m] /\ taken[m] <= sofar[m] + limit[m]
      BY <1>3, <1>4
    <2> QED
      BY <1>1, <1>3, <2>1, <2>3, <2>4 DEF Held
  <1>7. CASE ~(take < floor)
    <2>0. PICK u \in [Markets -> Nat] :
              /\ Taken(limit, floor, amount, taken, x) = u
              /\ u[x] = taken[x] + take
              /\ \A y \in Markets : y # x => u[y] = taken[y]
      <3>1. taken[x] + take \in Nat
        BY <1>2
      <3>2. [taken EXCEPT ![x] = taken[x] + take] \in [Markets -> Nat]
        BY <3>1
      <3> QED
        BY <1>0, <1>7, <3>2 DEF Taken
    <2>1. Taken(limit, floor, amount, taken, x) = u
      BY <2>0
    <2>2. u[x] = taken[x] + take /\ \A y \in Markets : y # x => u[y] = taken[y]
      BY <2>0
    <2>3. Sigma(u) = Sigma(taken) + take
      BY <2>2, SigmaGrows
    <2>4. Sigma(u) <= amount
      BY <1>1, <1>2, <2>3
    <2>5. \A m \in Markets \ s : u[m] = sofar[m]
      BY <1>3, <2>2
    <2>6. \A m \in s : sofar[m] <= u[m] /\ u[m] <= sofar[m] + limit[m]
      BY <1>2, <1>3, <1>4, <2>2
    <2>7. floor <= 1 => Sigma(u) = amount \/ \A m \in s : u[m] = sofar[m] + limit[m]
      <3>1. CASE Sigma(taken) = amount
        BY <1>1, <1>2, <2>3, <3>1
      <3>2. CASE take = amount - Sigma(taken)
        BY <1>1, <2>3, <3>2
      <3>3. CASE take = limit[x] /\ \A m \in s \ {x} : taken[m] = sofar[m] + limit[m]
        BY <1>3, <2>2, <3>3
      <3> QED
        BY <1>2, <1>5, <3>1, <3>2, <3>3
    <2> QED
      BY <2>1, <2>4, <2>5, <2>6, <2>7 DEF Held
  <1> QED
    BY <1>6, <1>7

\* A pass is held to its amount and to its limits, whatever its order.
LEMMA PassHeld ==
    ASSUME NEW size \in [Markets -> Int], NEW D \in SUBSET Markets,
           NEW limit \in [Markets -> Int], \A m \in D : limit[m] >= 0, NEW floor \in Nat,
           NEW sofar \in [Markets -> Nat], NEW amount \in Nat, Sigma(sofar) <= amount
    PROVE  /\ Pass(size, D, limit, floor, sofar, amount) \in [Markets -> Nat]
           /\ Held(D, limit, floor, sofar, amount, Pass(size, D, limit, floor, sofar, amount))
  <1>0. PICK h \in Outcomes(D) :
            /\ Passed(D, limit, floor, sofar, amount, h)
            /\ Result(size, D, limit, floor, sofar, amount, h)
    BY PassIs
  <1>1. /\ h \in [SUBSET D -> [Markets -> Nat]]
        /\ Passed(D, limit, floor, sofar, amount, h)
        /\ Pass(size, D, limit, floor, sofar, amount) = h[D]
    BY <1>0 DEF Outcomes, Result
  <1> DEFINE G == {s \in SUBSET D : Held(s, limit, floor, sofar, amount, h[s])}
  <1>2. {} \in G
    BY <1>1 DEF Passed, Held
  <1>3. ASSUME NEW s \in SUBSET D, s # {} PROVE \E x \in s : (s \ {x} \in G => s \in G)
    <2>1. PICK x \in s : h[s] = Taken(limit, floor, amount, h[s \ {x}], x)
      BY <1>1, <1>3 DEF Passed
    <2>2. h[s \ {x}] \in [Markets -> Nat] /\ limit[x] >= 0 /\ s \in SUBSET Markets
      BY <1>1
    <2>3. ASSUME s \ {x} \in G PROVE s \in G
      <3>1. PICK t \in [Markets -> Nat] : t = h[s \ {x}]
        BY <2>2
      <3>2. Held(s \ {x}, limit, floor, sofar, amount, t)
        BY <2>3, <3>1
      <3>3. Held(s, limit, floor, sofar, amount, Taken(limit, floor, amount, t, x))
        BY <2>2, <3>2, HeldOn
      <3> QED
        BY <2>1, <3>1, <3>3
    <2> QED
      BY <2>3
  <1>4. IsFiniteSet(D)
    BY MarketsFinite, FS_Subset
  <1>5. \A s \in SUBSET D : s \in G
    <2> HIDE DEF G
    <2> QED
      BY <1>2, <1>3, <1>4, PartInduction
  <1>6. Held(D, limit, floor, sofar, amount, h[D])
    BY <1>5
  <1> QED
    BY <1>1, <1>6

\* Over one market it is that market's turn.
LEMMA PassOfOne ==
    ASSUME NEW size \in [Markets -> Int], NEW x \in Markets,
           NEW limit \in [Markets -> Int], NEW floor \in Nat,
           NEW sofar \in [Markets -> Nat], NEW amount \in Nat
    PROVE  Pass(size, {x}, limit, floor, sofar, amount) = Taken(limit, floor, amount, sofar, x)
  <1> PICK D \in SUBSET Markets : D = {x}
    OBVIOUS
  <1>0. PICK h \in Outcomes(D) :
            /\ Passed(D, limit, floor, sofar, amount, h)
            /\ Result(size, D, limit, floor, sofar, amount, h)
    BY PassIs
  <1>1. /\ Passed({x}, limit, floor, sofar, amount, h)
        /\ Pass(size, {x}, limit, floor, sofar, amount) = h[{x}]
    BY <1>0 DEF Result
  <1>2. {x} \in SUBSET {x} /\ {x} # {} /\ {x} \ {x} = {}
    OBVIOUS
  <1>3. PICK m \in {x} : h[{x}] = Taken(limit, floor, amount, h[{x} \ {m}], m)
    BY <1>1, <1>2 DEF Passed
  <1> QED
    BY <1>1, <1>2, <1>3 DEF Passed

\* Over none, nobody's.
LEMMA PassOfNone ==
    ASSUME NEW size \in [Markets -> Int],
           NEW limit \in [Markets -> Int], NEW floor \in Nat,
           NEW sofar \in [Markets -> Nat], NEW amount \in Nat
    PROVE  Pass(size, {}, limit, floor, sofar, amount) = sofar
  <1> PICK D \in SUBSET Markets : D = {}
    OBVIOUS
  <1>0. PICK h \in Outcomes(D) :
            /\ Passed(D, limit, floor, sofar, amount, h)
            /\ Result(size, D, limit, floor, sofar, amount, h)
    BY PassIs
  <1>1. /\ Passed({}, limit, floor, sofar, amount, h)
        /\ Pass(size, {}, limit, floor, sofar, amount) = h[{}]
    BY <1>0 DEF Result
  <1> QED
    BY <1>1 DEF Passed


\* The value of the markets that can be sold.
Sellable(value, sellable) == [m \in Markets |-> IF m \in sellable THEN value[m] ELSE 0]

\* Summing over some markets is summing them all with nothing in the others.
LEMMA SellableIs ==
    ASSUME NEW value \in [Markets -> Nat], NEW sellable \in SUBSET Markets
    PROVE  /\ Sellable(value, sellable) \in [Markets -> Nat]
           /\ SumOver(value, sellable) = Total(Sellable(value, sellable))
  <1> PICK f \in [Markets -> Nat] : f = Sellable(value, sellable)
    BY DEF Sellable
  <1> PICK g \in [sellable -> Nat] : g = [m \in sellable |-> value[m]]
    OBVIOUS
  <1>1. IsFiniteSet(Markets) /\ IsFiniteSet(sellable)
    BY MarketsFinite, FS_Subset
  <1>2. \A m \in sellable : f[m] = g[m]
    BY DEF Sellable
  <1>3. \A m \in Markets : f[m] > 0 => m \in sellable
    BY DEF Sellable
  <1>4. Total(f) <= Total(g)
    <2>1. \A m \in Markets : f[m] > 0 => m \in sellable /\ f[m] <= g[m]
      BY <1>2, <1>3
    <2> QED
      BY <1>1, <2>1, TotalLe
  <1>5. Total(g) <= Total(f)
    <2>1. \A m \in sellable : g[m] > 0 => m \in Markets /\ g[m] <= f[m]
      BY <1>2
    <2> QED
      BY <1>1, <2>1, TotalLe
  <1>6. Total(f) \in Nat /\ Total(g) \in Nat
    BY <1>1, TotalNat
  <1>7. SumOver(value, sellable) = Total(g)
    <2>1. \A D \in SUBSET Markets : SumOver(value, D) = Total([m \in D |-> value[m]])
      BY MarketsFinite, SumIsTotal
    <2>2. SumOver(value, sellable) = Total([m \in sellable |-> value[m]])
      BY <2>1
    <2> QED
      BY <2>2
  <1> QED
    BY <1>4, <1>5, <1>6, <1>7

\* An empty plan raises nothing.
LEMMA NoPlanIs ==
    NoPlan \in [Markets -> Nat] /\ Sigma(NoPlan) = 0 /\ \A m \in Markets : NoPlan[m] = 0
  <1>1. NoPlan \in [Markets -> Nat] /\ \A m \in Markets : NoPlan[m] = 0
    BY DEF NoPlan
  <1>2. Total(NoPlan) = 0
    BY TotalZero DEF NoPlan
  <1> QED
    BY <1>1, <1>2, SigmaTotal

\* The overweight of a market, and what it limits the first pass to.
LEMMA OverIs ==
    ASSUME NEW value \in [Markets -> Nat], NEW m \in Markets
    PROVE  /\ Over(value, m) \in Int /\ OverweightLimit(value, m) \in Int
           /\ Over(value, m) <= value[m] /\ OverweightLimit(value, m) <= value[m]
           /\ Over(value, m) > 0 => OverweightLimit(value, m) >= 0
           /\ \A n \in Nat : n <= value[m] =>
                (n <= Over(value, m) <=> Sigma(value) * Weight[m] < (value[m] - n + 1) * BPS)
  <1>1. Sigma(value) \in Nat /\ Weight[m] \in Nat /\ BPS \in Nat \ {0} /\ value[m] \in Nat
    BY MarketsFinite, SigmaTotal, TotalNat, VenueAssumption
  <1>2. PICK p \in Nat : p = Sigma(value) * Weight[m]
    BY <1>1
  <1>3. PICK q \in Nat : q = p \div BPS
    BY <1>1, <1>2
  <1>4. Over(value, m) = value[m] - q
    BY <1>2, <1>3 DEF Over
  <1>5. ASSUME NEW n \in Nat, n <= value[m]
        PROVE  n <= Over(value, m) <=> p < (value[m] - n + 1) * BPS
    <2>1. PICK k \in Nat : k = value[m] - n + 1
      BY <1>1, <1>5
    <2>2. k * BPS <= p <=> k <= p \div BPS
      BY <1>1, <2>1, QuotientGreatest
    <2>3. k * BPS \in Nat
      BY <1>1, <2>1
    <2>4. n <= Over(value, m) <=> ~(k <= q)
      BY <1>1, <1>4, <2>1
    <2> QED
      BY <1>2, <1>3, <2>1, <2>2, <2>3, <2>4
  <1>6. /\ Over(value, m) \in Int /\ OverweightLimit(value, m) \in Int
        /\ Over(value, m) <= value[m] /\ OverweightLimit(value, m) <= value[m]
        /\ Over(value, m) > 0 => OverweightLimit(value, m) >= 0
    BY <1>1, <1>4 DEF OverweightLimit, Least
  <1> QED
    BY <1>2, <1>5, <1>6

\* A plan raises what was asked or all there is to sell, and from each market no
\* more than it is worth.
LEMMA AllocationRaises ==
    ASSUME NEW value \in [Markets -> Nat], NEW sellable \in SUBSET Markets, NEW amount \in Nat,
           NEW plan, plan = AllocateUnwind(value, sellable, amount)
    PROVE  /\ Sigma(plan) = Least(amount, SumOver(value, sellable))
           /\ \A m \in Markets : plan[m] <= Sellable(value, sellable)[m]
  <1>1. PICK all \in [Markets -> Nat] : all = Sellable(value, sellable)
    BY SellableIs
  <1>2. SumOver(value, sellable) = Total(all) /\ Total(all) \in Nat
    BY <1>1, SellableIs, MarketsFinite, TotalNat
  <1>3. \A m \in Markets : all[m] = IF m \in sellable THEN value[m] ELSE 0
    BY <1>1 DEF Sellable
  <1>4. CASE Sigma(value) = 0
    <2>1. plan = NoPlan
      BY <1>4 DEF AllocateUnwind
    <2>2. \A m \in Markets : value[m] = 0
      BY <1>4, SigmaTotal, MarketsFinite, TotalCovers
    <2>3. all = [m \in Markets |-> 0]
      BY <1>3, <2>2
    <2>4. Total(all) = 0
      BY <2>3, TotalZero
    <2>5. Least(amount, 0) = 0
      BY DEF Least
    <2>6. \A m \in Markets : plan[m] <= all[m]
      BY <2>1, NoPlanIs
    <2> QED
      BY <1>1, <1>2, <2>1, <2>4, <2>5, <2>6, NoPlanIs
  <1>5. CASE Sigma(value) # 0
    <2>1. PICK over \in [Markets -> Int] : over = [m \in Markets |-> Over(value, m)]
      BY OverIs
    <2>2. PICK limit \in [Markets -> Int] : limit = [m \in Markets |-> OverweightLimit(value, m)]
      BY OverIs
    <2>3. PICK heavy \in SUBSET Markets : heavy = {m \in sellable : over[m] > 0}
      OBVIOUS
    <2>4. MIN_UNWIND_LEG_USDC \in Nat
      BY VenueAssumption
    <2>5. PICK first : first = Pass(over, heavy, limit, MIN_UNWIND_LEG_USDC, NoPlan, amount)
      OBVIOUS
    <2>6. \A m \in heavy : limit[m] >= 0
      BY <2>1, <2>2, <2>3, OverIs
    <2>7. /\ first \in [Markets -> Nat]
          /\ Held(heavy, limit, MIN_UNWIND_LEG_USDC, NoPlan, amount, first)
      <3>1. NoPlan \in [Markets -> Nat] /\ Sigma(NoPlan) <= amount
        BY NoPlanIs
      <3>2. /\ Pass(over, heavy, limit, MIN_UNWIND_LEG_USDC, NoPlan, amount) \in [Markets -> Nat]
            /\ Held(heavy, limit, MIN_UNWIND_LEG_USDC, NoPlan, amount,
                    Pass(over, heavy, limit, MIN_UNWIND_LEG_USDC, NoPlan, amount))
        BY <2>4, <2>6, <3>1, PassHeld
      <3> QED
        BY <2>5, <3>2
    <2>8. /\ Sigma(first) <= amount
          /\ \A m \in Markets : first[m] <= value[m] /\ (m \notin sellable => first[m] = 0)
      <3>1. \A m \in Markets \ heavy : first[m] = 0
        BY <2>7, NoPlanIs DEF Held
      <3>2. ASSUME NEW m \in heavy PROVE first[m] <= value[m]
        <4>1. first[m] <= NoPlan[m] + limit[m]
          BY <2>7 DEF Held
        <4>2. limit[m] <= value[m] /\ limit[m] \in Int
          BY <2>2, OverIs
        <4> QED
          BY <2>7, <4>1, <4>2, NoPlanIs
      <3> QED
        BY <2>3, <2>7, <3>1, <3>2 DEF Held
    <2>9. PICK left \in [Markets -> Int] : left = [m \in Markets |-> value[m] - first[m]]
      <3>1. \A m \in Markets : value[m] - first[m] \in Int
        BY <2>7
      <3>2. [m \in Markets |-> value[m] - first[m]] \in [Markets -> Int]
        BY <3>1
      <3> QED
        BY <3>2
    <2>10. PICK rest \in SUBSET Markets : rest = {m \in sellable : left[m] > 0}
      OBVIOUS
    <2>11. plan = Pass(left, rest, left, 1, first, amount)
      <3>1. AllocateUnwind(value, sellable, amount) = Pass(left, rest, left, 1, first, amount)
        BY <1>5, <2>1, <2>2, <2>3, <2>5, <2>9, <2>10 DEF AllocateUnwind
      <3> QED
        BY <3>1
    <2>12. plan \in [Markets -> Nat] /\ Held(rest, left, 1, first, amount, plan)
      <3>1. \A m \in rest : left[m] >= 0
        BY <2>10
      <3>2. first \in [Markets -> Nat] /\ Sigma(first) <= amount /\ 1 \in Nat
        BY <2>7, <2>8
      <3>3. /\ Pass(left, rest, left, 1, first, amount) \in [Markets -> Nat]
            /\ Held(rest, left, 1, first, amount, Pass(left, rest, left, 1, first, amount))
        BY <3>1, <3>2, PassHeld
      <3> QED
        BY <2>11, <3>3
    <2>13. \A m \in Markets : left[m] = value[m] - first[m]
      BY <2>9
    <2>14. \A m \in Markets \ rest : plan[m] = all[m]
      <3>1. ASSUME NEW m \in Markets \ rest PROVE plan[m] = all[m]
        <4>1. plan[m] = first[m]
          BY <2>12 DEF Held
        <4>2. first[m] <= value[m] /\ (m \notin sellable => first[m] = 0)
          BY <2>8
        <4>3. m \in sellable => ~(left[m] > 0)
          BY <2>10
        <4> QED
          BY <1>3, <2>7, <2>13, <4>1, <4>2, <4>3
      <3> QED
        BY <3>1
    <2>15. \A m \in rest : all[m] = first[m] + left[m]
      BY <1>3, <2>7, <2>10, <2>13
    <2>16. \A m \in Markets : plan[m] <= all[m]
      <3>1. ASSUME NEW m \in rest PROVE plan[m] <= all[m]
        BY <2>12, <2>15 DEF Held
      <3> QED
        BY <2>14, <3>1
    <2>17. Sigma(plan) = Total(plan) /\ Total(plan) \in Nat /\ Sigma(plan) <= amount
      BY <2>12, SigmaTotal, MarketsFinite, TotalNat DEF Held
    <2>18. Total(plan) <= Total(all)
      BY <2>12, <2>16, MarketsFinite, TotalLe
    <2>19. CASE Sigma(plan) = amount
      BY <1>1, <1>2, <2>16, <2>17, <2>18, <2>19 DEF Least
    <2>20. CASE \A m \in rest : plan[m] = first[m] + left[m]
      <3>1. \A m \in Markets : plan[m] = all[m]
        BY <2>14, <2>15, <2>20
      <3>2. plan = all
        BY <2>12, <3>1
      <3> QED
        BY <1>1, <1>2, <2>16, <2>17, <3>2 DEF Least
    <2> QED
      BY <2>12, <2>19, <2>20 DEF Held
  <1> QED
    BY <1>4, <1>5


\* What is nowhere less and no more in all is the same.
LEMMA NothingAdded ==
    ASSUME NEW p \in [Markets -> Nat], NEW q \in [Markets -> Nat],
           \A m \in Markets : p[m] <= q[m], Sigma(q) <= Sigma(p)
    PROVE  q = p
  <1>1. ASSUME NEW x \in Markets, q[x] > p[x] PROVE FALSE
    <2>1. PICK n \in Nat : n = q[x] - p[x]
      BY <1>1
    <2>2. PICK r \in [Markets -> Nat] :
              r[x] = p[x] + n /\ \A y \in Markets : y # x => r[y] = p[y]
      <3>1. [p EXCEPT ![x] = p[x] + n] \in [Markets -> Nat]
        OBVIOUS
      <3> QED
        BY <3>1
    <2>3. Sigma(r) = Sigma(p) + n
      BY <2>2, SigmaGrows
    <2>4. \A y \in Markets : r[y] > 0 => y \in Markets /\ r[y] <= q[y]
      BY <2>1, <2>2
    <2>5. Total(r) <= Total(q)
      BY <2>4, MarketsFinite, TotalLe
    <2>6. /\ Sigma(r) = Total(r) /\ Sigma(q) = Total(q) /\ Sigma(p) = Total(p)
          /\ Total(r) \in Nat /\ Total(q) \in Nat /\ Total(p) \in Nat
      BY SigmaTotal, MarketsFinite, TotalNat
    <2> QED
      BY <1>1, <2>1, <2>3, <2>5, <2>6
  <1>2. \A x \in Markets : q[x] = p[x]
    BY <1>1
  <1> QED
    BY <1>2

\* One market's overweight covers the amount, and no other is above its weight.
OnlyHeavy(value, amount, x) ==
    /\ amount >= MIN_UNWIND_LEG_USDC
    /\ (value[x] - amount) * BPS >= Sigma(value) * Weight[x]
    /\ \A m \in Markets \ {x} : value[m] * BPS <= Sigma(value) * Weight[m]

\* Then it is the only one the plan names.
LEMMA HeaviestPays ==
    ASSUME NEW value \in [Markets -> Nat], NEW amount \in Nat, NEW x \in Markets,
           OnlyHeavy(value, amount, x)
    PROVE  AllocateUnwind(value, Markets, amount) = [NoPlan EXCEPT ![x] = amount]
  <1>1. /\ Sigma(value) \in Nat /\ BPS \in Nat \ {0} /\ MIN_UNWIND_LEG_USDC \in Nat
        /\ \A m \in Markets : Weight[m] \in Nat /\ value[m] \in Nat
                              /\ Sigma(value) * Weight[m] \in Nat
    <2>1. Sigma(value) \in Nat
      BY MarketsFinite, SigmaTotal, TotalNat
    <2>2. /\ BPS \in Nat \ {0} /\ MIN_UNWIND_LEG_USDC \in Nat
          /\ \A m \in Markets : Weight[m] \in Nat /\ value[m] \in Nat
      BY VenueAssumption
    <2>3. \A m \in Markets : Sigma(value) * Weight[m] \in Nat
      BY <2>1, <2>2, Products
    <2> QED
      BY <2>1, <2>2, <2>3
  <1>2. PICK d \in Int : d = value[x] - amount
    BY <1>1
  <1>3. d * BPS >= Sigma(value) * Weight[x] /\ amount >= MIN_UNWIND_LEG_USDC
    BY <1>2 DEF OnlyHeavy
  <1>4. d >= 0
    <2>1. CASE d < 0
      <3>1. PICK e \in Nat \ {0} : d = 0 - e
        <4>1. 0 - d \in Nat \ {0} /\ d = 0 - (0 - d)
          BY <2>1
        <4> QED
          BY <4>1
      <3>2. e * BPS \in Nat \ {0} /\ (0 - e) * BPS = 0 - e * BPS
        BY <1>1
      <3> QED
        BY <1>1, <1>3, <3>1, <3>2
    <2> QED
      BY <2>1
  <1>5. amount <= value[x]
    BY <1>1, <1>2, <1>4
  <1>6. amount <= Over(value, x)
    <2>1. (d + 1) * BPS = d * BPS + BPS /\ d * BPS \in Nat
      BY <1>1, <1>4
    <2>2. Sigma(value) * Weight[x] < (d + 1) * BPS
      BY <1>1, <1>3, <2>1
    <2>3. value[x] - amount + 1 = d + 1
      BY <1>1, <1>2
    <2> QED
      BY <1>5, <2>2, <2>3, OverIs
  <1>7. ASSUME NEW m \in Markets \ {x} PROVE ~(Over(value, m) > 0)
    <2>1. Over(value, m) \in Int /\ Over(value, m) <= value[m]
      BY OverIs
    <2>2. CASE value[m] = 0
      BY <2>1, <2>2
    <2>3. CASE value[m] # 0
      <3>1. 1 <= value[m] /\ value[m] - 1 + 1 = value[m]
        BY <1>1, <2>3
      <3>2. 1 <= Over(value, m) <=> Sigma(value) * Weight[m] < (value[m] - 1 + 1) * BPS
        BY <3>1, OverIs
      <3>3. value[m] * BPS <= Sigma(value) * Weight[m] /\ value[m] * BPS \in Nat
        BY <1>1 DEF OnlyHeavy
      <3> QED
        BY <1>1, <2>1, <3>1, <3>2, <3>3
    <2> QED
      BY <2>2, <2>3
  <1>8. PICK paid \in [Markets -> Nat] :
            /\ paid = [NoPlan EXCEPT ![x] = amount] /\ Sigma(paid) = amount
            /\ paid[x] = amount /\ \A m \in Markets \ {x} : paid[m] = 0
    <2>1. PICK p \in [Markets -> Nat] :
              /\ p = [NoPlan EXCEPT ![x] = amount]
              /\ p[x] = amount /\ \A m \in Markets \ {x} : p[m] = 0
      <3>1. [NoPlan EXCEPT ![x] = amount] \in [Markets -> Nat]
        BY NoPlanIs
      <3>2. [NoPlan EXCEPT ![x] = amount][x] = amount
        BY NoPlanIs
      <3>3. \A m \in Markets \ {x} : [NoPlan EXCEPT ![x] = amount][m] = 0
        BY NoPlanIs
      <3> QED
        BY <3>1, <3>2, <3>3
    <2>2. p[x] = NoPlan[x] + amount /\ \A m \in Markets : m # x => p[m] = NoPlan[m]
      BY <2>1, NoPlanIs
    <2>3. Sigma(p) = Sigma(NoPlan) + amount
      BY <2>2, NoPlanIs, SigmaGrows
    <2>4. Sigma(p) = amount
      BY <2>3, NoPlanIs
    <2> QED
      BY <2>1, <2>4
  <1>9. CASE Sigma(value) = 0
    <2>1. value[x] = 0
      <3>1. Total(value) = 0
        BY <1>9, SigmaTotal
      <3>2. value[x] <= Total(value)
        BY MarketsFinite, TotalCovers
      <3> QED
        BY <1>1, <3>1, <3>2
    <2>2. amount = 0
      BY <1>5, <2>1
    <2>3. paid = NoPlan
      BY <1>8, <2>2, NoPlanIs
    <2> QED
      BY <1>8, <1>9, <2>3 DEF AllocateUnwind
  <1>10. CASE Sigma(value) # 0
    <2>1. PICK over \in [Markets -> Int] : over = [m \in Markets |-> Over(value, m)]
      BY OverIs
    <2>2. PICK limit \in [Markets -> Int] : limit = [m \in Markets |-> OverweightLimit(value, m)]
      BY OverIs
    <2>3. PICK heavy \in SUBSET Markets : heavy = {m \in Markets : over[m] > 0}
      OBVIOUS
    <2>4. PICK first : first = Pass(over, heavy, limit, MIN_UNWIND_LEG_USDC, NoPlan, amount)
      OBVIOUS
    <2>5. first = paid
      <3>1. \A m \in heavy : m = x
        BY <1>7, <2>1, <2>3
      <3>2. CASE x \in heavy
        <4>1. heavy = {x}
          BY <3>1, <3>2
        <4>2. Pass(over, {x}, limit, MIN_UNWIND_LEG_USDC, NoPlan, amount)
                  = Taken(limit, MIN_UNWIND_LEG_USDC, amount, NoPlan, x)
          BY <1>1, NoPlanIs, PassOfOne
        <4>3. limit[x] \in Int /\ amount <= limit[x]
          BY <1>5, <1>6, <2>2 DEF OverweightLimit, Least
        <4>4. Least(amount - Sigma(NoPlan), limit[x]) = amount
          BY <4>3, NoPlanIs DEF Least
        <4>5. Taken(limit, MIN_UNWIND_LEG_USDC, amount, NoPlan, x)
                  = [NoPlan EXCEPT ![x] = NoPlan[x] + amount]
          <5>1. ~(amount < MIN_UNWIND_LEG_USDC)
            BY <1>1, <1>3
          <5>2. Taken(limit, MIN_UNWIND_LEG_USDC, amount, NoPlan, x)
                    = IF amount < MIN_UNWIND_LEG_USDC THEN NoPlan
                      ELSE [NoPlan EXCEPT ![x] = NoPlan[x] + amount]
            BY <4>4, Zenon DEF Taken
          <5> QED
            BY <5>1, <5>2
        <4>6. NoPlan[x] + amount = amount
          BY NoPlanIs
        <4> QED
          BY <1>8, <2>4, <4>1, <4>2, <4>5, <4>6
      <3>3. CASE x \notin heavy
        <4>1. heavy = {}
          BY <3>1, <3>3
        <4>2. amount = 0
          <5>1. ~(Over(value, x) > 0)
            BY <2>1, <2>3, <3>3
          <5> QED
            BY <1>6, <5>1, OverIs
        <4>3. Pass(over, {}, limit, MIN_UNWIND_LEG_USDC, NoPlan, amount) = NoPlan
          BY <1>1, NoPlanIs, PassOfNone, SMTT(30)
        <4>4. paid = NoPlan
          BY <1>8, <4>2, NoPlanIs
        <4> QED
          BY <2>4, <4>1, <4>3, <4>4
      <3> QED
        BY <3>2, <3>3
    <2>6. PICK left \in [Markets -> Int] : left = [m \in Markets |-> value[m] - first[m]]
      <3>1. \A m \in Markets : value[m] - first[m] \in Int
        BY <1>1, <2>5
      <3>2. [m \in Markets |-> value[m] - first[m]] \in [Markets -> Int]
        BY <3>1
      <3> QED
        BY <3>2
    <2>7. PICK rest \in SUBSET Markets : rest = {m \in Markets : left[m] > 0}
      OBVIOUS
    <2>8. AllocateUnwind(value, Markets, amount) = Pass(left, rest, left, 1, first, amount)
      BY <1>10, <2>1, <2>2, <2>3, <2>4, <2>6, <2>7 DEF AllocateUnwind
    <2>9. \A m \in rest : left[m] >= 0
      BY <2>7
    <2>10. paid \in [Markets -> Nat] /\ Sigma(paid) <= amount /\ 1 \in Nat
      BY <1>8
    <2>11. PICK plan : plan = Pass(left, rest, left, 1, paid, amount)
      OBVIOUS
    <2>12. plan \in [Markets -> Nat] /\ Held(rest, left, 1, paid, amount, plan)
      <3>1. /\ Pass(left, rest, left, 1, paid, amount) \in [Markets -> Nat]
            /\ Held(rest, left, 1, paid, amount, Pass(left, rest, left, 1, paid, amount))
        BY <2>9, <2>10, PassHeld
      <3> QED
        BY <2>11, <3>1
    <2>13. \A m \in Markets : paid[m] <= plan[m]
      <3>1. \A m \in rest : paid[m] <= plan[m]
        BY <2>12 DEF Held
      <3>2. \A m \in Markets \ rest : paid[m] <= plan[m]
        BY <2>12 DEF Held
      <3> QED
        BY <3>1, <3>2
    <2>14. Sigma(plan) <= Sigma(paid)
      BY <1>8, <2>12 DEF Held
    <2>15. plan = paid
      BY <2>12, <2>13, <2>14, NothingAdded
    <2> QED
      BY <1>8, <2>5, <2>8, <2>11, <2>15
  <1> QED
    BY <1>9, <1>10


(***************************************************************************)
(* allocateUnwind's header, for any markets, weights and positions: a plan *)
(* raises what was asked or everything that can be sold, and an overweight *)
(* that covers the amount pays it alone.                                   *)
(***************************************************************************)
THEOREM UnwindsRaiseWhatTheyCan == Spec => []AllocationRaisesWhatItCan
  <1>1. ASSUME TypeOK PROVE AllocationRaisesWhatItCan
    <2>1. spot \in [Markets -> Nat]
      BY <1>1 DEF TypeOK
    <2>2. UnwindAmounts \subseteq Nat
      BY VenueAssumption
    <2>3. ASSUME NEW amount \in UnwindAmounts, NEW sellable \in SUBSET Markets
          PROVE  LET plan == AllocateUnwind(spot, sellable, amount)
                 IN  /\ Sigma(plan)
                          = Least(amount, MapThenSumSet(LAMBDA m : spot[m], sellable))
                     /\ \A m \in Markets : plan[m] <= IF m \in sellable THEN spot[m] ELSE 0
      <3>1. amount \in Nat
        BY <2>2
      <3>2. PICK plan : plan = AllocateUnwind(spot, sellable, amount)
        OBVIOUS
      <3>3. /\ Sigma(plan) = Least(amount, SumOver(spot, sellable))
            /\ \A m \in Markets : plan[m] <= Sellable(spot, sellable)[m]
        BY <2>1, <3>1, <3>2, AllocationRaises
      <3>4. \A m \in Markets : plan[m] <= IF m \in sellable THEN spot[m] ELSE 0
        BY <3>3 DEF Sellable
      <3> QED
        BY <3>2, <3>3, <3>4 DEF SumOver
    <2>4. ASSUME NEW amount \in UnwindAmounts, NEW heavy \in Markets,
                 amount >= MIN_UNWIND_LEG_USDC,
                 (spot[heavy] - amount) * BPS >= Sigma(spot) * Weight[heavy],
                 \A m \in Markets \ {heavy} : spot[m] * BPS <= Sigma(spot) * Weight[m]
          PROVE  AllocateUnwind(spot, Markets, amount) = [NoPlan EXCEPT ![heavy] = amount]
      <3>1. amount \in Nat
        BY <2>2
      <3>2. OnlyHeavy(spot, amount, heavy)
        BY <2>4 DEF OnlyHeavy
      <3> QED
        BY <2>1, <3>1, <3>2, HeaviestPays
    <2> QED
      BY <2>3, <2>4, Zenon DEF AllocationRaisesWhatItCan
  <1> QED
    BY <1>1, VenueTypes, PTL

=============================================================================
