---------------------------- MODULE BridgeProofs ----------------------------
(***************************************************************************)
(* Theorems about Bridge, for any number of crossings, any amounts and any *)
(* fees: under crashes, deadlines, refunds and lost updates of a row, the  *)
(* counter of each process stays between what is in the air and what the   *)
(* unsettled rows record, which is what the next process reads back.       *)
(***************************************************************************)
EXTENDS Bridge, SumTheorems

\* The four faults that do break the books are left out, each by a run or in the README.
BooksSurvive == Faults \cap {"lostReceipt", "slowRefund", "earlyStatus", "lostRead"} = {}

\* Between these steps the call itself answers for the whole amount of its row.
Answering == {"recorded", "ready", "gone", "sent", "filled", "landed"}

RowOk(r, t) ==
    /\ t.holds \in {0, r.amount}
    /\ t.plan = "none" => t.holds = 0
    /\ t.said => t.holds = 0 /\ t.plan \in {"fill", "refund"}
    /\ r.status = "COMPLETE" => t.plan = "fill" /\ t.holds = 0
    /\ r.status = "FAILED" => t.plan \in {"none", "refund"} /\ t.holds = 0

CallOk(step, r, t) ==
    /\ step \in Answering => r.status \in Unsettled
    /\ step \in {"recorded", "ready"} => t.plan = "none"
    /\ step \in {"filled", "landed"} => t.plan = "fill" /\ t.said

ExposureOf(i) ==
    IF i = crossing.id /\ crossing.step \in Answering THEN rows[i].amount ELSE relay[i].holds

OpenOf(i) == IF rows[i].status \in Unsettled THEN rows[i].amount ELSE 0

Exposure == [i \in DOMAIN rows |-> ExposureOf(i)]
Open     == [i \in DOMAIN rows |-> OpenOf(i)]

RowsOk    == \A i \in DOMAIN rows : RowOk(rows[i], relay[i])
InsideOk  == ~At("idle") => /\ up /\ crossing.id \in DOMAIN rows
                            /\ CallOk(crossing.step, rows[crossing.id], relay[crossing.id])
CountedOk == up => Total(Exposure) <= inFlight /\ inFlight <= Total(Open)

BInv == TypeOK /\ RowsOk /\ InsideOk /\ CountedOk

Calls == [step : Steps, id : {0} \cup DOMAIN rows, before : Nat, landed : Nat]

-----------------------------------------------------------------------------
\* Rows and the two sums over them.

\* The rows and Relay's transfers are two sequences of one length.
LEMMA RowTypes ==
    ASSUME TypeOK
    PROVE  /\ DOMAIN rows = 1 .. Len(rows) /\ DOMAIN relay = DOMAIN rows
           /\ IsFiniteSet(DOMAIN rows)
           /\ \A i \in DOMAIN rows : rows[i] \in BridgeTransfers /\ relay[i] \in Intents
  <1>1. /\ rows \in Seq(BridgeTransfers) /\ relay \in Seq(Intents) /\ Len(relay) = Len(rows)
        /\ Len(rows) \in Nat
    BY DEF TypeOK
  <1>2. DOMAIN rows = 1 .. Len(rows) /\ DOMAIN relay = DOMAIN rows
    BY <1>1
  <1>3. IsFiniteSet(1 .. Len(rows))
    BY <1>1, FS_Interval
  <1>4. \A i \in DOMAIN rows : rows[i] \in BridgeTransfers /\ relay[i] \in Intents
    BY <1>1, <1>2
  <1> QED
    BY <1>2, <1>3, <1>4

\* What a row and a transfer may contribute.
LEMMA FieldTypes ==
    ASSUME NEW r \in BridgeTransfers, NEW t \in Intents
    PROVE  /\ r.amount \in Nat \ {0} /\ r.amount \in Amounts /\ r.landed \in Nat
           /\ r.dir \in Directions
           /\ r.status \in {"PENDING", "SENT", "COMPLETE", "FAILED"}
           /\ t.holds \in Nat /\ t.plan \in {"none", "open", "fill", "refund"} /\ t.said \in BOOLEAN
  BY BridgeAssumption DEF BridgeTransfers, Intents

LEMMA SumTypes ==
    ASSUME TypeOK
    PROVE  /\ Exposure \in [DOMAIN rows -> Nat] /\ Open \in [DOMAIN rows -> Nat]
           /\ Total(Exposure) \in Nat /\ Total(Open) \in Nat
  <1>1. ASSUME NEW i \in DOMAIN rows PROVE ExposureOf(i) \in Nat /\ OpenOf(i) \in Nat
    <2>1. rows[i].amount \in Nat /\ relay[i].holds \in Nat
      BY RowTypes, FieldTypes
    <2> QED
      BY <2>1 DEF ExposureOf, OpenOf
  <1>2. Exposure \in [DOMAIN rows -> Nat] /\ Open \in [DOMAIN rows -> Nat]
    BY <1>1 DEF Exposure, Open
  <1> QED
    BY <1>2, RowTypes, TotalNat

\* pendingTotal adds up the rows that are open.
LEMMA SeedIsOpen == Seed = Total(Open)
  BY DEF Seed, AmountsIn, Open, OpenOf

\* What one entry gives up in k leaves the counter between the two sums.
LEMMA Between ==
    ASSUME NEW D, IsFiniteSet(D), NEW x \in D, NEW k \in Nat, NEW n \in Nat,
           NEW e \in [D -> Nat], NEW e1 \in [D -> Nat],
           NEW a \in [D -> Nat], NEW a1 \in [D -> Nat],
           \A y \in D : y # x => e1[y] = e[y] /\ a1[y] = a[y],
           e1[x] + k <= e[x], a[x] <= a1[x] + k,
           Total(e) <= n, n <= Total(a)
    PROVE  n - k \in Nat /\ Total(e1) <= n - k /\ n - k <= Total(a1)
  <1>1. Total(e1) + e[x] = Total(e) + e1[x]
    BY TotalChange
  <1>2. Total(a1) + a[x] = Total(a) + a1[x]
    BY TotalChange
  <1>3. Total(e) \in Nat /\ Total(e1) \in Nat /\ Total(a) \in Nat /\ Total(a1) \in Nat
    BY TotalNat
  <1>4. e[x] \in Nat /\ e1[x] \in Nat /\ a[x] \in Nat /\ a1[x] \in Nat
    OBVIOUS
  <1> QED
    BY <1>1, <1>2, <1>3, <1>4

\* The same, of a step that touches one row.
LEMMA CountedStep ==
    ASSUME BInv, up, up',
           rows' \in Seq(BridgeTransfers), relay' \in Seq(Intents),
           Len(rows') = Len(rows), Len(relay') = Len(rows),
           NEW x \in DOMAIN rows, NEW k \in Nat, inFlight' = inFlight - k,
           \A y \in DOMAIN rows : y # x => ExposureOf(y)' = ExposureOf(y) /\ OpenOf(y)' = OpenOf(y),
           ExposureOf(x)' \in Nat, OpenOf(x)' \in Nat,
           ExposureOf(x)' + k <= ExposureOf(x), OpenOf(x) <= OpenOf(x)' + k
    PROVE  inFlight' \in Nat /\ CountedOk'
  <1>1. TypeOK /\ inFlight \in Nat /\ Total(Exposure) <= inFlight /\ inFlight <= Total(Open)
    BY DEF BInv, TypeOK, CountedOk
  <1>2. Exposure \in [DOMAIN rows -> Nat] /\ Open \in [DOMAIN rows -> Nat]
    BY <1>1, SumTypes
  <1>3. DOMAIN rows' = DOMAIN rows /\ IsFiniteSet(DOMAIN rows)
    <2>1. DOMAIN rows' = 1 .. Len(rows')
      OBVIOUS
    <2> QED
      BY <1>1, <2>1, RowTypes
  <1>4. /\ \A y \in DOMAIN rows : Exposure[y] = ExposureOf(y) /\ Open[y] = OpenOf(y)
        /\ \A y \in DOMAIN rows : Exposure'[y] = ExposureOf(y)' /\ Open'[y] = OpenOf(y)'
    BY <1>3 DEF Exposure, Open
  <1>5. \A y \in DOMAIN rows : ExposureOf(y)' \in Nat /\ OpenOf(y)' \in Nat
    BY <1>2, <1>4
  <1>6. Exposure' \in [DOMAIN rows -> Nat] /\ Open' \in [DOMAIN rows -> Nat]
    BY <1>3, <1>5 DEF Exposure, Open
  <1>7. /\ \A y \in DOMAIN rows : y # x => Exposure'[y] = Exposure[y] /\ Open'[y] = Open[y]
        /\ Exposure'[x] + k <= Exposure[x] /\ Open[x] <= Open'[x] + k
    BY <1>4
  <1>8. inFlight - k \in Nat /\ Total(Exposure') <= inFlight - k /\ inFlight - k <= Total(Open')
    BY <1>1, <1>2, <1>3, <1>6, <1>7, Between, ZenonT(60)
  <1> QED
    BY <1>8 DEF CountedOk

-----------------------------------------------------------------------------
\* The two shapes of a step.

\* Replacing one entry of a sequence.
LEMMA OneEntry ==
    ASSUME NEW S, NEW q \in Seq(S), NEW i \in DOMAIN q, NEW e \in S, NEW p,
           p = [q EXCEPT ![i] = e]
    PROVE  /\ p \in Seq(S) /\ Len(p) = Len(q) /\ DOMAIN p = DOMAIN q /\ p[i] = e
           /\ \A j \in DOMAIN q : j # i => p[j] = q[j]
  OBVIOUS

\* A step of Relay: one transfer changes, and never gains money.
LEMMA IntentInv ==
    ASSUME BInv, NEW i \in DOMAIN relay, NEW t \in Intents,
           relay' = [relay EXCEPT ![i] = t],
           UNCHANGED <<venue, withdrawing, rows, inFlight, crossing, up>>,
           wallet' \in [Chains -> Nat],
           t.holds <= relay[i].holds, RowOk(rows[i], t),
           relay[i].plan # "none",
           relay[i].plan = "fill" /\ relay[i].said => t.plan = "fill" /\ t.said
    PROVE  BInv'
  <1>1. /\ TypeOK /\ DOMAIN relay = DOMAIN rows /\ relay \in Seq(Intents)
        /\ rows \in Seq(BridgeTransfers) /\ Len(relay) = Len(rows)
    BY RowTypes DEF BInv, TypeOK
  <1>2. /\ relay' \in Seq(Intents) /\ Len(relay') = Len(relay) /\ relay'[i] = t
        /\ DOMAIN relay' = DOMAIN relay
        /\ \A j \in DOMAIN relay : j # i => relay'[j] = relay[j]
    BY <1>1, OneEntry
  <1>3. TypeOK'
    BY <1>1, <1>2 DEF TypeOK
  <1>4. RowsOk'
    BY <1>1, <1>2 DEF BInv, RowsOk
  <1>5. InsideOk'
    <2>1. ASSUME ~At("idle"), crossing.id = i
          PROVE  CallOk(crossing.step, rows[i], t)
      BY <2>1 DEF BInv, InsideOk, CallOk
    <2> QED
      BY <1>1, <1>2, <2>1 DEF BInv, InsideOk, At
  <1>6. CountedOk'
    <2>1. CASE ~up
      BY <2>1 DEF CountedOk
    <2>2. CASE up
      <3>1. \A y \in DOMAIN rows : OpenOf(y)' = OpenOf(y)
        BY DEF OpenOf
      <3>2. \A y \in DOMAIN rows : y # i => ExposureOf(y)' = ExposureOf(y)
        BY <1>1, <1>2 DEF ExposureOf
      <3>3. ExposureOf(i)' <= ExposureOf(i) /\ ExposureOf(i)' \in Nat /\ ExposureOf(i) \in Nat
        <4>1. /\ rows[i].amount \in Nat /\ relay[i].holds \in Nat /\ t.holds \in Nat
          BY <1>1, RowTypes, FieldTypes
        <4> QED
          BY <1>2, <4>1 DEF ExposureOf
      <3>4. OpenOf(i) \in Nat
        BY <1>1, RowTypes, FieldTypes DEF OpenOf
      <3>5. inFlight' = inFlight - 0
        BY <1>1 DEF TypeOK
      <3>6. ExposureOf(i)' + 0 <= ExposureOf(i) /\ OpenOf(i) <= OpenOf(i)' + 0
        BY <1>1, <3>1, <3>3, <3>4
      <3> HIDE DEF BInv
      <3> QED
        BY <1>1, <1>2, <2>2, <3>1, <3>2, <3>3, <3>4, <3>5, <3>6, CountedStep
    <2> QED
      BY <2>1, <2>2
  <1> QED
    BY <1>3, <1>4, <1>5, <1>6 DEF BInv

(***************************************************************************)
(* A step of a call: only its own row and transfer change, the counter     *)
(* gives up k, and so does what the call answers for.                      *)
(***************************************************************************)
LEMMA CallInv ==
    ASSUME BInv, ~At("idle"), NEW id, id = crossing.id, NEW k \in Nat,
           rows' \in Seq(BridgeTransfers), relay' \in Seq(Intents),
           Len(rows') = Len(rows), Len(relay') = Len(relay),
           \A y \in DOMAIN rows : y # id => rows'[y] = rows[y] /\ relay'[y] = relay[y],
           rows'[id].amount = rows[id].amount,
           RowOk(rows'[id], relay'[id]),
           wallet' \in [Chains -> Nat], venue' \in Nat, withdrawing' = withdrawing, up' = up,
           inFlight' = inFlight - k,
           crossing' \in Calls,
           crossing'.step # "idle" =>
               /\ crossing'.id = id
               /\ CallOk(crossing'.step, rows'[id], relay'[id]),
           ExposureOf(id)' + k <= ExposureOf(id),
           OpenOf(id) <= OpenOf(id)' + k
    PROVE  BInv'
  <1>1. /\ TypeOK /\ DOMAIN relay = DOMAIN rows /\ DOMAIN rows = 1 .. Len(rows)
        /\ rows \in Seq(BridgeTransfers) /\ relay \in Seq(Intents) /\ Len(relay) = Len(rows)
        /\ Len(rows) \in Nat /\ inFlight \in Nat
    BY RowTypes DEF BInv, TypeOK
  <1>2. id \in DOMAIN rows /\ up /\ up' /\ crossing.id = id
    BY DEF BInv, InsideOk
  <1>3. DOMAIN rows' = DOMAIN rows /\ DOMAIN relay' = DOMAIN rows
    BY <1>1
  <1>4. /\ \A y \in DOMAIN rows : rows'[y].amount \in Nat /\ relay'[y].holds \in Nat
        /\ \A y \in DOMAIN rows : rows[y].amount \in Nat /\ relay[y].holds \in Nat
    <2>1. \A y \in DOMAIN rows : /\ rows'[y] \in BridgeTransfers /\ relay'[y] \in Intents
                                 /\ rows[y] \in BridgeTransfers /\ relay[y] \in Intents
      BY <1>1, <1>3
    <2> QED
      BY <2>1, FieldTypes
  <1>5. /\ \A y \in DOMAIN rows : ExposureOf(y)' \in Nat /\ OpenOf(y)' \in Nat
        /\ \A y \in DOMAIN rows : ExposureOf(y) \in Nat /\ OpenOf(y) \in Nat
    BY <1>4 DEF ExposureOf, OpenOf
  <1>6. \A y \in DOMAIN rows : y # id => OpenOf(y)' = OpenOf(y)
    BY DEF OpenOf
  <1>7. \A y \in DOMAIN rows : y # id => ExposureOf(y)' = ExposureOf(y)
    <2>1. crossing'.step \notin Answering \/ crossing'.id = id
      BY DEF Answering
    <2> QED
      BY <1>2, <2>1 DEF ExposureOf
  <1>8. inFlight' \in Nat /\ CountedOk'
    <2> HIDE DEF BInv
    <2> QED
      BY <1>1, <1>2, <1>5, <1>6, <1>7, CountedStep
  <1>9. TypeOK'
    BY <1>1, <1>3, <1>8 DEF TypeOK, Calls
  <1>10. RowsOk'
    BY <1>2, <1>3 DEF BInv, RowsOk
  <1>11. InsideOk'
    BY <1>2, <1>3 DEF InsideOk, At
  <1> QED
    BY <1>8, <1>9, <1>10, <1>11 DEF BInv

-----------------------------------------------------------------------------
\* The steps of a call.

\* What a call may assume about its own row.
LEMMA InCall ==
    ASSUME BInv, ~At("idle"), NEW id, id = crossing.id
    PROVE  /\ id \in DOMAIN rows /\ up /\ TypeOK /\ DOMAIN relay = DOMAIN rows
           /\ Row = rows[id] /\ rows[id] \in BridgeTransfers /\ relay[id] \in Intents
           /\ rows \in Seq(BridgeTransfers) /\ relay \in Seq(Intents) /\ Len(relay) = Len(rows)
           /\ RowOk(rows[id], relay[id]) /\ CallOk(crossing.step, rows[id], relay[id])
           /\ crossing \in Calls /\ inFlight \in Nat
           /\ wallet \in [Chains -> Nat] /\ venue \in Nat
           /\ rows[id].amount \in Nat /\ relay[id].holds \in Nat
  <1>1. id \in DOMAIN rows /\ up /\ CallOk(crossing.step, rows[id], relay[id])
    BY DEF BInv, InsideOk
  <1>2. TypeOK /\ DOMAIN relay = DOMAIN rows
        /\ rows[id] \in BridgeTransfers /\ relay[id] \in Intents
    BY <1>1, RowTypes DEF BInv
  <1>3. RowOk(rows[id], relay[id])
    BY <1>1 DEF BInv, RowsOk
  <1>4. rows[id].amount \in Nat /\ relay[id].holds \in Nat
    BY <1>2, FieldTypes
  <1> QED
    BY <1>1, <1>2, <1>3, <1>4 DEF TypeOK, Calls, Row

\* The call moves on, or ends, at the step it is told to.
LEMMA CallMoves ==
    ASSUME crossing \in Calls, NEW s \in Steps
    PROVE  /\ GoTo(s) => crossing' \in Calls /\ crossing'.step = s /\ crossing'.id = crossing.id
           /\ Stop => crossing' \in Calls /\ crossing'.step = "idle"
  <1>1. ASSUME GoTo(s)
        PROVE  crossing' \in Calls /\ crossing'.step = s /\ crossing'.id = crossing.id
    BY <1>1 DEF GoTo, Calls
  <1>2. ASSUME Stop PROVE crossing' \in Calls /\ crossing'.step = "idle"
    BY <1>2 DEF Stop, Calls, Idle, Steps
  <1> QED
    BY <1>1, <1>2

\* An update of a row, or its loss, leaves a row with one of two statuses.
LEMMA WriteRow ==
    ASSUME rows \in Seq(BridgeTransfers), NEW id \in DOMAIN rows,
           NEW s \in {"SENT", "COMPLETE", "FAILED"}, NEW n \in Nat, Write(id, s, n)
    PROVE  /\ rows' \in Seq(BridgeTransfers) /\ Len(rows') = Len(rows)
           /\ \A y \in DOMAIN rows : y # id => rows'[y] = rows[y]
           /\ rows'[id].amount = rows[id].amount
           /\ rows'[id].status \in {s, rows[id].status}
  <1>1. CASE UNCHANGED rows
    BY <1>1
  <1>2. CASE rows' = [rows EXCEPT ![id] = [rows[id] EXCEPT !.status = s, !.landed = n]]
    <2> DEFINE r == rows[id]
               r1 == [r EXCEPT !.status = s]
               r2 == [r1 EXCEPT !.landed = n]
    <2>1. r \in BridgeTransfers
      OBVIOUS
    <2>2. rows' = [rows EXCEPT ![id] = r2]
      BY <1>2
    <2>3. r1 \in BridgeTransfers /\ r1.amount = r.amount /\ r1.status = s
      <3> HIDE DEF r
      <3> QED
        BY <2>1 DEF BridgeTransfers
    <2>4. r2 \in BridgeTransfers /\ r2.amount = r.amount /\ r2.status = s
      <3> HIDE DEF r, r1
      <3> QED
        BY <2>3 DEF BridgeTransfers
    <2> HIDE DEF r2
    <2> QED
      BY <2>2, <2>4, OneEntry
  <1> QED
    BY <1>1, <1>2 DEF Write

\* Steps that only move the call on.
LEMMA QuietInv ==
    ASSUME BInv, ~At("idle"), NEW id, id = crossing.id,
           UNCHANGED <<wallet, venue, withdrawing, rows, relay, inFlight, up>>,
           crossing' \in Calls,
           crossing'.step # "idle" =>
               crossing'.id = id /\ CallOk(crossing'.step, rows[id], relay[id]),
           crossing'.step \in Answering => crossing.step \in Answering
    PROVE  BInv'
  <1>1. /\ id \in DOMAIN rows /\ RowOk(rows[id], relay[id]) /\ inFlight \in Nat
        /\ rows \in Seq(BridgeTransfers) /\ relay \in Seq(Intents) /\ Len(relay) = Len(rows)
        /\ wallet \in [Chains -> Nat] /\ venue \in Nat
        /\ rows[id].amount \in Nat /\ relay[id].holds \in Nat
    BY InCall
  <1>2. relay[id].holds <= rows[id].amount
    BY <1>1 DEF RowOk
  <1>3. inFlight' = inFlight - 0
    BY <1>1
  <1>4. OpenOf(id) \in Nat /\ OpenOf(id)' = OpenOf(id)
    BY <1>1 DEF OpenOf
  <1>5. OpenOf(id) <= OpenOf(id)' + 0
    BY <1>4
  <1>6. ExposureOf(id)' <= ExposureOf(id) /\ ExposureOf(id)' \in Nat
    BY <1>1, <1>2 DEF ExposureOf
  <1>7. ExposureOf(id)' + 0 <= ExposureOf(id)
    BY <1>6
  <1> HIDE DEF BInv
  <1>8. \A y \in DOMAIN rows : y # id => rows'[y] = rows[y] /\ relay'[y] = relay[y]
    OBVIOUS
  <1> QED
    BY <1>1, <1>3, <1>5, <1>7, <1>8, CallInv

\* Steps that close the row and strike its amount off the counter.
LEMMA ClosingInv ==
    ASSUME BInv, NEW id, id = crossing.id, crossing.step \in Answering,
           NEW s \in {"COMPLETE", "FAILED"}, NEW n \in Nat, Write(id, s, n),
           inFlight' = inFlight - Row.amount,
           UNCHANGED <<wallet, venue, withdrawing, relay, up>>,
           relay[id].holds = 0,
           s = "COMPLETE" => relay[id].plan = "fill",
           s = "FAILED" => relay[id].plan \in {"none", "refund"},
           crossing' \in Calls, crossing'.step \in {"idle", "settled"},
           crossing'.step = "settled" => crossing'.id = id
    PROVE  BInv'
  <1>0. ~At("idle")
    BY DEF At, Answering
  <1>1. /\ id \in DOMAIN rows /\ RowOk(rows[id], relay[id]) /\ inFlight \in Nat
        /\ CallOk(crossing.step, rows[id], relay[id]) /\ Row = rows[id]
        /\ rows \in Seq(BridgeTransfers) /\ relay \in Seq(Intents) /\ Len(relay) = Len(rows)
        /\ wallet \in [Chains -> Nat] /\ venue \in Nat
        /\ rows[id].amount \in Nat
    BY <1>0, InCall
  <1>2. /\ rows' \in Seq(BridgeTransfers) /\ Len(rows') = Len(rows)
        /\ \A y \in DOMAIN rows : y # id => rows'[y] = rows[y]
        /\ rows'[id].amount = rows[id].amount
        /\ rows'[id].status \in {s, rows[id].status}
    BY <1>1, WriteRow
  <1>3. rows[id].status \in Unsettled
    BY <1>1 DEF CallOk
  <1>4. RowOk(rows'[id], relay'[id])
    BY <1>1, <1>2, <1>3 DEF RowOk, Unsettled
  <1>5. ExposureOf(id)' + rows[id].amount <= ExposureOf(id)
    <2>1. ExposureOf(id)' = 0
      BY DEF ExposureOf, Answering
    <2>2. ExposureOf(id) = rows[id].amount
      BY DEF ExposureOf
    <2> QED
      BY <1>1, <2>1, <2>2
  <1>6. OpenOf(id) <= OpenOf(id)' + rows[id].amount
    <2>1. OpenOf(id) = rows[id].amount
      BY <1>3 DEF OpenOf
    <2>2. OpenOf(id)' \in {0, rows[id].amount}
      BY <1>2 DEF OpenOf
    <2> QED
      BY <1>1, <2>1, <2>2
  <1>7. crossing'.step # "idle" =>
            crossing'.id = id /\ CallOk(crossing'.step, rows'[id], relay'[id])
    BY DEF CallOk, Answering
  <1>8. inFlight' = inFlight - rows[id].amount
    BY <1>1
  <1>9. \A y \in DOMAIN rows : y # id => rows'[y] = rows[y] /\ relay'[y] = relay[y]
    BY <1>2
  <1> HIDE DEF BInv
  <1> QED
    BY <1>0, <1>1, <1>2, <1>4, <1>5, <1>6, <1>7, <1>8, <1>9, CallInv

-----------------------------------------------------------------------------
\* The process, step by step.

\* Reading a balance, seeing a fill or an arrival, and giving up change no book.
LEMMA WaitsInv ==
    ASSUME BInv, ReadBefore \/ SeeFilled \/ SeeLanded \/ TimeOut \/ FailDeposit
    PROVE  BInv'
  <1> DEFINE id == crossing.id
  <1>1. ~At("idle")
    BY DEF ReadBefore, SeeFilled, SeeLanded, TimeOut, FailDeposit, At, WaitsThatEnd, Patience
  <1>2. /\ crossing \in Calls /\ CallOk(crossing.step, rows[id], relay[id])
        /\ id \in DOMAIN rows /\ wallet \in [Chains -> Nat] /\ Row.dir \in Directions
    BY <1>1, InCall, FieldTypes
  <1>3. UNCHANGED <<wallet, venue, withdrawing, rows, relay, inFlight, up>>
    BY DEF ReadBefore, SeeFilled, SeeLanded, TimeOut, FailDeposit, GivenUp
  <1>4. CASE ReadBefore
    <2>1. wallet[Target(Row.dir)] \in Nat
      BY <1>2 DEF Target, Directions, Chains
    <2>2. crossing' \in Calls /\ crossing'.step = "ready" /\ crossing'.id = id
      <3>1. crossing' = [[crossing EXCEPT !.step = "ready"] EXCEPT !.before = wallet[Target(Row.dir)]]
        BY <1>4 DEF ReadBefore
      <3>2. [crossing EXCEPT !.step = "ready"] \in Calls
            /\ [crossing EXCEPT !.step = "ready"].id = id
            /\ [crossing EXCEPT !.step = "ready"].step = "ready"
        BY <1>2 DEF Calls, Steps
      <3> DEFINE c == [crossing EXCEPT !.step = "ready"]
      <3> HIDE DEF c
      <3>3. c \in Calls /\ c.id = id /\ c.step = "ready"
            /\ crossing' = [c EXCEPT !.before = wallet[Target(Row.dir)]]
        BY <3>1, <3>2 DEF c
      <3> QED
        BY <2>1, <3>3 DEF Calls
    <2>3. CallOk("ready", rows[id], relay[id]) /\ crossing.step \in Answering
      BY <1>2, <1>4 DEF ReadBefore, At, CallOk, Answering
    <2> QED
      BY <1>1, <1>3, <2>2, <2>3, QuietInv
  <1>5. CASE SeeFilled
    <2>1. crossing' \in Calls /\ crossing'.step = "filled" /\ crossing'.id = id
      BY <1>2, <1>5, CallMoves DEF SeeFilled, Steps
    <2>2. CallOk("filled", rows[id], relay[id]) /\ crossing.step \in Answering
      BY <1>2, <1>5 DEF SeeFilled, At, Says, CallOk, Answering
    <2> QED
      BY <1>1, <1>3, <2>1, <2>2, QuietInv
  <1>6. CASE SeeLanded
    <2> DEFINE n == wallet[Target(Row.dir)] - crossing.before
               c == [crossing EXCEPT !.step = "landed"]
    <2>1. n \in Nat
      <3>1. wallet[Target(Row.dir)] \in Nat /\ crossing.before \in Nat
        BY <1>2 DEF Target, Directions, Chains, Calls
      <3> QED
        BY <1>6, <3>1 DEF SeeLanded
    <2>2. crossing' = [c EXCEPT !.landed = n]
      BY <1>6 DEF SeeLanded
    <2>3. c \in Calls /\ c.id = id /\ c.step = "landed"
      BY <1>2 DEF Calls, Steps
    <2> HIDE DEF n, c
    <2>4. crossing' \in Calls /\ crossing'.step = "landed" /\ crossing'.id = id
      BY <2>1, <2>2, <2>3 DEF Calls
    <2>5. CallOk("landed", rows[id], relay[id]) /\ crossing.step \in Answering
      BY <1>2, <1>6 DEF SeeLanded, At, CallOk, Answering
    <2> QED
      BY <1>1, <1>3, <2>4, <2>5, QuietInv
  <1>7. CASE TimeOut \/ FailDeposit
    <2>1. crossing' \in Calls /\ crossing'.step = "idle"
      BY <1>2, <1>7, CallMoves DEF TimeOut, FailDeposit, Steps
    <2> QED
      BY <1>1, <1>3, <2>1, QuietInv DEF Answering
  <1> QED
    BY <1>4, <1>5, <1>6, <1>7

\* The money leaves: Relay holds what the call already answers for.
LEMMA SendInv == ASSUME BInv, Send PROVE BInv'
  <1> DEFINE id == crossing.id
             t == [[relay[id] EXCEPT !.plan = "open"] EXCEPT !.holds = Row.amount]
  <1>1. ~At("idle") /\ crossing.step = "ready"
    BY DEF Send, At
  <1>2. /\ id \in DOMAIN rows /\ DOMAIN relay = DOMAIN rows /\ Row = rows[id]
        /\ rows \in Seq(BridgeTransfers) /\ relay \in Seq(Intents) /\ Len(relay) = Len(rows)
        /\ RowOk(rows[id], relay[id]) /\ CallOk(crossing.step, rows[id], relay[id])
        /\ crossing \in Calls /\ inFlight \in Nat /\ relay[id] \in Intents
        /\ wallet \in [Chains -> Nat] /\ venue \in Nat /\ rows[id].amount \in Nat
        /\ Row.dir \in Directions
    BY <1>1, InCall, FieldTypes
  <1>3. t \in Intents /\ t.holds = rows[id].amount /\ t.plan = "open" /\ t.said = relay[id].said
    <2> DEFINE u == relay[id]
               v == [u EXCEPT !.plan = "open"]
    <2>1. v \in Intents /\ v.plan = "open" /\ v.said = u.said
      <3> HIDE DEF u
      <3> QED
        BY <1>2 DEF Intents, u
    <2> HIDE DEF v
    <2>2. t = [v EXCEPT !.holds = rows[id].amount]
      BY <1>2 DEF v
    <2> HIDE DEF t
    <2> QED
      BY <1>2, <2>1, <2>2 DEF Intents
  <1>4. relay' = [relay EXCEPT ![id] = t]
    BY DEF Send, Depart
  <1> HIDE DEF t
  <1>5. /\ relay' \in Seq(Intents) /\ Len(relay') = Len(relay) /\ relay'[id] = t
        /\ \A y \in DOMAIN rows : y # id => relay'[y] = relay[y]
    BY <1>2, <1>3, <1>4, OneEntry
  <1>6. wallet' \in [Chains -> Nat]
    <2>1. wallet' = [wallet EXCEPT ![Origin(Row.dir)] = wallet[Origin(Row.dir)] - Row.amount]
          /\ wallet[Origin(Row.dir)] >= Row.amount
      BY DEF Send, Depart
    <2>2. Origin(Row.dir) \in Chains
      BY <1>2 DEF Origin, Chains, Directions
    <2>3. wallet[Origin(Row.dir)] - Row.amount \in Nat
      BY <1>2, <2>1, <2>2
    <2> QED
      BY <1>2, <2>1, <2>3
  <1>7. crossing' \in Calls /\ crossing'.step = "gone" /\ crossing'.id = id
    BY <1>2, CallMoves DEF Send, Steps
  <1>8. RowOk(rows[id], t) /\ CallOk("gone", rows[id], t)
    BY <1>1, <1>2, <1>3 DEF RowOk, CallOk, Answering, Unsettled
  <1>9. UNCHANGED <<venue, withdrawing, rows, inFlight, up>>
    BY DEF Send
  <1>10. ExposureOf(id)' + 0 <= ExposureOf(id) /\ OpenOf(id) <= OpenOf(id)' + 0
    <2>1. ExposureOf(id) = rows[id].amount
      BY <1>1 DEF ExposureOf, Answering
    <2>2. ExposureOf(id)' = rows[id].amount
      BY <1>7, <1>9 DEF ExposureOf, Answering
    <2>3. OpenOf(id)' = OpenOf(id) /\ OpenOf(id) \in Nat
      BY <1>2, <1>7, <1>9 DEF OpenOf
    <2> QED
      BY <1>2, <2>1, <2>2, <2>3
  <1>11. inFlight' = inFlight - 0
    BY <1>2, <1>9
  <1> HIDE DEF BInv
  <1>12. \A y \in DOMAIN rows : y # id => rows'[y] = rows[y] /\ relay'[y] = relay[y]
    BY <1>5, <1>9
  <1>13. crossing'.step # "idle" => crossing'.id = id /\ CallOk(crossing'.step, rows'[id], relay'[id])
    BY <1>5, <1>7, <1>8, <1>9
  <1> QED
    BY <1>1, <1>2, <1>5, <1>6, <1>7, <1>8, <1>9, <1>10, <1>11, <1>12, <1>13, CallInv

LEMMA MarkSentInv == ASSUME BInv, MarkSent PROVE BInv'
  <1> SUFFICES ASSUME NEW id, id = crossing.id PROVE BInv'
    OBVIOUS
  <1>1. ~At("idle") /\ crossing.step = "gone"
    BY DEF MarkSent, At
  <1>2. /\ id \in DOMAIN rows /\ Row = rows[id]
        /\ rows \in Seq(BridgeTransfers) /\ relay \in Seq(Intents) /\ Len(relay) = Len(rows)
        /\ RowOk(rows[id], relay[id]) /\ CallOk(crossing.step, rows[id], relay[id])
        /\ crossing \in Calls /\ inFlight \in Nat
        /\ wallet \in [Chains -> Nat] /\ venue \in Nat /\ rows[id].amount \in Nat
    BY <1>1, InCall
  <1>3. /\ Write(id, "SENT", 0) /\ GoTo("sent")
        /\ UNCHANGED <<wallet, venue, withdrawing, relay, inFlight, up>>
    BY DEF MarkSent
  <1>4. /\ rows' \in Seq(BridgeTransfers) /\ Len(rows') = Len(rows)
        /\ \A y \in DOMAIN rows : y # id => rows'[y] = rows[y]
        /\ rows'[id].amount = rows[id].amount
        /\ rows'[id].status \in {"SENT", rows[id].status}
    BY <1>2, <1>3, WriteRow
  <1>5. crossing' \in Calls /\ crossing'.step = "sent" /\ crossing'.id = id
    BY <1>2, <1>3, CallMoves DEF Steps
  <1>6. rows[id].status \in Unsettled /\ rows'[id].status \in Unsettled
    BY <1>1, <1>2, <1>4 DEF CallOk, Answering, Unsettled
  <1>7. RowOk(rows'[id], relay'[id]) /\ CallOk("sent", rows'[id], relay'[id])
    BY <1>2, <1>3, <1>4, <1>6 DEF RowOk, CallOk, Unsettled, Answering
  <1>8. ExposureOf(id)' + 0 <= ExposureOf(id) /\ OpenOf(id) <= OpenOf(id)' + 0
    <2>1. ExposureOf(id) = rows[id].amount /\ ExposureOf(id)' = rows[id].amount
      BY <1>1, <1>4, <1>5 DEF ExposureOf, Answering
    <2>2. OpenOf(id)' = rows[id].amount /\ OpenOf(id) = rows[id].amount
      BY <1>4, <1>6 DEF OpenOf
    <2> QED
      BY <1>2, <2>1, <2>2
  <1>9. inFlight' = inFlight - 0
    BY <1>2, <1>3
  <1>10. crossing'.step # "idle" =>
            crossing'.id = id /\ CallOk(crossing'.step, rows'[id], relay'[id])
    BY <1>5, <1>7
  <1>11. \A y \in DOMAIN rows : y # id => rows'[y] = rows[y] /\ relay'[y] = relay[y]
    BY <1>3, <1>4
  <1> HIDE DEF BInv
  <1> QED
    BY <1>1, <1>2, <1>3, <1>4, <1>5, <1>7, <1>8, <1>9, <1>10, <1>11, CallInv

\* A call that fails while it is quoted has moved nothing: no receipt was lost.
LEMMA FailQuotedInv == ASSUME BooksSurvive, BInv, FailQuoted PROVE BInv'
  <1> SUFFICES ASSUME NEW id, id = crossing.id PROVE BInv'
    OBVIOUS
  <1>1. crossing.step \in {"recorded", "ready"} /\ ~At("idle") /\ crossing.step \in Answering
    BY DEF FailQuoted, At, Answering
  <1>2. /\ RowOk(rows[id], relay[id]) /\ CallOk(crossing.step, rows[id], relay[id])
        /\ crossing \in Calls
    BY <1>1, InCall
  <1>3. relay[id].plan = "none" /\ relay[id].holds = 0
    BY <1>1, <1>2 DEF CallOk, RowOk
  <1>4. /\ Write(id, "FAILED", 0) /\ inFlight' = inFlight - Row.amount /\ Stop
        /\ UNCHANGED <<wallet, relay, venue, withdrawing, up>>
    BY DEF FailQuoted, BooksSurvive
  <1>5. crossing' \in Calls /\ crossing'.step = "idle"
    BY <1>2, <1>4, CallMoves DEF Steps
  <1> HIDE DEF BInv
  <1> QED
    BY <1>1, <1>3, <1>4, <1>5, ClosingInv

LEMMA SeeRefundedInv == ASSUME BInv, SeeRefunded PROVE BInv'
  <1> SUFFICES ASSUME NEW id, id = crossing.id PROVE BInv'
    OBVIOUS
  <1>1. ~At("idle") /\ crossing.step \in Answering
    BY DEF SeeRefunded, At, Answering
  <1>2. RowOk(rows[id], relay[id]) /\ crossing \in Calls
    BY <1>1, InCall
  <1>3. relay[id].plan = "refund" /\ relay[id].holds = 0
    BY <1>2 DEF SeeRefunded, Says, RowOk
  <1>4. /\ Write(id, "FAILED", 0) /\ inFlight' = inFlight - Row.amount /\ Stop
        /\ UNCHANGED <<wallet, relay, venue, withdrawing, up>>
    BY DEF SeeRefunded
  <1>5. crossing' \in Calls /\ crossing'.step = "idle"
    BY <1>2, <1>4, CallMoves DEF Steps
  <1> HIDE DEF BInv
  <1> QED
    BY <1>1, <1>3, <1>4, <1>5, ClosingInv

LEMMA SettleInv == ASSUME BInv, Settle PROVE BInv'
  <1> SUFFICES ASSUME NEW id, id = crossing.id PROVE BInv'
    OBVIOUS
  <1>1. ~At("idle") /\ crossing.step = "landed" /\ crossing.step \in Answering
    BY DEF Settle, At, Answering
  <1>2. /\ RowOk(rows[id], relay[id]) /\ CallOk(crossing.step, rows[id], relay[id])
        /\ crossing \in Calls
    BY <1>1, InCall
  <1>3. relay[id].plan = "fill" /\ relay[id].holds = 0
    BY <1>1, <1>2 DEF CallOk, RowOk
  <1>4. /\ Write(id, "COMPLETE", crossing.landed) /\ inFlight' = inFlight - Row.amount
        /\ GoTo("settled") \/ Stop
        /\ UNCHANGED <<wallet, relay, venue, withdrawing, up>>
    BY DEF Settle, Uncount
  <1>5. /\ crossing' \in Calls /\ crossing'.step \in {"idle", "settled"}
        /\ crossing'.step = "settled" => crossing'.id = id
    BY <1>2, <1>4, CallMoves DEF Steps
  <1>6. crossing.landed \in Nat
    BY <1>2 DEF Calls
  <1> HIDE DEF BInv
  <1> QED
    BY <1>1, <1>3, <1>4, <1>5, <1>6, ClosingInv

\* The deposit spends what landed, and no crossing answers for it any more.
LEMMA DepositInv == ASSUME BInv, Deposit PROVE BInv'
  <1> SUFFICES ASSUME NEW id, id = crossing.id PROVE BInv'
    OBVIOUS
  <1>1. ~At("idle") /\ crossing.step = "settled"
    BY DEF Deposit, At
  <1>2. /\ id \in DOMAIN rows
        /\ rows \in Seq(BridgeTransfers) /\ relay \in Seq(Intents) /\ Len(relay) = Len(rows)
        /\ RowOk(rows[id], relay[id]) /\ crossing \in Calls /\ inFlight \in Nat
        /\ wallet \in [Chains -> Nat] /\ venue \in Nat
        /\ rows[id].amount \in Nat /\ relay[id].holds \in Nat
    BY <1>1, InCall
  <1>3. /\ wallet' = [wallet EXCEPT !["SOLANA"] = wallet["SOLANA"] - crossing.landed]
        /\ wallet["SOLANA"] >= crossing.landed
        /\ venue' = venue + crossing.landed /\ Stop
        /\ UNCHANGED <<withdrawing, rows, relay, inFlight, up>>
    BY DEF Deposit
  <1>4. crossing.landed \in Nat /\ wallet["SOLANA"] \in Nat
    BY <1>2 DEF Calls, Chains
  <1>5. wallet["SOLANA"] - crossing.landed \in Nat /\ venue' \in Nat
    BY <1>2, <1>3, <1>4
  <1>6. wallet' \in [Chains -> Nat]
    BY <1>2, <1>3, <1>5
  <1>7. crossing' \in Calls /\ crossing'.step = "idle"
    BY <1>2, <1>3, CallMoves DEF Steps
  <1>8. ExposureOf(id)' + 0 <= ExposureOf(id) /\ OpenOf(id) <= OpenOf(id)' + 0
    <2>1. ExposureOf(id) = relay[id].holds /\ ExposureOf(id)' = relay[id].holds
      BY <1>1, <1>3, <1>7 DEF ExposureOf, Answering
    <2>2. OpenOf(id)' = OpenOf(id) /\ OpenOf(id) \in Nat
      BY <1>2, <1>3 DEF OpenOf
    <2> QED
      BY <1>2, <2>1, <2>2
  <1>9. inFlight' = inFlight - 0
    BY <1>2, <1>3
  <1>10. \A y \in DOMAIN rows : y # id => rows'[y] = rows[y] /\ relay'[y] = relay[y]
    BY <1>3
  <1> HIDE DEF BInv
  <1> QED
    BY <1>1, <1>2, <1>3, <1>5, <1>6, <1>7, <1>8, <1>9, <1>10, CallInv

-----------------------------------------------------------------------------
\* Steps outside a call, and of the other parties.

\* What Relay still holds is recorded by a row that the next process reads back.
LEMMA TickInv == ASSUME BooksSurvive, BInv, Tick PROVE BInv'
  <1>1. /\ At("idle") /\ up' = TRUE /\ inFlight' = Seed
        /\ UNCHANGED <<wallet, venue, withdrawing, rows, relay, crossing>>
    BY DEF Tick, BooksSurvive
  <1>2. /\ TypeOK /\ Exposure \in [DOMAIN rows -> Nat] /\ Open \in [DOMAIN rows -> Nat]
        /\ Total(Exposure) \in Nat /\ Total(Open) \in Nat /\ IsFiniteSet(DOMAIN rows)
    BY SumTypes, RowTypes DEF BInv
  <1>3. ASSUME NEW i \in DOMAIN rows, Exposure[i] > 0 PROVE Exposure[i] <= Open[i]
    <2>1. Exposure[i] = relay[i].holds /\ Open[i] = OpenOf(i)
      BY <1>1 DEF Exposure, Open, ExposureOf, At, Answering
    <2>2. /\ RowOk(rows[i], relay[i]) /\ relay[i].holds \in Nat /\ rows[i].amount \in Nat
          /\ rows[i].status \in {"PENDING", "SENT", "COMPLETE", "FAILED"}
      BY <1>2, RowTypes, FieldTypes DEF BInv, RowsOk
    <2>3. relay[i].holds # 0
      BY <1>3, <2>1, <2>2
    <2>4. relay[i].holds = rows[i].amount /\ rows[i].status \in Unsettled
      BY <2>2, <2>3 DEF RowOk, Unsettled
    <2> QED
      BY <2>1, <2>2, <2>4 DEF OpenOf
  <1>4. Total(Exposure) <= Total(Open)
    BY <1>2, <1>3, TotalLe
  <1>5. Exposure' = Exposure /\ Open' = Open
    BY <1>1 DEF Exposure, Open, ExposureOf, OpenOf
  <1>6. CountedOk'
    BY <1>1, <1>2, <1>4, <1>5, SeedIsOpen DEF CountedOk
  <1>7. TypeOK'
    BY <1>1, <1>2, SeedIsOpen DEF TypeOK
  <1>8. RowsOk' /\ InsideOk'
    BY <1>1 DEF BInv, RowsOk, InsideOk, At
  <1> QED
    BY <1>6, <1>7, <1>8 DEF BInv

\* A new row, counted by the call before anything moves.
LEMMA StartInv ==
    ASSUME BInv, NEW dir \in Directions, NEW amount \in Amounts, Start(dir, amount)
    PROVE  BInv'
  <1> SUFFICES ASSUME NEW n, n = Len(rows) + 1 PROVE BInv'
    OBVIOUS
  <1> DEFINE r == [dir |-> dir, amount |-> amount, status |-> "PENDING", landed |-> 0]
             t == [plan |-> "none", holds |-> 0, said |-> FALSE]
  <1>1. /\ up /\ At("idle") /\ Len(rows) < MaxCrossings
        /\ rows' = Append(rows, r) /\ relay' = Append(relay, t)
        /\ inFlight' = inFlight + amount
        /\ crossing' = [Idle EXCEPT !.step = "recorded", !.id = n]
        /\ UNCHANGED <<wallet, venue, withdrawing, up>>
    BY DEF Start, Counted
  <1>2. r \in BridgeTransfers /\ t \in Intents /\ amount \in Nat
    BY BridgeAssumption DEF BridgeTransfers, Intents
  <1>3. /\ r.amount = amount /\ r.status = "PENDING" /\ t.plan = "none" /\ t.holds = 0
        /\ t.said = FALSE
    OBVIOUS
  <1> HIDE DEF r, t
  <1>4. /\ rows \in Seq(BridgeTransfers) /\ relay \in Seq(Intents) /\ Len(relay) = Len(rows)
        /\ TypeOK /\ inFlight \in Nat /\ n \in Nat /\ DOMAIN rows = 1 .. Len(rows)
        /\ DOMAIN relay = DOMAIN rows /\ IsFiniteSet(DOMAIN rows) /\ Len(rows) \in Nat
    BY RowTypes DEF BInv, TypeOK
  <1>5. /\ rows' \in Seq(BridgeTransfers) /\ relay' \in Seq(Intents) /\ Len(relay') = Len(rows')
        /\ Len(rows') = n /\ DOMAIN rows' = 1 .. n
        /\ rows'[n] = r /\ relay'[n] = t
        /\ \A y \in DOMAIN rows : rows'[y] = rows[y] /\ relay'[y] = relay[y]
    BY <1>1, <1>2, <1>4
  <1>6. DOMAIN rows' = DOMAIN rows \cup {n} /\ n \notin DOMAIN rows
    BY <1>4, <1>5
  <1>7. crossing'.step = "recorded" /\ crossing'.id = n
        /\ crossing' \in [step : Steps, id : {0} \cup DOMAIN rows', before : Nat, landed : Nat]
    <2>1. crossing' = [step |-> "recorded", id |-> n, before |-> 0, landed |-> 0]
      BY <1>1 DEF Idle
    <2> QED
      BY <1>6, <2>1 DEF Steps
  <1>8. /\ ExposureOf(n)' = amount /\ OpenOf(n)' = amount
        /\ \A y \in DOMAIN rows : ExposureOf(y)' = ExposureOf(y) /\ OpenOf(y)' = OpenOf(y)
    <2>1. ExposureOf(n)' = amount /\ OpenOf(n)' = amount
      BY <1>3, <1>5, <1>7 DEF ExposureOf, OpenOf, Answering, Unsettled
    <2>2. ASSUME NEW y \in DOMAIN rows
          PROVE  ExposureOf(y)' = ExposureOf(y) /\ OpenOf(y)' = OpenOf(y)
      <3>1. y # n /\ rows'[y] = rows[y] /\ relay'[y] = relay[y]
        BY <1>5, <1>6
      <3>2. ExposureOf(y)' = relay[y].holds /\ ExposureOf(y) = relay[y].holds
        BY <1>1, <1>7, <3>1 DEF ExposureOf, At, Answering
      <3> QED
        BY <3>1, <3>2 DEF OpenOf
    <2> QED
      BY <2>1, <2>2
  <1>9. /\ Exposure \in [DOMAIN rows -> Nat] /\ Open \in [DOMAIN rows -> Nat]
        /\ Total(Exposure) \in Nat /\ Total(Open) \in Nat
    BY <1>4, SumTypes
  <1>10. /\ \A y \in DOMAIN rows : Exposure[y] = ExposureOf(y) /\ Open[y] = OpenOf(y)
         /\ \A y \in DOMAIN rows' : Exposure'[y] = ExposureOf(y)' /\ Open'[y] = OpenOf(y)'
    BY DEF Exposure, Open
  <1>11. Exposure' \in [DOMAIN rows' -> Nat] /\ Open' \in [DOMAIN rows' -> Nat]
    <2>1. \A y \in DOMAIN rows' : ExposureOf(y)' \in Nat /\ OpenOf(y)' \in Nat
      BY <1>2, <1>6, <1>8, <1>9, <1>10
    <2> QED
      BY <1>6, <2>1 DEF Exposure, Open
  <1>12. /\ Exposure'[n] = amount /\ Open'[n] = amount
         /\ \A y \in DOMAIN rows : Exposure'[y] = Exposure[y] /\ Open'[y] = Open[y]
    <2>1. ExposureOf(n)' = Exposure'[n] /\ OpenOf(n)' = Open'[n]
      BY <1>6 DEF Exposure, Open
    <2> QED
      BY <1>6, <1>8, <1>10, <2>1
  <1>13. Total(Exposure') = Total(Exposure) + amount /\ Total(Open') = Total(Open) + amount
    <2>1. \A f \in [DOMAIN rows -> Nat], g \in [DOMAIN rows' -> Nat] :
              (\A y \in DOMAIN rows : g[y] = f[y]) => Total(g) = Total(f) + g[n]
      <3> SUFFICES ASSUME NEW S, S = DOMAIN rows, NEW T, T = DOMAIN rows',
                          NEW f \in [S -> Nat], NEW g \in [T -> Nat], \A y \in S : g[y] = f[y]
                   PROVE  Total(g) = Total(f) + g[n]
        OBVIOUS
      <3>1. IsFiniteSet(S) /\ n \notin S /\ T = S \cup {n}
        BY <1>4, <1>6
      <3> HIDE DEF BInv
      <3> QED
        BY ONLY <3>1, f \in [S -> Nat], g \in [T -> Nat], \A y \in S : g[y] = f[y], TotalExtend
    <2>2. \A y \in DOMAIN rows : Exposure'[y] = Exposure[y]
      BY <1>12
    <2>3. \A y \in DOMAIN rows : Open'[y] = Open[y]
      BY <1>12
    <2>4. Total(Exposure') = Total(Exposure) + Exposure'[n]
      BY <1>9, <1>11, <2>1, <2>2
    <2>5. Total(Open') = Total(Open) + Open'[n]
      BY <1>9, <1>11, <2>1, <2>3
    <2> QED
      BY <1>12, <2>4, <2>5
  <1>14. CountedOk'
    BY <1>1, <1>2, <1>4, <1>9, <1>13 DEF BInv, CountedOk
  <1>15. TypeOK'
    <2>1. /\ wallet \in [Chains -> Nat] /\ venue \in Nat /\ withdrawing \in Nat
          /\ up \in BOOLEAN /\ MaxCrossings \in Nat
      BY <1>4, BridgeAssumption DEF TypeOK
    <2>2. /\ wallet' \in [Chains -> Nat] /\ venue' \in Nat /\ withdrawing' \in Nat
          /\ up' \in BOOLEAN
      BY <1>1, <2>1
    <2>3. inFlight' \in Nat
      BY <1>1, <1>2, <1>4
    <2>4. Len(rows') <= MaxCrossings
      BY <1>1, <1>4, <1>5, <2>1
    <2> QED
      BY ONLY <1>5, <1>7, <2>2, <2>3, <2>4 DEF TypeOK
  <1>16. RowsOk'
    <2>1. RowOk(r, t)
      BY <1>3 DEF RowOk
    <2> QED
      BY <1>5, <1>6, <2>1 DEF BInv, RowsOk
  <1>17. InsideOk'
    BY <1>1, <1>3, <1>5, <1>6, <1>7 DEF InsideOk, CallOk, Unsettled
  <1> QED
    BY <1>14, <1>15, <1>16, <1>17 DEF BInv

\* A process that dies counts nothing until the next one reads the rows.
LEMMA CrashInv == ASSUME BInv, Crash PROVE BInv'
  <1>1. /\ up' = FALSE /\ inFlight' = 0 /\ crossing' = Idle
        /\ UNCHANGED <<wallet, venue, withdrawing, rows, relay>>
    BY DEF Crash, Stop
  <1>2. TypeOK'
    BY <1>1 DEF BInv, TypeOK, Idle, Steps
  <1>3. RowsOk' /\ InsideOk' /\ CountedOk'
    BY <1>1 DEF BInv, RowsOk, InsideOk, CountedOk, At, Idle
  <1> QED
    BY <1>2, <1>3 DEF BInv

\* Margin released and paid out by the venue crosses nothing.
LEMMA WithdrawalInv ==
    ASSUME BInv, (\E amount \in Amounts : RequestWithdrawal(amount)) \/ WithdrawalSettles
    PROVE  BInv'
  <1>1. UNCHANGED <<rows, relay, inFlight, crossing, up>>
    BY DEF RequestWithdrawal, WithdrawalSettles
  <1>2. wallet \in [Chains -> Nat] /\ venue \in Nat /\ withdrawing \in Nat
        /\ wallet["SOLANA"] \in Nat
    BY DEF BInv, TypeOK, Chains
  <1>3. wallet' \in [Chains -> Nat] /\ venue' \in Nat /\ withdrawing' \in Nat
    <2>1. ASSUME NEW amount \in Amounts, RequestWithdrawal(amount)
          PROVE  wallet' \in [Chains -> Nat] /\ venue' \in Nat /\ withdrawing' \in Nat
      <3>1. amount \in Nat
        BY BridgeAssumption
      <3> QED
        BY <1>2, <2>1, <3>1 DEF RequestWithdrawal
    <2>2. CASE WithdrawalSettles
      <3>1. /\ wallet' = [wallet EXCEPT !["SOLANA"] = wallet["SOLANA"] + withdrawing]
            /\ withdrawing' = 0 /\ venue' = venue
        BY <2>2 DEF WithdrawalSettles
      <3>2. wallet["SOLANA"] + withdrawing \in Nat
        BY <1>2
      <3> QED
        BY <1>2, <3>1, <3>2
    <2> QED
      BY <2>1, <2>2
  <1>4. TypeOK'
    BY <1>1, <1>3 DEF BInv, TypeOK
  <1>5. RowsOk' /\ InsideOk' /\ CountedOk'
    BY <1>1 DEF BInv, RowsOk, InsideOk, CountedOk, At, Exposure, Open, ExposureOf, OpenOf
  <1> QED
    BY <1>4, <1>5 DEF BInv

\* Relay settles on an outcome of a transfer it holds.
LEMMA DecidesInv ==
    ASSUME BInv, NEW i \in DOMAIN relay, NEW plan \in {"fill", "refund"}, RelayDecides(i, plan)
    PROVE  BInv'
  <1> DEFINE t == [relay[i] EXCEPT !.plan = plan]
  <1>1. /\ i \in DOMAIN rows /\ relay[i] \in Intents /\ RowOk(rows[i], relay[i])
        /\ relay[i].holds \in Nat /\ wallet \in [Chains -> Nat]
    BY RowTypes, FieldTypes DEF BInv, RowsOk, TypeOK
  <1>2. relay[i].plan = "open" /\ relay' = [relay EXCEPT ![i] = t]
        /\ UNCHANGED <<wallet, venue, withdrawing, rows, inFlight, crossing, up>>
    BY DEF RelayDecides
  <1>3. /\ t \in Intents /\ t.plan = plan /\ t.holds = relay[i].holds
        /\ t.said = relay[i].said
    BY <1>1 DEF Intents
  <1>4. RowOk(rows[i], t)
    BY <1>1, <1>2, <1>3 DEF RowOk
  <1> HIDE DEF t, BInv
  <1>5. t.holds <= relay[i].holds
    BY <1>1, <1>3
  <1> QED
    BY <1>1, <1>2, <1>3, <1>4, <1>5, IntentInv

\* Relay lets go of what it held: nothing that was counted is lost by it.
LEMMA PaysInv ==
    ASSUME BInv, NEW i \in DOMAIN relay, NEW fee \in Fees, RelayPays(i, fee)
    PROVE  BInv'
  <1> DEFINE t == [relay[i] EXCEPT !.holds = 0]
  <1>1. /\ i \in DOMAIN rows /\ relay[i] \in Intents /\ RowOk(rows[i], relay[i])
        /\ rows[i] \in BridgeTransfers
        /\ relay[i].holds \in Nat /\ wallet \in [Chains -> Nat]
    BY RowTypes, FieldTypes DEF BInv, RowsOk, TypeOK
  <1>2. /\ relay[i].plan \in {"fill", "refund"} /\ relay[i].holds > 0
        /\ relay' = [relay EXCEPT ![i] = t]
        /\ UNCHANGED <<venue, withdrawing, rows, inFlight, crossing, up>>
    BY DEF RelayPays
  <1>3. /\ t \in Intents /\ t.plan = relay[i].plan /\ t.holds = 0 /\ t.said = relay[i].said
    BY <1>1 DEF Intents
  <1>4. RowOk(rows[i], t)
    BY <1>1, <1>2, <1>3 DEF RowOk
  <1>5. wallet' \in [Chains -> Nat]
    <2>1. relay[i].holds \in Amounts /\ rows[i].dir \in Directions
      BY <1>1, <1>2, FieldTypes DEF RowOk
    <2>2. fee < relay[i].holds /\ fee \in Nat
      BY <2>1, BridgeAssumption
    <2>3. relay[i].holds - fee \in Nat
      BY <1>1, <2>2
    <2>4. /\ wallet[Target(rows[i].dir)] \in Nat /\ wallet[Origin(rows[i].dir)] \in Nat
          /\ Target(rows[i].dir) \in Chains /\ Origin(rows[i].dir) \in Chains
      BY <1>1, <2>1 DEF Target, Origin, Directions, Chains
    <2>5. CASE relay[i].plan = "fill"
      <3>1. wallet' = [wallet EXCEPT ![Target(rows[i].dir)] =
                           wallet[Target(rows[i].dir)] + relay[i].holds - fee]
        BY <2>5 DEF RelayPays
      <3>2. wallet[Target(rows[i].dir)] + relay[i].holds - fee \in Nat
        BY <1>1, <2>2, <2>4
      <3> QED
        BY <1>1, <2>4, <3>1, <3>2
    <2>6. CASE relay[i].plan # "fill"
      <3>1. wallet' = [wallet EXCEPT ![Origin(rows[i].dir)] =
                           wallet[Origin(rows[i].dir)] + relay[i].holds]
        BY <2>6 DEF RelayPays
      <3>2. wallet[Origin(rows[i].dir)] + relay[i].holds \in Nat
        BY <1>1, <2>4
      <3> QED
        BY <1>1, <2>4, <3>1, <3>2
    <2> QED
      BY <2>5, <2>6
  <1> HIDE DEF t, BInv
  <1>6. t.holds <= relay[i].holds
    BY <1>1, <1>3
  <1> QED
    BY <1>1, <1>2, <1>3, <1>4, <1>5, <1>6, IntentInv

\* Relay reports an outcome: with the books safe, only after it has paid.
LEMMA SaysInv ==
    ASSUME BooksSurvive, BInv, NEW i \in DOMAIN relay, RelaySays(i)
    PROVE  BInv'
  <1> DEFINE t == [relay[i] EXCEPT !.said = TRUE]
  <1>1. /\ i \in DOMAIN rows /\ relay[i] \in Intents /\ RowOk(rows[i], relay[i])
        /\ relay[i].holds \in Nat /\ wallet \in [Chains -> Nat]
    BY RowTypes, FieldTypes DEF BInv, RowsOk, TypeOK
  <1>2. /\ relay[i].plan \in {"fill", "refund"} /\ relay[i].holds = 0
        /\ relay' = [relay EXCEPT ![i] = t]
        /\ UNCHANGED <<wallet, venue, withdrawing, rows, inFlight, crossing, up>>
    BY DEF RelaySays, BooksSurvive
  <1>3. /\ t \in Intents /\ t.plan = relay[i].plan /\ t.holds = 0 /\ t.said
    BY <1>1, <1>2 DEF Intents
  <1>4. RowOk(rows[i], t)
    BY <1>1, <1>2, <1>3 DEF RowOk
  <1> HIDE DEF t, BInv
  <1>5. t.holds <= relay[i].holds
    BY <1>1, <1>3
  <1> QED
    BY <1>1, <1>2, <1>3, <1>4, <1>5, IntentInv

-----------------------------------------------------------------------------
\* The inductive invariant, and what it says to an observer.

LEMMA InitInv == Init => BInv
  <1> SUFFICES ASSUME Init PROVE BInv
    OBVIOUS
  <1>1. /\ rows = <<>> /\ relay = <<>> /\ inFlight = 0 /\ crossing = Idle /\ up = FALSE
        /\ wallet = [c \in Chains |-> IF c = "BASE" THEN Funding ELSE 0]
        /\ venue = 0 /\ withdrawing = 0
    BY DEF Init
  <1>2. DOMAIN rows = {}
    BY <1>1
  <1>3. TypeOK
    <2>1. wallet \in [Chains -> Nat] /\ Len(rows) <= MaxCrossings
      BY <1>1, BridgeAssumption
    <2>2. rows \in Seq(BridgeTransfers) /\ relay \in Seq(Intents) /\ Len(relay) = Len(rows)
      BY <1>1
    <2>3. crossing \in [step : Steps, id : {0} \cup DOMAIN rows, before : Nat, landed : Nat]
      BY <1>1 DEF Idle, Steps
    <2> QED
      BY <1>1, <2>1, <2>2, <2>3 DEF TypeOK
  <1>4. RowsOk /\ InsideOk /\ CountedOk
    BY <1>1, <1>2 DEF RowsOk, InsideOk, CountedOk, At, Idle
  <1> QED
    BY <1>3, <1>4 DEF BInv

\* Whatever happens next, the books are kept.
LEMMA NextInv == ASSUME BooksSurvive PROVE BInv /\ [Next]_vars => BInv'
  <1> SUFFICES ASSUME BInv, [Next]_vars PROVE BInv'
    OBVIOUS
  <1>1. ASSUME Proceed PROVE BInv'
    BY <1>1, WaitsInv, SendInv, MarkSentInv, FailQuotedInv, SeeRefundedInv, SettleInv,
       DepositInv DEF Proceed
  <1>2. ASSUME RelayStep PROVE BInv'
    BY <1>2, DecidesInv, PaysInv, SaysInv DEF RelayStep
  <1>3. ASSUME Tick \/ Crash PROVE BInv'
    BY <1>3, TickInv, CrashInv
  <1>4. ASSUME NEW dir \in Directions, NEW amount \in Amounts, Start(dir, amount) PROVE BInv'
    BY <1>4, StartInv
  <1>5. ASSUME (\E amount \in Amounts : RequestWithdrawal(amount)) \/ WithdrawalSettles
        PROVE  BInv'
    BY <1>5, WithdrawalInv
  <1>6. ASSUME UNCHANGED vars PROVE BInv'
    BY <1>6 DEF vars, BInv, TypeOK, RowsOk, InsideOk, CountedOk, At, Exposure, Open,
                ExposureOf, OpenOf
  <1> QED
    BY <1>1, <1>2, <1>3, <1>4, <1>5, <1>6 DEF Next

\* Between two calls the rows and the transfers say what the counter may hold.
LEMMA Observed ==
    ASSUME BInv
    PROVE  ClosedRowsAreSettled /\ AirborneStaysCounted /\ ClosedBooksBalance
  <1>1. ClosedRowsAreSettled
    BY DEF BInv, RowsOk, RowOk, ClosedRowsAreSettled
  <1>2. ASSUME Observing
        PROVE  /\ Exposure = HeldByRelay /\ inFlight \in Nat
               /\ Total(Exposure) <= inFlight /\ inFlight <= Total(Open)
    <2>1. DOMAIN relay = DOMAIN rows
      BY RowTypes DEF BInv
    <2>2. \A i \in DOMAIN rows : ExposureOf(i) = relay[i].holds
      BY <1>2 DEF Observing, At, ExposureOf, Answering
    <2>3. Exposure = HeldByRelay
      BY <2>1, <2>2 DEF Exposure, HeldByRelay
    <2> QED
      BY <1>2, <2>3 DEF Observing, BInv, CountedOk, TypeOK
  <1>3. AirborneStaysCounted
    BY <1>2 DEF AirborneStaysCounted
  <1>4. ASSUME Observing, \A i \in DOMAIN rows : rows[i].status \notin Unsettled
        PROVE  inFlight = 0
    <2>1. Open = [i \in DOMAIN rows |-> 0]
      BY <1>4 DEF Open, OpenOf
    <2>2. Total(Open) = 0
      BY <2>1, TotalZero
    <2> QED
      BY <1>2, <1>4, <2>2
  <1>5. ClosedBooksBalance
    BY <1>4 DEF ClosedBooksBalance
  <1> QED
    BY <1>1, <1>3, <1>5

\* The counter of every process lies between the air and the rows.
THEOREM BridgeInvariant == ASSUME BooksSurvive PROVE Spec => []BInv
  BY InitInv, NextInv, PTL DEF Spec

(***************************************************************************)
(* No balance and no counter goes below zero: nothing is struck off that   *)
(* was not counted, by whichever process.                                  *)
(***************************************************************************)
THEOREM BridgeTypes == ASSUME BooksSurvive PROVE Spec => []TypeOK
  <1>1. BInv => TypeOK
    BY DEF BInv
  <1> QED
    BY <1>1, BridgeInvariant, PTL

(***************************************************************************)
(* Whatever interrupts a crossing, between two calls the counter covers    *)
(* what Relay holds: money between the chains is never read as a loss.     *)
(***************************************************************************)
THEOREM AirIsCounted == ASSUME BooksSurvive PROVE Spec => []AirborneStaysCounted
  BY Observed, BridgeInvariant, PTL

\* A closed row is never a crossing that is still in the air.
THEOREM ClosedMeansSettled == ASSUME BooksSurvive PROVE Spec => []ClosedRowsAreSettled
  BY Observed, BridgeInvariant, PTL

\* Once every row is closed, nothing is counted in flight.
THEOREM NoPhantomMoney == ASSUME BooksSurvive PROVE Spec => []ClosedBooksBalance
  BY Observed, BridgeInvariant, PTL
=============================================================================
