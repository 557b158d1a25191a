----------------------------- MODULE DeskProofs -----------------------------
(***************************************************************************)
(* Proofs about the parts of Desk, for any orders, callers, routes,        *)
(* symbols, amounts and bounds.                                            *)
(***************************************************************************)
EXTENDS DeskInvariants, FiniteSetTheorems, SequenceTheorems, WellFoundedInduction, TLAPS

(***************************************************************************)
(* Induction, in the form the provers can use: a fact about every number   *)
(* is that a set holds it, and what a recursive function is follows from   *)
(* one that satisfies its equation.                                        *)
(***************************************************************************)
\* A set of numbers that is not empty has a least element.
LEMMA LeastNumber ==
  ASSUME NEW T \in SUBSET Nat, T # {}
  PROVE  \E m \in T : \A k \in T : m <= k
<1> DEFINE Before == {ss \in Nat \X Nat : ss[1] < ss[2]}
<1>1. IsWellFoundedOn(Before, Nat)
  BY NatLessThanWellFounded DEF OpToRel
<1>2. \A k, m \in Nat : <<k, m>> \notin Before => m <= k
  OBVIOUS
<1> HIDE DEF Before
<1>3. \E m \in T : \A k \in T : <<k, m>> \notin Before
  BY <1>1, WFMin
<1> QED BY <1>2, <1>3

\* What holds of 0 and of i whenever it holds of i - 1 holds of all numbers up to n.
LEMMA UpTo ==
  ASSUME NEW n \in Nat, NEW P, 0 \in P, \A i \in 1..n : i - 1 \in P => i \in P
  PROVE  0..n \subseteq P
<1> SUFFICES ASSUME (0..n) \ P # {}
             PROVE  FALSE
  OBVIOUS
<1>1. PICK m \in (0..n) \ P : \A k \in (0..n) \ P : m <= k
  <2> DEFINE T == (0..n) \ P
  <2>1. T \in SUBSET Nat /\ T # {}
    OBVIOUS
  <2> HIDE DEF T
  <2>2. \E m \in T : \A k \in T : m <= k
    BY <2>1, LeastNumber
  <2> QED BY <2>2 DEF T
<1>2. m \in 1..n /\ m - 1 \in 0..n /\ ~(m <= m - 1)
  BY <1>1
<1> QED BY <1>1, <1>2

\* A function that says what follows each value determines a sequence of values.
Steps(V) == [Nat \X V -> V]
Iterates(n, V, base, step) ==
  {g \in [0..n -> V] : g[0] = base /\ \A i \in 1..n : g[i] = step[<<i, g[i - 1]>>]}

LEMMA Recursion ==
  ASSUME NEW n \in Nat, NEW V, NEW base \in V, NEW step \in Steps(V)
  PROVE  Iterates(n, V, base, step) # {}
<1> DEFINE Upto(m) == \E g \in [0..m -> V] :
                        g[0] = base /\ \A i \in 1..m : g[i] = step[<<i, g[i - 1]>>]
           P == {m \in 0..n : Upto(m)}
<1>0. step \in [Nat \X V -> V]
  BY DEF Steps
<1>1. 0 \in P
  <2> DEFINE g == [i \in 0..0 |-> base]
  <2>1. g \in [0..0 -> V] /\ g[0] = base /\ \A i \in 1..0 : FALSE
    OBVIOUS
  <2> HIDE DEF g
  <2>2. Upto(0)
    BY <2>1
  <2> QED BY <2>2
<1>2. ASSUME NEW m \in 1..n, m - 1 \in P
      PROVE  m \in P
  <2>1. PICK g \in [0..(m - 1) -> V] : g[0] = base /\ \A i \in 1..(m - 1) : g[i] = step[<<i, g[i - 1]>>]
    BY <1>2
  <2> DEFINE h == [i \in 0..m |-> IF i = m THEN step[<<m, g[m - 1]>>] ELSE g[i]]
  <2>2. g[m - 1] \in V /\ step[<<m, g[m - 1]>>] \in V
    <3>1. m - 1 \in 0..(m - 1)
      OBVIOUS
    <3>2. g[m - 1] \in V
      BY <2>1, <3>1
    <3> QED BY <1>0, <3>2
  <2>3. \A i \in 0..m : i # m => i \in 0..(m - 1)
    OBVIOUS
  <2>4. h \in [0..m -> V]
    BY <2>1, <2>2, <2>3
  <2>5. h[0] = base
    BY <2>1
  <2>6. ASSUME NEW i \in 1..m
        PROVE  h[i] = step[<<i, h[i - 1]>>]
    <3>1. i - 1 \in 0..m /\ i - 1 # m /\ i \in 0..m
      OBVIOUS
    <3>2. h[i - 1] = g[i - 1]
      BY <3>1
    <3>3. CASE i = m
      BY <3>1, <3>2, <3>3
    <3>4. CASE i # m
      <4>1. i \in 1..(m - 1) /\ h[i] = g[i]
        BY <3>1, <3>4
      <4> QED BY <2>1, <3>2, <4>1
    <3> QED BY <3>3, <3>4
  <2> HIDE DEF h
  <2>7. Upto(m)
    BY <2>4, <2>5, <2>6
  <2> QED BY <2>7
<1> HIDE DEF P
<1>3. 0..n \subseteq P
  BY <1>1, <1>2, UpTo
<1>4. n \in P
  BY <1>3
<1> QED BY <1>4 DEF P, Iterates

-----------------------------------------------------------------------------
(***************************************************************************)
(* The portfolio synchronizer.                                             *)
(***************************************************************************)
Money == [cash : Int, size : Nat, cost : Nat]
Grown(b) == {r \in Money : r.cash + r.cost = b.cash + b.cost /\ r.size >= b.size /\ r.cost >= b.cost}

LEMMA ProjectGrows ==
  ASSUME Sync!AmountsAssumption, NEW b \in Money, NEW r \in Grown(b), NEW report \in Sync!Reports
  PROVE  /\ Sync!Project(r, report) \in Grown(b)
         /\ Sync!Project(r, report).cost = r.cost + report.quantity * report.price
<1>1. report.quantity \in Nat /\ report.price \in Nat
  BY DEF Sync!AmountsAssumption, Sync!Reports
<1>2. report.quantity * report.price \in Nat
  BY <1>1
<1> DEFINE paid == report.quantity * report.price
<1> HIDE DEF paid
<1>3. paid \in Nat /\ Sync!Project(r, report) = [cash |-> r.cash - paid, size |-> r.size + report.quantity,
                                                 cost |-> r.cost + paid]
  BY <1>2 DEF Sync!Project, paid
<1> QED BY <1>1, <1>3 DEF Grown, Money, paid

\* A batch, however long, leaves the portfolio grown.
LEMMA BatchGrows ==
  ASSUME Sync!AmountsAssumption, NEW b \in Money, NEW batch \in Seq(Sync!Reports)
  PROVE  Sync!Projections(b, batch)[Len(batch)] \in Grown(b)
<1>1. PICK n \in Nat : batch \in [1..n -> Sync!Reports] /\ Len(batch) = n
  BY LenProperties
<1> DEFINE V == Grown(b)
           Then(r, i) == IF batch[i].success THEN Sync!Project(r, batch[i]) ELSE r
           Follows(f) == f = [i \in 0..n |-> IF i = 0 THEN b ELSE Then(f[i - 1], i)]
           step == [x \in Nat \X V |-> IF x[1] \in 1..n THEN Then(x[2], x[1]) ELSE x[2]]
           after == Sync!Projections(b, batch)
<1>2. b \in V
  BY DEF Grown, Money
<1>3. \A r \in V, i \in 1..n : Then(r, i) \in V
  BY <1>1, ProjectGrows
<1>4. step \in Steps(V)
  BY <1>3 DEF Steps
<1>5. \E f : Follows(f)
  <2> HIDE DEF V, Then
  <2>1. PICK g \in [0..n -> V] : g[0] = b /\ \A i \in 1..n : g[i] = step[<<i, g[i - 1]>>]
    <3> HIDE DEF step
    <3>1. Iterates(n, V, b, step) # {}
      BY <1>1, <1>2, <1>4, Recursion
    <3> QED BY <3>1 DEF Iterates
  <2>2. ASSUME NEW i \in 1..n
        PROVE  g[i] = Then(g[i - 1], i)
    <3>1. i \in Nat /\ i - 1 \in 0..n
      BY <1>1
    <3>2. <<i, g[i - 1]>> \in Nat \X V
      BY <2>1, <3>1
    <3>3. step[<<i, g[i - 1]>>] = Then(g[i - 1], i)
      BY <3>2
    <3> QED BY <2>1, <3>3
  <2>3. \A i \in 0..n : g[i] = IF i = 0 THEN b ELSE Then(g[i - 1], i)
    BY <2>1, <2>2
  <2> QED BY <2>1, <2>3
<1>6. after = CHOOSE f : Follows(f)
  BY <1>1 DEF Sync!Projections
<1>7. Follows(after)
  BY <1>5, <1>6
<1> DEFINE P == {i \in 0..n : after[i] \in V}
<1>8. 0 \in P /\ \A i \in 1..n : i - 1 \in P => i \in P
  <2> HIDE DEF V, Then, after
  <2>1. after[0] = b /\ \A i \in 1..n : after[i] = Then(after[i - 1], i)
    BY <1>7
  <2> QED BY <1>2, <1>3, <2>1
<1>9. 0..n \subseteq P
  <2> HIDE DEF P
  <2> QED BY <1>8, UpTo
<1> QED BY <1>1, <1>9

LEMMA BatchesAreSequences == \A batch \in Sync!Batches : batch \in Seq(Sync!Reports)
<1> SUFFICES ASSUME NEW n \in 0..MaxBatch, NEW batch \in [1..n -> Sync!Reports]
             PROVE  batch \in Seq(Sync!Reports)
  BY DEF Sync!Batches
<1>1. n \in Nat
  OBVIOUS
<1> QED BY <1>1, SeqDef

\* The desk moves one part at a time, so its steps are steps of each part.
LEMMA SyncMoves == [Next]_vars => [Sync!Next]_(Sync!vars)
BY DEF Next, vars, deskVars, otherVars, syncVars, Sync!vars, Sync!historyVars

LEMMA SyncStarts == ASSUME Init PROVE SyncInv
<1>1. Sync!AmountsAssumption /\ Sync!Init
  BY PartsAssumption DEF Init
<1>2. Sync!TypeOK
  BY <1>1 DEF Sync!TypeOK, Sync!Init, Sync!Fresh, Sync!Idle, Sync!AmountsAssumption
<1>3. ledger.cash + ledger.cost = deposit
  BY <1>1 DEF Sync!Init, Sync!Fresh, Sync!AmountsAssumption
<1>4. Sync!AppliedOnce
  BY <1>1 DEF Sync!Init, Sync!Fresh, Sync!AppliedOnce
<1>5. witnessed \in [Valuers -> SUBSET Int]
  BY <1>1 DEF Sync!Init
<1>6. \A t \in Valuers : Founded(t)
  BY <1>1 DEF Sync!Init, Founded
<1>7. Sync!NeverOverstates
  BY <1>1 DEF Sync!Init, Sync!NeverOverstates
<1> QED BY <1>2, <1>3, <1>4, <1>5, <1>6, <1>7 DEF SyncInv

LEMMA Monotone ==
  ASSUME NEW m \in Nat, NEW n \in Nat, NEW p \in Nat, m <= n
  PROVE  m * p <= n * p
<1>1. PICK d \in Nat : n = m + d
  <2>1. n - m \in Nat /\ n = m + (n - m)
    OBVIOUS
  <2> QED BY <2>1
<1>2. n * p = m * p + d * p /\ d * p \in Nat /\ m * p \in Nat
  BY <1>1
<1> QED BY <1>2

\* What a valuation needs of the numbers it is made of.
LEMMA ReadingAmounts ==
  ASSUME Sync!AmountsAssumption, NEW b \in Money, NEW t \in Valuers, Sync!TypeOK, readings[t] # Sync!Idle
  PROVE  /\ readings[t].price \in Nat /\ readings[t].value \in Nat
         /\ Sync!Rest(b, readings[t].kind) \in Int /\ b.size * readings[t].price \in Nat
         /\ Sync!Valuation(b, readings[t]) \in Int
<1>1. readings[t].price \in Nat /\ readings[t].value \in Nat
  BY DEF Sync!TypeOK, Sync!AmountsAssumption
<1>2. Sync!Rest(b, readings[t].kind) \in Int
  BY DEF Sync!Rest, Money
<1>3. b.size * readings[t].price \in Nat
  BY <1>1 DEF Money
<1> QED BY <1>1, <1>2, <1>3 DEF Sync!Valuation

\* A portfolio that grows keeps the readings under way founded.
LEMMA GrowthKeepsReadings ==
  ASSUME Sync!AmountsAssumption, SyncInv, NEW b \in Grown(ledger), Sync!Book(b), spoilt' = spoilt
  PROVE  /\ witnessed' \in [Valuers -> SUBSET Int]
         /\ \A t \in Valuers : Founded(t)'
<1>1. ledger \in Money /\ b \in Money
  BY DEF SyncInv, Sync!TypeOK, Money, Grown
<1>2. witnessed' \in [Valuers -> SUBSET Int]
  <2>1. ASSUME NEW t \in Valuers, readings[t] # Sync!Idle
        PROVE  Sync!Valuation(b, readings[t]) \in Int
    BY <1>1, <2>1, ReadingAmounts DEF SyncInv
  <2> QED BY <2>1 DEF SyncInv, Sync!Book
<1>3. ASSUME NEW t \in Valuers
      PROVE  Founded(t)'
  <2> SUFFICES ASSUME readings[t] # Sync!Idle, t \notin spoilt
               PROVE  /\ readings[t].value <= b.size * readings[t].price
                      /\ Sync!Valuation(b, readings[t]) \in witnessed'[t]
    <3>1. readings' = readings /\ ledger' = b
      BY DEF Sync!Book
    <3>2. Sync!Valuation(ledger, readings[t])' = Sync!Valuation(b, readings[t])
      BY <3>1 DEF Sync!Valuation, Sync!Rest
    <3> QED BY <3>1, <3>2 DEF Founded, Sync!Idle
  <2>1. Sync!Valuation(b, readings[t]) \in witnessed'[t]
    BY DEF SyncInv, Sync!Book
  <2>2. readings[t].value <= ledger.size * readings[t].price
    BY DEF SyncInv, Founded
  <2>3. /\ ledger.size * readings[t].price <= b.size * readings[t].price
        /\ ledger.size * readings[t].price \in Nat /\ b.size * readings[t].price \in Nat
        /\ readings[t].value \in Nat
    <3>1. ledger.size \in Nat /\ b.size \in Nat /\ ledger.size <= b.size
      BY <1>1 DEF Grown, Money
    <3>2. readings[t].price \in Nat /\ readings[t].value \in Nat
      BY <1>1, ReadingAmounts DEF SyncInv
    <3> QED BY <3>1, <3>2, Monotone
  <2> QED BY <2>1, <2>2, <2>3
<1> QED BY <1>2, <1>3

LEMMA Product ==
  ASSUME NEW p \in Nat \ {0}, NEW q \in Nat \ {0}
  PROVE  p * q \in Nat \ {0}
<1>1. PICK n \in Nat : p = n + 1
  <2>1. p - 1 \in Nat /\ p = (p - 1) + 1
    OBVIOUS
  <2> QED BY <2>1
<1>2. (n + 1) * q = n * q + q /\ n * q \in Nat
  BY SMT
<1> QED BY <1>1, <1>2

LEMMA Paying ==
  ASSUME Sync!AmountsAssumption, NEW report \in Sync!Reports
  PROVE  /\ report.quantity * report.price \in Nat \ {0}
         /\ report.id \in OrderIds
<1>1. report.quantity \in Nat \ {0} /\ report.price \in Nat \ {0} /\ report.id \in OrderIds
  BY DEF Sync!AmountsAssumption, Sync!Reports
<1> QED BY <1>1, Product

LEMMA BatchKeepsSyncInv ==
  ASSUME Sync!AmountsAssumption, SyncInv, NEW batch \in Seq(Sync!Reports), Sync!ApplyMany(batch)
  PROVE  SyncInv'
<1> DEFINE b == Sync!Projections(ledger, batch)[Len(batch)]
<1>1. ledger \in Money
  BY DEF SyncInv, Sync!TypeOK, Money
<1>2. b \in Grown(ledger)
  BY <1>1, BatchGrows
<1>3. /\ b.cash >= 0 /\ Sync!Book(b)
      /\ UNCHANGED <<applied, deposit, credited, spoilt>>
  BY DEF Sync!ApplyMany
<1> HIDE DEF b
<1>4. ledger' = b /\ UNCHANGED <<readings, told>>
  BY <1>3 DEF Sync!Book
<1>5. b \in [cash : Nat, size : Nat, cost : Nat] /\ b.cash + b.cost = deposit /\ b.cost >= ledger.cost
  BY <1>1, <1>2, <1>3 DEF SyncInv, Grown, Money
<1>6. Sync!TypeOK'
  BY <1>3, <1>4, <1>5 DEF SyncInv, Sync!TypeOK, Sync!Idle
<1>7. Sync!AppliedOnce'
  <2>1. \A id \in OrderIds : credited[id] <= b.cost
    <3>1. \A id \in OrderIds : credited[id] \in Nat /\ credited[id] <= ledger.cost
      BY DEF SyncInv, Sync!TypeOK, Sync!AppliedOnce
    <3> QED BY <1>1, <1>5, <3>1 DEF Money
  <2> QED BY <1>3, <1>4, <2>1 DEF SyncInv, Sync!AppliedOnce
<1>8. Sync!NeverOverstates'
  BY <1>4 DEF SyncInv, Sync!NeverOverstates
<1>9. witnessed' \in [Valuers -> SUBSET Int] /\ \A t \in Valuers : Founded(t)'
  BY <1>2, <1>3, GrowthKeepsReadings
<1> QED BY <1>3, <1>4, <1>5, <1>6, <1>7, <1>8, <1>9 DEF SyncInv

LEMMA OnceKeepsSyncInv ==
  ASSUME Sync!AmountsAssumption, SyncInv, NEW report \in Sync!Reports, Sync!ApplyOnce(report)
  PROVE  SyncInv'
<1> DEFINE b == Sync!Project(ledger, report)
           paid == report.quantity * report.price
<1>1. ledger \in Money /\ ledger \in Grown(ledger) /\ ledger.cost \in Nat
  BY DEF SyncInv, Sync!TypeOK, Money, Grown
<1>2. b \in Grown(ledger) /\ b.cost = ledger.cost + paid
  BY <1>1, ProjectGrows
<1>3. /\ report.id \notin applied
      /\ b.cash >= 0 /\ Sync!Book(b)
      /\ applied' = applied \cup {report.id}
      /\ credited' = [credited EXCEPT ![report.id] = @ + paid]
      /\ UNCHANGED <<deposit, spoilt>>
  BY DEF Sync!ApplyOnce
<1>4. paid \in Nat \ {0} /\ report.id \in OrderIds
  BY Paying
<1>5. \E q \in Bought, p \in Paid : paid = q * p
  BY DEF Sync!Reports
<1> HIDE DEF b, paid
<1>6. ledger' = b /\ UNCHANGED <<readings, told>>
  BY <1>3 DEF Sync!Book
<1>7. b \in [cash : Nat, size : Nat, cost : Nat] /\ b.cash + b.cost = deposit
  BY <1>1, <1>2, <1>3 DEF SyncInv, Grown, Money
<1>8. credited[report.id] = 0 /\ credited \in [OrderIds -> Nat]
  BY <1>3, <1>4 DEF SyncInv, Sync!TypeOK, Sync!AppliedOnce
<1>9. credited' = [credited EXCEPT ![report.id] = paid] /\ credited' \in [OrderIds -> Nat]
  BY <1>3, <1>4, <1>8
<1>10. Sync!TypeOK'
  BY <1>3, <1>4, <1>6, <1>7, <1>9 DEF SyncInv, Sync!TypeOK, Sync!Idle
<1>11. Sync!AppliedOnce'
  <2>1. ASSUME NEW id \in OrderIds
        PROVE  /\ credited'[id] = 0 <=> id \notin applied'
               /\ id \in applied' => \E q \in Bought, p \in Paid : credited'[id] = q * p
               /\ credited'[id] <= b.cost
    <3>1. CASE id = report.id
      <4>1. credited'[id] = paid /\ id \in applied'
        BY <1>3, <1>4, <1>8, <1>9, <3>1
      <4>2. paid <= b.cost
        BY <1>1, <1>2, <1>4
      <4> QED BY <1>4, <1>5, <4>1, <4>2
    <3>2. CASE id # report.id
      <4>1. credited'[id] = credited[id] /\ (id \in applied' <=> id \in applied)
        BY <1>3, <1>4, <1>8, <1>9, <3>2
      <4>2. credited[id] \in Nat /\ credited[id] <= ledger.cost
        BY <1>8 DEF SyncInv, Sync!AppliedOnce
      <4>3. credited[id] <= b.cost
        BY <1>1, <1>2, <1>4, <4>2
      <4> QED BY <4>1, <4>3 DEF SyncInv, Sync!AppliedOnce
    <3> QED BY <3>1, <3>2
  <2> QED BY <1>6, <2>1 DEF Sync!AppliedOnce
<1>12. Sync!NeverOverstates'
  BY <1>6 DEF SyncInv, Sync!NeverOverstates
<1>13. witnessed' \in [Valuers -> SUBSET Int] /\ \A t \in Valuers : Founded(t)'
  BY <1>2, <1>3, GrowthKeepsReadings
<1> QED BY <1>3, <1>6, <1>7, <1>10, <1>11, <1>12, <1>13 DEF SyncInv

LEMMA ResetKeepsSyncInv ==
  ASSUME Sync!AmountsAssumption, SyncInv, NEW amount \in Deposits, Sync!Reset(amount)
  PROVE  SyncInv'
<1>1. /\ ledger' = Sync!Fresh(amount) /\ deposit' = amount /\ amount \in Nat
      /\ applied' = {} /\ credited' = [id \in OrderIds |-> 0]
      /\ spoilt' = {t \in Valuers : readings[t] # Sync!Idle}
      /\ UNCHANGED <<readings, told>>
  BY DEF Sync!Reset, Sync!Book, Sync!AmountsAssumption
<1>2. Sync!TypeOK'
  BY <1>1 DEF SyncInv, Sync!TypeOK, Sync!Fresh, Sync!Idle
<1>3. (ledger.cash + ledger.cost = deposit)' /\ Sync!AppliedOnce' /\ Sync!NeverOverstates'
  BY <1>1 DEF SyncInv, Sync!Fresh, Sync!AppliedOnce, Sync!NeverOverstates
<1>4. \A t \in Valuers : Founded(t)'
  BY <1>1 DEF Founded, Sync!Idle
<1>5. witnessed' \in [Valuers -> SUBSET Int]
  <2> DEFINE b == Sync!Fresh(amount)
  <2>1. b \in Money
    BY <1>1 DEF Sync!Fresh, Money
  <2> HIDE DEF b
  <2>2. ASSUME NEW t \in Valuers, readings[t] # Sync!Idle
        PROVE  Sync!Valuation(b, readings[t]) \in Int
    BY <2>1, <2>2, ReadingAmounts DEF SyncInv
  <2>3. witnessed' = [t \in Valuers |-> IF readings[t] = Sync!Idle THEN witnessed[t]
                                         ELSE witnessed[t] \cup {Sync!Valuation(b, readings[t])}]
    BY DEF Sync!Reset, Sync!Book, b
  <2> QED BY <2>2, <2>3 DEF SyncInv
<1> QED BY <1>2, <1>3, <1>4, <1>5 DEF SyncInv

LEMMA StartKeepsSyncInv ==
  ASSUME Sync!AmountsAssumption, SyncInv, NEW t \in Valuers, NEW k \in {"equity", "pnl"},
         NEW price \in Paid, Sync!StartValuation(t, k, price)
  PROVE  SyncInv'
<1> DEFINE r == [kind |-> k, price |-> price, value |-> ledger.size * price]
<1>1. /\ readings' = [readings EXCEPT ![t] = r]
      /\ witnessed' = [witnessed EXCEPT ![t] = {Sync!Valuation(ledger, readings'[t])}]
      /\ told' = [told EXCEPT ![t] = "none"]
      /\ UNCHANGED <<ledger, applied, deposit, credited, spoilt>>
  BY DEF Sync!StartValuation
<1>2. ledger \in Money /\ price \in Nat
  BY DEF SyncInv, Sync!TypeOK, Money, Sync!AmountsAssumption
<1>3. ledger.size * price \in Nat
  BY <1>2 DEF Money
<1>4. r \in [kind : {"equity", "pnl"}, price : Paid, value : Nat]
  BY <1>3
<1>5. readings'[t] = r /\ \A u \in Valuers : u # t => readings'[u] = readings[u]
  BY <1>1 DEF SyncInv, Sync!TypeOK
<1>6. Sync!Valuation(ledger, r) \in Int
  BY <1>2, <1>3 DEF Sync!Valuation, Sync!Rest, Money
<1>7. r.value <= ledger.size * r.price
  BY <1>3
<1> HIDE DEF r
<1>8. Sync!TypeOK'
  BY <1>1, <1>4 DEF SyncInv, Sync!TypeOK, Sync!Idle
<1>9. witnessed' = [witnessed EXCEPT ![t] = {Sync!Valuation(ledger, r)}]
  BY <1>1, <1>5
<1>10. witnessed' \in [Valuers -> SUBSET Int]
  BY <1>6, <1>9 DEF SyncInv
<1>11. ASSUME NEW u \in Valuers
       PROVE  Founded(u)'
  <2>1. CASE u = t
    <3>1. Sync!Valuation(ledger, readings[u])' = Sync!Valuation(ledger, r)
      BY <1>1, <1>5, <2>1 DEF Sync!Valuation, Sync!Rest
    <3>2. witnessed'[u] = {Sync!Valuation(ledger, r)}
      BY <1>9, <2>1 DEF SyncInv
    <3> QED BY <1>1, <1>5, <1>7, <2>1, <3>1, <3>2 DEF Founded
  <2>2. CASE u # t
    <3>1. readings'[u] = readings[u] /\ witnessed'[u] = witnessed[u]
      BY <1>5, <1>9, <2>2 DEF SyncInv
    <3>2. Sync!Valuation(ledger, readings[u])' = Sync!Valuation(ledger, readings[u])
      BY <1>1, <3>1 DEF Sync!Valuation, Sync!Rest
    <3> QED BY <1>1, <3>1, <3>2 DEF SyncInv, Founded, Sync!Idle
  <2> QED BY <2>1, <2>2
<1>12. Sync!NeverOverstates'
  BY <1>1 DEF SyncInv, Sync!NeverOverstates, Sync!TypeOK
<1>13. Sync!AppliedOnce' /\ (ledger.cash + ledger.cost = deposit)'
  BY <1>1 DEF SyncInv, Sync!AppliedOnce
<1> QED BY <1>8, <1>10, <1>11, <1>12, <1>13 DEF SyncInv

\* The second read adds what the first left out, so the sum is at most one witnessed.
LEMMA FinishKeepsSyncInv ==
  ASSUME Sync!AmountsAssumption, SyncInv, NEW t \in Valuers, Sync!FinishValuation(t)
  PROVE  SyncInv'
<1> DEFINE amount == readings[t].value + Sync!Rest(ledger, readings[t].kind)
<1>1. /\ readings[t] # Sync!Idle
      /\ told' = [told EXCEPT ![t] = Sync!Compare(t, amount)]
      /\ readings' = [readings EXCEPT ![t] = Sync!Idle]
      /\ witnessed' = [witnessed EXCEPT ![t] = {}]
      /\ spoilt' = spoilt \ {t}
      /\ UNCHANGED <<ledger, applied, deposit, credited>>
  BY DEF Sync!FinishValuation
<1>2. Sync!Compare(t, amount) \in {"true", "low", "spoilt"}
  <2>1. CASE t \in spoilt
    BY <2>1 DEF Sync!Compare
  <2>2. CASE t \notin spoilt
    <3> DEFINE value == Sync!Valuation(ledger, readings[t])
    <3>1. ledger \in Money
      BY DEF SyncInv, Sync!TypeOK, Money
    <3>2. amount <= value
      <4>1. readings[t].value <= ledger.size * readings[t].price
        BY <1>1, <2>2 DEF SyncInv, Founded
      <4>2. /\ readings[t].value \in Nat /\ Sync!Rest(ledger, readings[t].kind) \in Int
            /\ ledger.size * readings[t].price \in Nat
        BY <1>1, <3>1, ReadingAmounts DEF SyncInv
      <4> QED BY <4>1, <4>2 DEF Sync!Valuation
    <3>3. value \in witnessed[t] /\ value \in Int
      BY <1>1, <2>2, <3>1, ReadingAmounts DEF SyncInv, Founded
    <3>4. amount \in Int
      BY <1>1, <3>1, ReadingAmounts DEF SyncInv
    <3> HIDE DEF amount, value
    <3>5. ~ \A v \in witnessed[t] : amount > v
      BY <3>2, <3>3, <3>4
    <3> QED BY <2>2, <3>5 DEF Sync!Compare
  <2> QED BY <2>1, <2>2
<1> HIDE DEF amount
<1>3. Sync!TypeOK'
  BY <1>1, <1>2 DEF SyncInv, Sync!TypeOK, Sync!Idle
<1>4. Sync!NeverOverstates'
  BY <1>1, <1>2 DEF SyncInv, Sync!NeverOverstates, Sync!TypeOK
<1>5. witnessed' \in [Valuers -> SUBSET Int]
  BY <1>1 DEF SyncInv
<1>6. ASSUME NEW u \in Valuers
      PROVE  Founded(u)'
  <2>1. CASE u = t
    BY <1>1, <2>1 DEF Founded, SyncInv, Sync!TypeOK, Sync!Idle
  <2>2. CASE u # t
    <3>1. readings'[u] = readings[u] /\ witnessed'[u] = witnessed[u] /\ (u \in spoilt' <=> u \in spoilt)
      BY <1>1, <2>2 DEF SyncInv, Sync!TypeOK
    <3>2. Sync!Valuation(ledger, readings[u])' = Sync!Valuation(ledger, readings[u])
      BY <1>1, <3>1 DEF Sync!Valuation, Sync!Rest
    <3> QED BY <1>1, <3>1, <3>2 DEF SyncInv, Founded, Sync!Idle
  <2> QED BY <2>1, <2>2
<1>7. Sync!AppliedOnce' /\ (ledger.cash + ledger.cost = deposit)'
  BY <1>1 DEF SyncInv, Sync!AppliedOnce
<1> QED BY <1>3, <1>4, <1>5, <1>6, <1>7 DEF SyncInv

LEMMA SyncIsInvariant == Spec => []SyncInv
<1>1. SyncInv /\ [Next]_vars => SyncInv'
  <2> SUFFICES ASSUME SyncInv, [Next]_vars
               PROVE  SyncInv'
    OBVIOUS
  <2>0. Sync!AmountsAssumption
    BY PartsAssumption
  <2>1. CASE Sync!Next
    <3>1. ASSUME NEW batch \in Sync!Batches, Sync!ApplyMany(batch)
          PROVE  SyncInv'
      BY <2>0, <3>1, BatchesAreSequences, BatchKeepsSyncInv
    <3>2. ASSUME NEW report \in Sync!Reports, Sync!Apply(report)
          PROVE  SyncInv'
      <4>1. <<report>> \in Seq(Sync!Reports)
        OBVIOUS
      <4> QED BY <2>0, <3>2, <4>1, BatchKeepsSyncInv DEF Sync!Apply
    <3>3. ASSUME NEW report \in Sync!Reports, Sync!ApplyOnce(report)
          PROVE  SyncInv'
      BY <2>0, <3>3, OnceKeepsSyncInv
    <3>4. ASSUME NEW t \in Valuers, NEW k \in {"equity", "pnl"}, NEW price \in Paid,
                 Sync!StartValuation(t, k, price)
          PROVE  SyncInv'
      BY <2>0, <3>4, StartKeepsSyncInv
    <3>5. ASSUME NEW t \in Valuers, Sync!FinishValuation(t)
          PROVE  SyncInv'
      BY <2>0, <3>5, FinishKeepsSyncInv
    <3>6. ASSUME NEW amount \in Deposits, Sync!Reset(amount)
          PROVE  SyncInv'
      BY <2>0, <3>6, ResetKeepsSyncInv
    <3> QED BY <2>1, <3>1, <3>2, <3>3, <3>4, <3>5, <3>6 DEF Sync!Next
  <2>2. CASE UNCHANGED Sync!vars
    BY <2>2 DEF SyncInv, Founded, Sync!vars, Sync!historyVars, Sync!TypeOK, Sync!AppliedOnce,
                Sync!NeverOverstates, Sync!Valuation, Sync!Rest, Sync!Idle
  <2> QED BY <2>1, <2>2, SyncMoves
<1> QED BY <1>1, SyncStarts, PTL DEF Spec

\* No sequence of single, batched, idempotent and rejected reports makes or loses
\* money, and none makes the cash negative.
THEOREM AlwaysBooksBalance == Spec => []BooksBalance
<1>1. SyncInv => BooksBalance
  BY DEF SyncInv, BooksBalance, Sync!BooksBalance, Sync!TypeOK
<1> QED BY <1>1, SyncIsInvariant, PTL

\* apply_once books an order at most once, and has_applied says so.
THEOREM AlwaysAppliedOnce == Spec => []AppliedOnce
<1>1. SyncInv => AppliedOnce
  BY DEF SyncInv, AppliedOnce
<1> QED BY <1>1, SyncIsInvariant, PTL

\* A valuation torn by executions never exceeds everything the portfolio was worth meanwhile.
THEOREM AlwaysNeverOverstates == Spec => []NeverOverstates
<1>1. SyncInv => NeverOverstates
  BY DEF SyncInv, NeverOverstates
<1> QED BY <1>1, SyncIsInvariant, PTL

-----------------------------------------------------------------------------
(***************************************************************************)
(* The router.                                                             *)
(***************************************************************************)
LEMMA RouterMoves == [Next]_vars => [Router!Next]_(Router!vars)
BY DEF Next, vars, deskVars, routerVars, Router!vars

\* The same numbers have a greatest element below any bound.
LEMMA GreatestBelow ==
  ASSUME NEW n \in Nat, NEW T \in SUBSET (0..n), T # {}
  PROVE  \E m \in T : \A k \in T : k <= m
<1> DEFINE D == {n - k : k \in T}
<1>1. D \in SUBSET Nat /\ D # {}
  <2>1. \A k \in T : k \in Int /\ 0 <= k /\ k <= n
    OBVIOUS
  <2>2. \A k \in T : n - k \in Nat
    BY <2>1
  <2> QED BY <2>2
<1>2. \A k \in T : n - k \in D
  OBVIOUS
<1>3. \A x \in D : \E k \in T : x = n - k
  OBVIOUS
<1> HIDE DEF D
<1>4. PICK x \in D : \A y \in D : x <= y
  BY <1>1, LeastNumber
<1>5. PICK m \in T : x = n - m
  BY <1>3
<1>6. ASSUME NEW k \in T
      PROVE  k <= m
  <2>1. n - m <= n - k
    BY <1>2, <1>4, <1>5
  <2> QED BY <2>1
<1> QED BY <1>6

OfferedAs(candidates, preferred, route) ==
  LET open == Router!Available(candidates)
  IN \E i \in open :
       /\ candidates[i].name = route
       /\ (\E j \in open : candidates[j].name = preferred) => route = preferred
       /\ route # preferred =>
            \A j \in open : IF j < i THEN candidates[j].priority < candidates[i].priority
                            ELSE candidates[j].priority <= candidates[i].priority

LEMMA SelectionIsRight ==
  ASSUME Router!BoundsAssumption, NEW candidates \in Router!CandidateLists, NEW preferred,
         Router!Available(candidates) # {}
  PROVE  /\ OfferedAs(candidates, preferred, Router!Selected(candidates, preferred))
         /\ Router!Selected(candidates, preferred) \in Names
<1> DEFINE open == Router!Available(candidates)
           best == {i \in open : \A j \in open : candidates[i].priority >= candidates[j].priority}
           first == CHOOSE i \in best : \A j \in best : i <= j
           ranks == {candidates[i].priority : i \in open}
           route == Router!Selected(candidates, preferred)
<1>1. PICK n \in 1..MaxCandidates : candidates \in [1..n -> Router!Candidates]
  BY DEF Router!CandidateLists
<1>2. open \in SUBSET (1..n) /\ open # {}
  BY <1>1 DEF Router!Available
<1>3. \A i \in open : candidates[i].name \in Names /\ candidates[i].priority \in 0..MaxPriority
  BY <1>1, <1>2 DEF Router!Candidates
<1>4. route = IF \E i \in open : candidates[i].name = preferred THEN preferred ELSE candidates[first].name
  BY DEF Router!Selected
<1>5. ranks \in SUBSET (0..MaxPriority) /\ ranks # {} /\ \A i \in open : candidates[i].priority \in ranks
  BY <1>2, <1>3
<1>6. PICK top \in ranks : \A k \in ranks : k <= top
  <2> HIDE DEF ranks
  <2> QED BY <1>5, GreatestBelow DEF Router!BoundsAssumption
<1>7. PICK t \in open : top = candidates[t].priority
  BY <1>6
<1>8. best \in SUBSET Nat /\ t \in best
  <2>1. \A j \in open : candidates[j].priority <= top /\ candidates[j].priority \in Nat /\ top \in Nat
    BY <1>3, <1>5, <1>6, <1>7
  <2> QED BY <1>2, <1>7, <2>1
<1>9. first \in best /\ \A j \in best : first <= j
  <2> HIDE DEF best
  <2>1. \E i \in best : \A j \in best : i <= j
    BY <1>8, LeastNumber
  <2> QED BY <2>1
<1> HIDE DEF first, ranks
<1>10. ASSUME NEW j \in open
       PROVE  IF j < first THEN candidates[j].priority < candidates[first].priority
              ELSE candidates[j].priority <= candidates[first].priority
  <2>1. /\ first \in open /\ candidates[j].priority \in Nat /\ candidates[first].priority \in Nat
        /\ j \in Nat /\ first \in Nat
    BY <1>2, <1>3, <1>9
  <2>2. candidates[j].priority <= candidates[first].priority
    BY <1>9, <2>1
  <2>3. ASSUME j < first, ~ (candidates[j].priority < candidates[first].priority)
        PROVE  FALSE
    <3>1. candidates[j].priority = candidates[first].priority
      BY <2>1, <2>2, <2>3
    <3>2. j \in best
      BY <1>9, <3>1
    <3> QED BY <1>9, <2>1, <2>3, <3>2
  <2> QED BY <2>2, <2>3
<1>11. CASE \E i \in open : candidates[i].name = preferred
  BY <1>3, <1>4, <1>11 DEF OfferedAs
<1>12. CASE ~ \E i \in open : candidates[i].name = preferred
  <2>1. route = candidates[first].name /\ first \in open
    BY <1>4, <1>9, <1>12
  <2> HIDE DEF open, best, route
  <2> QED BY <1>3, <1>10, <1>12, <2>1 DEF OfferedAs, open, route
<1> QED BY <1>11, <1>12

LEMMA RightRouteIs ==
  \A c \in Callers : Router!RightRoute(c) <=> OfferedAs(calls[c].candidates, calls[c].preferred, calls[c].route)
BY DEF Router!RightRoute, OfferedAs

LEMMA RouterStarts == ASSUME Init PROVE RouterInv
BY DEF Init, Router!Init, RouterInv, CallsOfCallers, Router!Idle

\* Registering changes what is found from now on, and the calls under way hold it.
LEMMA SetRouteKeepsRouterInv ==
  ASSUME RouterInv, NEW name \in Names, NEW executor \in Executors \cup {None},
         Router!SetRoute(name, executor)
  PROVE  RouterInv'
<1>1. /\ routes' = [routes EXCEPT ![name] = executor] /\ calls' = calls
      /\ held' = [c \in Callers |-> IF Router!During(c, name) THEN held[c] \cup {executor} ELSE held[c]]
  BY DEF Router!SetRoute
<1>2. held' \in [Callers -> SUBSET (Executors \cup {None})] /\ routes' \in [Names -> Executors \cup {None}]
  BY <1>1 DEF RouterInv
<1>3. ASSUME NEW c \in Callers
      PROVE  /\ calls[c].step = "selected" => routes'[calls[c].route] \in held'[c]
             /\ calls[c].step \in {"looked_up", "ran"} => calls[c].executor \in held'[c]
  BY <1>1 DEF RouterInv, Router!During, Router!Busy
<1>4. \A c \in Callers : Router!RightRoute(c)' <=> Router!RightRoute(c)
  BY <1>1 DEF Router!RightRoute
<1> QED BY <1>1, <1>2, <1>3, <1>4 DEF RouterInv

LEMMA ClearKeepsRouterInv == ASSUME RouterInv, Router!Clear PROVE RouterInv'
<1>1. /\ routes' = [name \in Names |-> None] /\ calls' = calls
      /\ held' = [c \in Callers |-> IF Router!Busy(c) THEN held[c] \cup {None} ELSE held[c]]
  BY DEF Router!Clear
<1>2. held' \in [Callers -> SUBSET (Executors \cup {None})] /\ routes' \in [Names -> Executors \cup {None}]
  BY <1>1 DEF RouterInv
<1>3. ASSUME NEW c \in Callers
      PROVE  /\ calls[c].step = "selected" => routes'[calls[c].route] \in held'[c]
             /\ calls[c].step \in {"looked_up", "ran"} => calls[c].executor \in held'[c]
  BY <1>1 DEF RouterInv, Router!Busy
<1>4. \A c \in Callers : Router!RightRoute(c)' <=> Router!RightRoute(c)
  BY <1>1 DEF Router!RightRoute
<1> QED BY <1>1, <1>2, <1>3, <1>4 DEF RouterInv

LEMMA SelectKeepsRouterInv ==
  ASSUME Router!BoundsAssumption, RouterInv, NEW c \in Callers, Router!Select(c)
  PROVE  RouterInv'
<1>1. PICK candidates \in Router!CandidateLists, preferred \in Names \cup {None} :
        /\ Router!Available(candidates) # {}
        /\ LET route == Router!Selected(candidates, preferred)
           IN /\ calls' = [calls EXCEPT ![c] = [step |-> "selected", candidates |-> candidates,
                             preferred |-> preferred, route |-> route, executor |-> None]]
              /\ held' = [held EXCEPT ![c] = {routes[route]}]
  BY DEF Router!Select
<1> DEFINE route == Router!Selected(candidates, preferred)
           call == [step |-> "selected", candidates |-> candidates,
                    preferred |-> preferred, route |-> route, executor |-> None]
<1>2. OfferedAs(candidates, preferred, route) /\ route \in Names
  BY <1>1, SelectionIsRight
<1> HIDE DEF route
<1>3. calls' = [calls EXCEPT ![c] = call] /\ held' = [held EXCEPT ![c] = {routes[route]}] /\ routes' = routes
  BY <1>1 DEF route, Router!Select
<1>4. call \in CallsOfCallers
  BY <1>2 DEF CallsOfCallers
<1>5. calls' \in [Callers -> CallsOfCallers] /\ held' \in [Callers -> SUBSET (Executors \cup {None})]
  BY <1>2, <1>3, <1>4 DEF RouterInv
<1>6. calls'[c] = call /\ held'[c] = {routes[route]}
  BY <1>3 DEF RouterInv
<1>7. \A d \in Callers : d # c => calls'[d] = calls[d] /\ held'[d] = held[d]
  BY <1>3 DEF RouterInv
<1>8. ASSUME NEW d \in Callers
      PROVE  /\ calls'[d].step # "none" => calls'[d].route \in Names /\ Router!RightRoute(d)'
             /\ calls'[d].step = "selected" => routes'[calls'[d].route] \in held'[d]
             /\ calls'[d].step \in {"looked_up", "ran"} => calls'[d].executor \in held'[d]
  <2>1. CASE d = c
    <3>1. Router!RightRoute(d)'
      BY <1>2, <1>6, <2>1 DEF Router!RightRoute, OfferedAs
    <3> QED BY <1>2, <1>3, <1>6, <2>1, <3>1
  <2>2. CASE d # c
    <3>1. Router!RightRoute(d)' <=> Router!RightRoute(d)
      BY <1>7, <2>2 DEF Router!RightRoute
    <3> QED BY <1>3, <1>7, <2>2, <3>1 DEF RouterInv
  <2> QED BY <2>1, <2>2
<1> QED BY <1>3, <1>5, <1>8 DEF RouterInv

LEMMA CallKeepsRouterInv ==
  ASSUME RouterInv, NEW c \in Callers, Router!LookUp(c) \/ Router!Run(c)
  PROVE  RouterInv'
<1>1. PICK s \in {"looked_up", "ran"}, e \in Executors \cup {None} :
        /\ calls[c].step \in {"selected", "looked_up"} /\ e \in held[c]
        /\ calls' = [calls EXCEPT ![c] = [calls[c] EXCEPT !.step = s, !.executor = e]]
        /\ UNCHANGED <<routes, held>>
  <2>1. CASE Router!LookUp(c)
    <3>1. calls[c].step = "selected" /\ calls[c].route \in Names /\ c \in DOMAIN calls
      BY <2>1 DEF Router!LookUp, RouterInv
    <3>2. calls' = [calls EXCEPT ![c] = [calls[c] EXCEPT !.step = "looked_up", !.executor = routes[calls[c].route]]]
      BY <2>1, <3>1 DEF Router!LookUp, RouterInv, CallsOfCallers
    <3> QED BY <2>1, <3>1, <3>2 DEF Router!LookUp, RouterInv
  <2>2. CASE Router!Run(c)
    <3>1. calls[c].step = "looked_up" /\ calls[c].executor \in Executors \cup {None} /\ c \in DOMAIN calls
      BY <2>2 DEF Router!Run, RouterInv, CallsOfCallers
    <3>2. calls' = [calls EXCEPT ![c] = [calls[c] EXCEPT !.step = "ran", !.executor = calls[c].executor]]
      BY <2>2, <3>1 DEF Router!Run, RouterInv, CallsOfCallers
    <3> QED BY <2>2, <3>1, <3>2 DEF Router!Run, RouterInv
  <2> QED BY <2>1, <2>2
<1> DEFINE call == [calls[c] EXCEPT !.step = s, !.executor = e]
<1>2. /\ call \in CallsOfCallers /\ call.step = s /\ call.executor = e
      /\ call.candidates = calls[c].candidates /\ call.preferred = calls[c].preferred /\ call.route = calls[c].route
  BY DEF RouterInv, CallsOfCallers
<1> HIDE DEF call
<1>3. calls' = [calls EXCEPT ![c] = call] /\ calls' \in [Callers -> CallsOfCallers]
  BY <1>1, <1>2 DEF RouterInv, call
<1>4. calls'[c] = call /\ \A d \in Callers : d # c => calls'[d] = calls[d]
  BY <1>3 DEF RouterInv
<1>5. ASSUME NEW d \in Callers
      PROVE  /\ calls'[d].step # "none" => calls'[d].route \in Names /\ Router!RightRoute(d)'
             /\ calls'[d].step = "selected" => routes'[calls'[d].route] \in held'[d]
             /\ calls'[d].step \in {"looked_up", "ran"} => calls'[d].executor \in held'[d]
  <2>1. Router!RightRoute(d)' <=> Router!RightRoute(d)
    BY <1>2, <1>4 DEF Router!RightRoute
  <2>2. CASE d = c
    BY <1>1, <1>2, <1>4, <2>1, <2>2 DEF RouterInv
  <2>3. CASE d # c
    BY <1>1, <1>4, <2>1, <2>3 DEF RouterInv
  <2> QED BY <2>2, <2>3
<1> QED BY <1>1, <1>3, <1>5 DEF RouterInv

LEMMA ReturnKeepsRouterInv ==
  ASSUME RouterInv, NEW c \in Callers, Router!Return(c)
  PROVE  RouterInv'
<1>1. /\ calls' = [calls EXCEPT ![c] = Router!Idle] /\ held' = [held EXCEPT ![c] = {}]
      /\ routes' = routes /\ Router!Idle \in CallsOfCallers /\ Router!Idle.step = "none"
  BY DEF Router!Return, Router!Idle, CallsOfCallers
<1>2. calls' \in [Callers -> CallsOfCallers] /\ held' \in [Callers -> SUBSET (Executors \cup {None})]
  BY <1>1 DEF RouterInv
<1>3. ASSUME NEW d \in Callers
      PROVE  /\ calls'[d].step # "none" => calls'[d].route \in Names /\ Router!RightRoute(d)'
             /\ calls'[d].step = "selected" => routes'[calls'[d].route] \in held'[d]
             /\ calls'[d].step \in {"looked_up", "ran"} => calls'[d].executor \in held'[d]
  <2>1. CASE d = c
    BY <1>1, <2>1 DEF RouterInv
  <2>2. CASE d # c
    <3>1. calls'[d] = calls[d] /\ held'[d] = held[d]
      BY <1>1, <2>2 DEF RouterInv
    <3>2. Router!RightRoute(d)' <=> Router!RightRoute(d)
      BY <3>1 DEF Router!RightRoute
    <3> QED BY <1>1, <3>1, <3>2 DEF RouterInv
  <2> QED BY <2>1, <2>2
<1> QED BY <1>1, <1>2, <1>3 DEF RouterInv

LEMMA RouterIsInvariant == Spec => []RouterInv
<1>1. RouterInv /\ [Next]_vars => RouterInv'
  <2> SUFFICES ASSUME RouterInv, [Next]_vars
               PROVE  RouterInv'
    OBVIOUS
  <2>0. Router!BoundsAssumption
    BY PartsAssumption
  <2>1. CASE Router!Next
    <3>1. ASSUME NEW name \in Names, Router!Unregister(name)
          PROVE  RouterInv'
      BY <3>1, SetRouteKeepsRouterInv DEF Router!Unregister
    <3>2. ASSUME NEW name \in Names, NEW executor \in Executors, Router!Register(name, executor)
          PROVE  RouterInv'
      BY <3>2, SetRouteKeepsRouterInv DEF Router!Register
    <3>3. ASSUME NEW c \in Callers, Router!Select(c)
          PROVE  RouterInv'
      BY <2>0, <3>3, SelectKeepsRouterInv
    <3>4. ASSUME NEW c \in Callers, Router!LookUp(c) \/ Router!Run(c)
          PROVE  RouterInv'
      BY <3>4, CallKeepsRouterInv
    <3>5. ASSUME NEW c \in Callers, Router!Return(c)
          PROVE  RouterInv'
      BY <3>5, ReturnKeepsRouterInv
    <3> QED BY <2>1, <3>1, <3>2, <3>3, <3>4, <3>5, ClearKeepsRouterInv DEF Router!Next
  <2>2. CASE UNCHANGED Router!vars
    BY <2>2 DEF RouterInv, Router!vars, Router!RightRoute
  <2> QED BY <2>1, <2>2, RouterMoves
<1> QED BY <1>1, RouterStarts, PTL DEF Spec

-----------------------------------------------------------------------------
(***************************************************************************)
(* The execution manager.                                                  *)
(***************************************************************************)
LEMMA ManagerMoves == [Next]_vars => [Manager!Next]_(Manager!vars)
BY DEF Next, vars, deskVars, Manager!vars

LEMMA ItemsAreSequences == \A items \in Manager!Batches : items \in Seq(Offered)
<1> SUFFICES ASSUME NEW n \in 0..MaxBatch, NEW items \in [1..n -> Offered]
             PROVE  items \in Seq(Offered)
  BY DEF Manager!Batches, Offered
<1>1. n \in Nat
  OBVIOUS
<1> QED BY <1>1, SeqDef

LEMMA ManagerStarts == ASSUME Init PROVE ManagerInv
BY DEF Init, Manager!Init, Manager!Idle, ManagerInv, Batch, Sending, Manager!WellFormed, Manager!Running

\* A step gives one thread's batch a new value, of which Sending says all that counts.
LEMMA BatchStep ==
  ASSUME ManagerInv, NEW b \in Submitters, NEW w \in Batch, work' = [work EXCEPT ![b] = w],
         Sending(b)'
  PROVE  ManagerInv'
<1>1. ASSUME NEW c \in Submitters, c # b
      PROVE  Sending(c)'
  <2>1. work'[c] = work[c]
    BY <1>1 DEF ManagerInv
  <2>2. Manager!Running(c)' <=> Manager!Running(c)
    BY <2>1 DEF Manager!Running
  <2>3. Manager!WellFormed(work[c].items)' <=> Manager!WellFormed(work[c].items)
    BY <2>1 DEF Manager!WellFormed
  <2>4. Sending(c)
    BY DEF ManagerInv
  <2> QED BY <2>1, <2>2, <2>3, <2>4 DEF Sending
<1> QED BY <1>1 DEF ManagerInv

LEMMA StartKeepsManagerInv ==
  ASSUME ManagerInv, NEW b \in Submitters, NEW m \in {"many", "lazy"}, NEW items \in Seq(Offered),
         Manager!Start(b, m, items)
  PROVE  ManagerInv'
<1> DEFINE good == Manager!WellFormed(items)
           w == [Manager!Idle EXCEPT !.items = items, !.mode = IF good THEN m ELSE "closed", !.raised = ~good]
<1>1. work' = [work EXCEPT ![b] = w]
  BY DEF Manager!Start
<1>2. /\ w \in Batch
      /\ w.items = items /\ w.sent = <<>> /\ w.results = <<>>
      /\ w.mode = IF good THEN m ELSE "closed"
      /\ w.raised <=> ~good
  <2>1. Manager!Idle \in Batch /\ Manager!Idle.sent = <<>> /\ Manager!Idle.results = <<>>
    BY DEF Manager!Idle, Batch
  <2>2. ASSUME NEW g \in {"many", "lazy", "closed"}, NEW h \in BOOLEAN,
               NEW v, v = [Manager!Idle EXCEPT !.items = items, !.mode = g, !.raised = h]
        PROVE  /\ v \in Batch /\ v.items = items /\ v.mode = g /\ v.raised = h
               /\ v.sent = <<>> /\ v.results = <<>>
    BY <2>1, <2>2 DEF Batch
  <2>4. CASE good
    <3>1. w = [Manager!Idle EXCEPT !.items = items, !.mode = m, !.raised = FALSE]
      BY <2>4, Zenon
    <3>2. /\ w \in Batch /\ w.items = items /\ w.mode = m /\ w.raised = FALSE
          /\ w.sent = <<>> /\ w.results = <<>>
      <4> HIDE DEF w
      <4> QED BY <2>2, <3>1
    <3> HIDE DEF w
    <3> QED BY <2>4, <3>2
  <2>5. CASE ~good
    <3>1. w = [Manager!Idle EXCEPT !.items = items, !.mode = "closed", !.raised = TRUE]
      BY <2>5, Zenon
    <3>2. /\ w \in Batch /\ w.items = items /\ w.mode = "closed" /\ w.raised = TRUE
          /\ w.sent = <<>> /\ w.results = <<>>
      <4> HIDE DEF w
      <4> QED BY <2>2, <3>1
    <3> HIDE DEF w
    <3> QED BY <2>5, <3>2
  <2> QED BY <2>4, <2>5
<1>3. work'[b] = w
  BY <1>1 DEF ManagerInv
<1>4. Manager!WellFormed(work[b].items)' <=> good
  BY <1>3 DEF Manager!WellFormed
<1>5. Sending(b)'
  <2>1. /\ work'[b].items = items /\ work'[b].sent = <<>> /\ work'[b].results = <<>>
        /\ work'[b].mode = IF good THEN m ELSE "closed"
        /\ work'[b].raised <=> ~good
    BY <1>2, <1>3
  <2>2. Len(work'[b].sent) = 0 /\ Len(work'[b].results) = 0 /\ Len(work'[b].items) \in Nat
    BY <2>1
  <2>3. Manager!Running(b)' <=> good
    BY <2>1 DEF Manager!Running
  <2>4. good => ~ work'[b].raised
    BY <2>1
  <2> HIDE DEF good
  <2> QED BY <1>4, <2>1, <2>2, <2>3, <2>4 DEF Sending
<1> QED BY <1>1, <1>2, <1>5, BatchStep

LEMMA SentKeepsManagerInv ==
  ASSUME ManagerInv, NEW b \in Submitters,
         Manager!Raised(b) \/ \E out \in Manager!Outcomes : Manager!Answered(b, out)
  PROVE  ManagerInv'
<1> DEFINE w == work[b]
           next == w.items[Len(w.sent) + 1]
<1>1. /\ w \in Batch /\ Sending(b)
      /\ w.mode \in {"many", "lazy"} /\ Len(w.sent) < Len(w.items)
  BY DEF ManagerInv, Manager!Raised, Manager!Answered, Manager!Running, Manager!Unsent
<1>2. /\ w.items \in Seq(Offered) /\ w.sent \in Seq(Offered) /\ w.results \in Seq(Manager!Outcomes)
      /\ w.raised \in BOOLEAN
  BY <1>1 DEF Batch
<1>3. next \in Offered
  BY <1>1, <1>2
<1>4. PICK r \in Seq(Manager!Outcomes), m \in {"many", "lazy", "closed"}, x \in BOOLEAN :
        /\ work' = [work EXCEPT ![b] = [w EXCEPT !.sent = Append(w.sent, next), !.results = r,
                                                !.mode = m, !.raised = x]]
        /\ \/ x = FALSE /\ Len(r) = Len(w.results) + 1
           \/ x = TRUE /\ m = "closed" /\ Len(r) \in {0, Len(w.results)}
  <2>1. ASSUME NEW out \in Manager!Outcomes, Manager!Answered(b, out)
        PROVE  work' = [work EXCEPT ![b] = [w EXCEPT !.sent = Append(w.sent, next),
                          !.results = Append(w.results, out), !.mode = w.mode, !.raised = FALSE]]
    <3>1. w.raised = FALSE
      BY <1>1, <1>2 DEF Sending, Manager!Running
    <3>2. work' = [work EXCEPT ![b] = [w EXCEPT !.sent = Append(w.sent, next), !.results = Append(w.results, out)]]
      BY <1>1, <2>1 DEF Manager!Answered, Manager!Upcoming, ManagerInv, Batch
    <3>3. \A f, g : [w EXCEPT !.sent = f, !.results = g, !.mode = w.mode, !.raised = FALSE]
                     = [w EXCEPT !.sent = f, !.results = g]
      BY <1>1, <3>1 DEF Batch
    <3> QED BY <3>2, <3>3
  <2>2. ASSUME Manager!Raised(b)
        PROVE  work' = [work EXCEPT ![b] = [w EXCEPT !.sent = Append(w.sent, next),
                          !.results = IF w.mode = "many" THEN <<>> ELSE w.results,
                          !.mode = "closed", !.raised = TRUE]]
    BY <1>1, <2>2 DEF Manager!Raised, Manager!Upcoming, ManagerInv, Batch
  <2>3. \A out \in Manager!Outcomes : Append(w.results, out) \in Seq(Manager!Outcomes)
                                         /\ Len(Append(w.results, out)) = Len(w.results) + 1
    BY <1>2
  <2>4. <<>> \in Seq(Manager!Outcomes) /\ Len(<<>>) = 0
    OBVIOUS
  <2>5. CASE Manager!Raised(b)
    BY <1>2, <2>2, <2>4, <2>5
  <2>6. CASE \E out \in Manager!Outcomes : Manager!Answered(b, out)
    BY <1>1, <2>1, <2>3, <2>6
  <2> QED BY <2>5, <2>6
<1> DEFINE v == [w EXCEPT !.sent = Append(w.sent, next), !.results = r, !.mode = m, !.raised = x]
<1>5. /\ v.items = w.items /\ v.sent = Append(w.sent, next) /\ v.results = r /\ v.mode = m /\ v.raised = x
      /\ v \in Batch
  <2>1. /\ v.items = w.items /\ v.sent = Append(w.sent, next) /\ v.results = r /\ v.mode = m /\ v.raised = x
    BY <1>1 DEF Batch
  <2>2. Append(w.sent, next) \in Seq(Offered)
    BY <1>2, <1>3
  <2> HIDE DEF next
  <2>3. v \in Batch
    BY <1>1, <1>4, <2>2 DEF Batch
  <2> QED BY <2>1, <2>3
<1>6. work' = [work EXCEPT ![b] = v] /\ work'[b] = v
  BY <1>4 DEF ManagerInv
<1>7. Len(w.results) = Len(w.sent) /\ Manager!WellFormed(w.items)
  BY <1>1 DEF Sending, Manager!Running
<1>8. Manager!WellFormed(work[b].items)'
  BY <1>5, <1>6, <1>7 DEF Manager!WellFormed
<1> HIDE DEF v
<1>9. /\ Len(v.sent) = Len(w.sent) + 1 /\ Len(v.sent) <= Len(v.items)
      /\ \A i \in 1..Len(v.sent) : v.sent[i] = v.items[i]
  <2>1. \A i \in 1..Len(w.sent) : w.sent[i] = w.items[i]
    BY <1>1 DEF Sending
  <2> QED BY <1>1, <1>2, <1>3, <1>5, <2>1
<1>10. \/ Len(v.results) = Len(v.sent)
       \/ v.raised /\ Len(v.results) \in {0, Len(v.sent) - 1}
  BY <1>2, <1>4, <1>5, <1>7, <1>9
<1>11. Manager!Running(b)' => ~ v.raised
  BY <1>4, <1>5, <1>6 DEF Manager!Running
<1>12. Sending(b)'
  BY <1>6, <1>8, <1>9, <1>10, <1>11 DEF Sending
<1> QED BY <1>5, <1>6, <1>12, BatchStep

LEMMA FinishKeepsManagerInv ==
  ASSUME ManagerInv, NEW b \in Submitters, Manager!Finish(b)
  PROVE  ManagerInv'
<1> DEFINE v == [work[b] EXCEPT !.mode = "closed"]
<1>1. work' = [work EXCEPT ![b] = v] /\ work[b] \in Batch /\ Sending(b)
  BY DEF Manager!Finish, ManagerInv
<1>2. /\ v \in Batch /\ work'[b] = v /\ v.mode = "closed"
      /\ v.items = work[b].items /\ v.sent = work[b].sent /\ v.results = work[b].results
      /\ v.raised = work[b].raised
  BY <1>1 DEF Batch, ManagerInv
<1> HIDE DEF v
<1>3. ~ Manager!Running(b)'
  BY <1>2 DEF Manager!Running
<1>4. Manager!WellFormed(work[b].items)' <=> Manager!WellFormed(work[b].items)
  BY <1>2 DEF Manager!WellFormed
<1>5. Sending(b)'
  BY <1>1, <1>2, <1>3, <1>4 DEF Sending
<1> QED BY <1>1, <1>2, <1>5, BatchStep

LEMMA ManagerIsInvariant == Spec => []ManagerInv
<1>1. ManagerInv /\ [Next]_vars => ManagerInv'
  <2> SUFFICES ASSUME ManagerInv, [Next]_vars
               PROVE  ManagerInv'
    OBVIOUS
  <2>1. CASE Manager!Next
    <3>1. PICK b \in Submitters :
            \/ \E m \in {"many", "lazy"}, items \in Manager!Batches : Manager!Start(b, m, items)
            \/ \E out \in Manager!Outcomes : Manager!Answered(b, out)
            \/ Manager!Raised(b) \/ Manager!Finish(b)
      BY <2>1 DEF Manager!Next, Offered
    <3>2. ASSUME NEW m \in {"many", "lazy"}, NEW items \in Manager!Batches,
                 Manager!Start(b, m, items)
          PROVE  ManagerInv'
      BY <3>2, ItemsAreSequences, StartKeepsManagerInv
    <3> QED BY <3>1, <3>2, SentKeepsManagerInv, FinishKeepsManagerInv
  <2>2. CASE UNCHANGED Manager!vars
    BY <2>2 DEF ManagerInv, Manager!vars, Sending, Manager!Running, Manager!WellFormed
  <2> QED BY <2>1, <2>2, ManagerMoves
<1> QED BY <1>1, ManagerStarts, PTL DEF Spec

LEMMA SentIsPrefix ==
  ASSUME ManagerInv, NEW b \in Submitters
  PROVE  /\ Len(work[b].sent) <= Len(work[b].items)
         /\ work[b].sent = SubSeq(work[b].items, 1, Len(work[b].sent))
<1> DEFINE s == work[b].sent
           t == work[b].items
<1>1. /\ s \in Seq(Offered) /\ t \in Seq(Offered)
      /\ Len(s) <= Len(t) /\ \A i \in 1..Len(s) : s[i] = t[i]
  BY DEF ManagerInv, Batch, Sending
<1> HIDE DEF s, t
<1>2. s = SubSeq(t, 1, Len(s))
  BY <1>1
<1> QED BY <1>1, <1>2 DEF s, t

\* A call runs an executor registered during it, under the route that was to be taken;
\* the engine gets the requests of a batch in order, and none of a malformed one.
THEOREM AlwaysCoordinatorsAreFaithful == Spec => []CoordinatorsAreFaithful
<1>1. RouterInv => Router!OnlyRacesMisroute
  BY DEF RouterInv, Router!OnlyRacesMisroute, Router!Ran
<1>2. ManagerInv => Manager!NoLateSurprises
  <2> SUFFICES ASSUME ManagerInv, NEW b \in Submitters
               PROVE  /\ (\E i \in DOMAIN work[b].items : work[b].items[i] = Malformed) => work[b].sent = <<>>
                      /\ \/ Len(work[b].results) = Len(work[b].sent)
                         \/ work[b].raised /\ Len(work[b].results) \in {0, Len(work[b].sent) - 1}
    BY SentIsPrefix DEF Manager!NoLateSurprises
  <2> QED BY DEF ManagerInv, Sending, Manager!WellFormed
<1> QED BY <1>1, <1>2, RouterIsInvariant, ManagerIsInvariant, PTL DEF CoordinatorsAreFaithful

-----------------------------------------------------------------------------
(***************************************************************************)
(* The gates.                                                              *)
(***************************************************************************)
LEMMA GatesMove == [Next]_vars => [Gates!Next]_(Gates!vars)
BY DEF Next, vars, deskVars, otherVars, gateVars, Gates!vars

LEMMA Division ==
  ASSUME NEW a \in Nat, NEW b \in Nat \ {0}
  PROVE  a \div b \in Nat /\ a % b \in 0..(b - 1) /\ a = (a \div b) * b + (a % b)
OBVIOUS

Passed == Gates!Inputs \cup Gates!Sums

LEMMA InputsAreNumbers == ASSUME Gates!LimitsAssumption PROVE \A x \in Passed : x # Bad => x \in Int
BY DEF Gates!LimitsAssumption, Gates!Inputs, Gates!Sums, Passed

LEMMA ValidityMeans ==
  ASSUME Gates!LimitsAssumption, NEW x \in Passed
  PROVE  /\ Gates!Positive(x) <=> x \in Int /\ x > 0
         /\ Gates!NonNegative(x) <=> x \in Int /\ x >= 0
<1>1. x # Bad <=> x \in Int
  BY InputsAreNumbers DEF Gates!LimitsAssumption
<1> QED BY <1>1 DEF Gates!Positive, Gates!NonNegative

\* Less than the drawdown limit is lost just when more than the rest of the peak is
\* retained, and then it is said to be used up only when it is but for half a step.
LEMMA DrawdownMeans ==
  ASSUME Gates!LimitsAssumption, NEW peak \in Int, NEW current \in Int, peak > 0, current >= 0
  PROVE  /\ Gates!WithinDrawdown(peak, current) <=> Gates!Retained(peak, current)
         /\ Gates!RemainingDrawdown(peak, current) = 0 => Gates!HalfAStep(peak, current)
         /\ ~ Gates!WithinDrawdown(peak, current) => Gates!RemainingDrawdown(peak, current) = 0
<1> DEFINE n == MaxDrawdown.num
           d == MaxDrawdown.den
           lost == Gates!Drawdown(peak, current)
<1>1. n \in Nat \ {0} /\ d \in Nat \ {0} /\ n <= d
  BY DEF Gates!LimitsAssumption
<1>2. /\ Gates!WithinDrawdown(peak, current) <=> ~ (lost * d >= peak * n)
      /\ Gates!Retained(peak, current) <=> current * d > peak * (d - n)
      /\ Gates!Room(peak, current) = IF n * peak - d * lost < 0 THEN 0 ELSE n * peak - d * lost
  BY DEF Gates!WithinDrawdown, Gates!Reaches, Gates!Retained, Gates!Room, Gates!AtLeastZero
<1>3. lost = IF current >= peak THEN 0 ELSE peak - current
  BY DEF Gates!Drawdown
<1> HIDE DEF n, d, lost
<1>4. PICK pn \in Int, pd \in Int, cd \in Int, ld \in Int :
        /\ pn = peak * n /\ pd = peak * d /\ cd = current * d /\ ld = lost * d
  BY <1>1, <1>3
<1>5. pn > 0
  BY <1>1, <1>4, Product
<1>6. peak * (d - n) = pd - pn /\ n * peak = pn /\ d * lost = ld
  BY <1>1, <1>3, <1>4
<1> DEFINE room == Gates!Room(peak, current)
<1>7. /\ Gates!WithinDrawdown(peak, current) <=> Gates!Retained(peak, current)
      /\ ~ Gates!WithinDrawdown(peak, current) => room = 0
      /\ room \in Nat
  <2>1. CASE current >= peak
    <3>1. pd <= cd
      BY <1>1, <1>4, <2>1, Monotone
    <3>2. ld = 0
      BY <1>1, <1>3, <1>4, <2>1
    <3> QED BY <1>2, <1>4, <1>5, <1>6, <3>1, <3>2
  <2>2. CASE ~(current >= peak)
    <3>1. ld = pd - cd
      BY <1>1, <1>3, <1>4, <2>2
    <3> QED BY <1>2, <1>4, <1>5, <1>6, <3>1
  <2> QED BY <2>1, <2>2
<1> DEFINE x == DrawdownSteps * room
           w == MaxDrawdown.den * peak
           q == x \div w
           r == x % w
           z == IF 2 * r > w \/ (2 * r = w /\ q % 2 = 1) THEN q + 1 ELSE q
<1>8. x \in Nat /\ w \in Nat \ {0} /\ (room = 0 => x = 0)
  <2>1. DrawdownSteps \in Nat
    BY DEF Gates!LimitsAssumption
  <2>2. w \in Nat \ {0}
    BY <1>1, Product DEF d
  <2> HIDE DEF room
  <2> QED BY <1>7, <2>1, <2>2
<1>9. Gates!RemainingDrawdown(peak, current) = z /\ (Gates!HalfAStep(peak, current) <=> 2 * x <= w)
  BY DEF Gates!RemainingDrawdown, Gates!HalfAStep
<1> HIDE DEF room, x, w
<1>10. q \in Nat /\ r \in 0..(w - 1) /\ x = q * w + r
  BY <1>8, Division
<1> HIDE DEF q, r
<1>11. q = 0 => x = r
  BY <1>8, <1>10
<1>12. x = 0 => q = 0 /\ r = 0
  <2> SUFFICES ASSUME x = 0, q # 0
               PROVE  FALSE
    BY <1>10, <1>11
  <2>1. q * w \in Nat \ {0}
    BY <1>8, <1>10, Product
  <2> QED BY <1>10, <2>1
<1>13. z = 0 => q = 0 /\ ~(2 * r > w)
  BY <1>10
<1>14. z = 0 => 2 * x <= w
  BY <1>8, <1>10, <1>11, <1>13
<1>15. x = 0 => z = 0
  BY <1>8, <1>12
<1> QED BY <1>7, <1>8, <1>9, <1>14, <1>15

\* What the portfolio guard admits has room, and what has room it admits.
LEMMA AdmissionMeans ==
  ASSUME Gates!LimitsAssumption, NEW p \in Gates!Portfolios
  PROVE  /\ Gates!Admits(p) <=> Gates!HasRoom(p) /\ p.equity > 0
         /\ Gates!Admits(p) => /\ p.balance \in Int /\ p.equity \in Int /\ p.balance > 0 /\ p.equity > 0
                               /\ Gates!RemainingPositions(p) > 0
<1> DEFINE F == {"balance", "equity", "used_margin", "open_positions", "daily_loss", "total_risk"}
           room == p.used_margin * MaxMarginUsage.den < p.balance * MaxMarginUsage.num
<1>1. DOMAIN p = F /\ \A f \in F : p[f] \in Passed
  BY DEF Gates!Portfolios, Passed
<1>2. \A f \in F : p[f] # Bad <=> p[f] \in Int
  BY <1>1, InputsAreNumbers DEF Gates!LimitsAssumption
<1>3. {MaxPositions, MaxDailyLoss, MaxPortfolioRisk} \subseteq Int
  BY DEF Gates!LimitsAssumption
<1>4. MaxMarginUsage.num \in Nat /\ MaxMarginUsage.den \in Nat
  BY DEF Gates!LimitsAssumption
<1>5. p.used_margin \in Int /\ p.balance \in Int =>
        (room <=> ~ Gates!Reaches(p.used_margin, p.balance, MaxMarginUsage))
  <2> SUFFICES ASSUME p.used_margin \in Int, p.balance \in Int
               PROVE  room <=> ~ Gates!Reaches(p.used_margin, p.balance, MaxMarginUsage)
    OBVIOUS
  <2> DEFINE x == p.used_margin * MaxMarginUsage.den
             y == p.balance * MaxMarginUsage.num
  <2>1. x \in Int /\ y \in Int
    BY <1>4
  <2>2. (room <=> x < y) /\ (Gates!Reaches(p.used_margin, p.balance, MaxMarginUsage) <=> x >= y)
    BY DEF Gates!Reaches
  <2> HIDE DEF x, y, room
  <2> QED BY <2>1, <2>2
<1>6. p.used_margin \in Int /\ p.balance \in Int /\ p.used_margin >= 0 /\ p.balance >= 0 /\ room => p.balance > 0
  <2> SUFFICES ASSUME p.used_margin \in Int, p.used_margin >= 0, p.balance = 0, room
               PROVE  FALSE
    OBVIOUS
  <2>1. p.used_margin * MaxMarginUsage.den \in Nat
    BY <1>4
  <2>2. p.balance * MaxMarginUsage.num = 0
    BY <1>4
  <2> QED BY <2>1, <2>2
<1> HIDE DEF room
<1>7. Gates!HasRoom(p) <=> /\ \A f \in F : p[f] # Bad /\ p[f] >= 0
                           /\ p.open_positions + 1 <= MaxPositions
                           /\ p.daily_loss + 1 <= MaxDailyLoss /\ p.total_risk + 1 <= MaxPortfolioRisk
                           /\ room
  BY <1>1 DEF Gates!HasRoom, room
<1>8. Gates!Admits(p) => /\ \A f \in F : p[f] \in Int /\ p[f] >= 0
                         /\ p.balance > 0 /\ p.equity > 0
                         /\ p.open_positions < MaxPositions /\ p.daily_loss < MaxDailyLoss
                         /\ p.total_risk < MaxPortfolioRisk /\ room
  BY <1>1, <1>2, <1>5, ValidityMeans DEF Gates!Admits
<1>9. Gates!HasRoom(p) /\ p.equity > 0 => Gates!Admits(p)
  <2> SUFFICES ASSUME Gates!HasRoom(p), p.equity > 0
               PROVE  Gates!Admits(p)
    OBVIOUS
  <2>1. /\ p.balance \in Int /\ p.balance >= 0 /\ p.equity \in Int
        /\ p.used_margin \in Int /\ p.used_margin >= 0
        /\ p.open_positions \in Int /\ p.open_positions >= 0
        /\ p.daily_loss \in Int /\ p.daily_loss >= 0 /\ p.total_risk \in Int /\ p.total_risk >= 0
    BY <1>2, <1>7
  <2>2. p.balance > 0 /\ ~ Gates!Reaches(p.used_margin, p.balance, MaxMarginUsage)
    BY <1>5, <1>6, <1>7, <2>1
  <2>3. p.open_positions < MaxPositions /\ p.daily_loss < MaxDailyLoss /\ p.total_risk < MaxPortfolioRisk
    BY <1>3, <1>7, <2>1
  <2> QED BY <1>1, <2>1, <2>2, <2>3, ValidityMeans DEF Gates!Admits
<1>10. Gates!Admits(p) => Gates!HasRoom(p)
  BY <1>2, <1>3, <1>7, <1>8
<1>11. Gates!Admits(p) => Gates!RemainingPositions(p) > 0
  BY <1>3, <1>8 DEF Gates!RemainingPositions, Gates!AtLeastZero
<1> QED BY <1>8, <1>9, <1>10, <1>11

\* The first check that fails and the list of all of them agree.
LEMMA PassingMeans ==
  ASSUME Gates!LimitsAssumption, NEW t \in Gates!Trades
  PROVE  /\ Gates!Passes(t) <=> Gates!Admissible(t)
         /\ Gates!Passes(t) <=> Gates!Rejections(t) = {}
<1>1. /\ t.size \in Gates!Inputs /\ t.leverage \in Gates!Inputs
      /\ t.entry \in Gates!Inputs /\ t.stop \in Gates!Inputs /\ Gates!Inputs \subseteq Passed
  BY DEF Gates!Trades, Passed
<1>2. MaxPositionSize \in Int /\ MaxLeverage \in Int
  BY DEF Gates!LimitsAssumption
<1>3. Gates!Passes(t) <=> Gates!Admissible(t)
  BY <1>1, <1>2, ValidityMeans, InputsAreNumbers DEF Gates!Passes, Gates!Admissible, Gates!LimitsAssumption
<1>4. \A x \in Passed, y \in Int : Gates!Positive(x) => (~(x <= y) <=> x > y)
  BY ValidityMeans
<1>5. Gates!Passes(t) <=> Gates!Rejections(t) = {}
  BY <1>1, <1>2, <1>4 DEF Gates!Passes, Gates!Rejections
<1> QED BY <1>3, <1>5

\* A trade whose stop is reached is losing, on the side it stands on.
LEMMA StopMeans ==
  ASSUME Gates!LimitsAssumption, NEW t \in Gates!TradeStates, Gates!TradeValid(t)
  PROVE  Gates!StopReached(t) <=> Gates!Losing(t)
<1>1. /\ t.entry \in Int /\ t.current \in Int /\ t.stop \in Int
      /\ t.direction \in {"LONG", "SHORT", "unstated", "unknown"}
  BY ValidityMeans DEF Gates!TradeStates, Gates!Levels, Gates!TradeValid, Passed
<1>2. Gates!Direction(t) # "unknown"
  BY DEF Gates!TradeValid
<1> QED BY <1>1, <1>2 DEF Gates!StopReached, Gates!Losing, Gates!Direction

LEMMA GatesStart == ASSUME Init PROVE GateInv
<1>1. Gates!Init
  BY DEF Init
<1>2. ask \in Asks /\ ask.step = "idle"
  BY <1>1 DEF Gates!Init, Gates!Unasked, Asks, Stages, Shown, Decisions
<1> QED BY <1>1, <1>2 DEF Gates!Init, GateInv, Recorded, Past, Gates!DecisionsAreFounded, Gates!Done

\* A switch that moves is recorded, and moves only where it may still be read.
LEMMA SwitchKeepsGateInv ==
  ASSUME GateInv, Gates!Flip \/ \E b \in {"allows", "blocks", "raises"} : Gates!BreakerMoves(b)
  PROVE  GateInv'
<1> DEFINE B == Gates!Blocking(killed', breaker')
           seen1 == [ask EXCEPT !.ons = @ \cup B, !.offs = @ \cup (Switches \ B)]
<1>1. /\ killed' \in BOOLEAN /\ breaker' \in {"allows", "blocks", "raises"}
      /\ Gates!Watched(killed', breaker')
  BY DEF GateInv, Gates!Flip, Gates!BreakerMoves
<1>2. B \subseteq Switches
  BY DEF Gates!Blocking, Switches
<1> HIDE DEF B
<1>3. ask.step \in Gates!Switching /\ ask' = IF Gates!Asking THEN seen1 ELSE ask
  BY <1>1 DEF Gates!Watched, B, Switches
<1>4. ask.step \notin {"done", "portfolio", "trade"}
  BY <1>3 DEF Gates!Switching
<1>5. ask \in Asks
  BY DEF GateInv
<1>6. /\ ask' \in Asks /\ ask'.step = ask.step /\ ask'.input = ask.input
      /\ ask.offs \subseteq ask'.offs
      /\ Gates!Asking => ask'.ons = ask.ons \cup B /\ ask'.offs = ask.offs \cup (Switches \ B)
  BY <1>2, <1>3, <1>5 DEF Asks
<1>7. Recorded'
  BY <1>6 DEF Recorded, Gates!Asking, B
<1>8. Past'
  BY <1>4, <1>6 DEF GateInv, Past
<1>9. Gates!DecisionsAreFounded'
  BY <1>4, <1>6 DEF Gates!DecisionsAreFounded, Gates!Done
<1> QED BY <1>1, <1>6, <1>7, <1>8, <1>9 DEF GateInv

LEMMA StartKeepsGateInv ==
  ASSUME GateInv, NEW stage \in {"kill", "account_kill", "trade_kill"}, Gates!Start(stage)
  PROVE  GateInv'
<1> DEFINE B == Gates!Blocking(killed, breaker)
<1>1. B \subseteq Switches
  BY DEF Gates!Blocking, Switches
<1>2. /\ ask' = [Gates!Unasked EXCEPT !.step = stage, !.ons = B, !.offs = Switches \ B]
      /\ UNCHANGED <<killed, breaker>>
  BY DEF Gates!Start, Switches
<1> HIDE DEF B
<1>3. Gates!Unasked \in Asks
  BY DEF Gates!Unasked, Asks, Stages, Shown, Decisions
<1>4. ask' \in Asks /\ ask'.step = stage /\ ask'.ons = B /\ ask'.offs = Switches \ B
  BY <1>1, <1>2, <1>3 DEF Asks, Stages
<1>5. Recorded'
  BY <1>2, <1>4 DEF Recorded, B
<1>6. Past' /\ Gates!DecisionsAreFounded'
  BY <1>4 DEF Past, Gates!DecisionsAreFounded, Gates!Done
<1> QED BY <1>2, <1>4, <1>5, <1>6 DEF GateInv

\* An evaluation that goes on to a gate without a decision.
LEMMA SwitchGatesKeepGateInv ==
  ASSUME GateInv, Gates!KillGate \/ Gates!BreakerGate \/ Gates!AccountKillGate \/ Gates!TradeKillGate
  PROVE  GateInv'
<1>1. /\ ask \in Asks /\ killed \in BOOLEAN /\ Recorded /\ Past /\ UNCHANGED <<killed, breaker>>
      /\ ask.step \in {"kill", "breaker", "account_kill", "trade_kill"}
  BY DEF GateInv, Gates!KillGate, Gates!BreakerGate, Gates!AccountKillGate, Gates!TradeKillGate
<1>2. /\ killed => "kill" \in Gates!Blocking(killed, breaker)
      /\ ~killed => "kill" \in Switches \ Gates!Blocking(killed, breaker)
      /\ breaker # "allows" => "breaker" \in Gates!Blocking(killed, breaker)
      /\ breaker = "allows" => "breaker" \in Switches \ Gates!Blocking(killed, breaker)
  BY DEF Gates!Blocking, Switches
<1>3. PICK stage \in {"breaker", "portfolio", "account", "watch", "done"}, d \in Decisions :
        /\ ask' = [ask EXCEPT !.step = stage, !.decision = d]
        /\ stage = "done" => \/ d = "KILL_SWITCH" /\ "kill" \in ask.ons
                             \/ d = "CIRCUIT_BREAKER" /\ "breaker" \in ask.ons
        /\ stage = "breaker" => "kill" \in ask.offs /\ ask.step = "kill"
        /\ stage = "portfolio" => Switches \subseteq ask.offs
  <2>1. ASSUME NEW stage
        PROVE  [ask EXCEPT !.step = stage] = [ask EXCEPT !.step = stage, !.decision = ask.decision]
               /\ ask.decision \in Decisions
    BY <1>1 DEF Asks
  <2>2. CASE Gates!KillGate
    <3>1. CASE killed
      <4>1. ask' = [ask EXCEPT !.step = "done", !.decision = "KILL_SWITCH"] /\ "kill" \in ask.ons
        BY <1>1, <1>2, <2>2, <3>1 DEF Gates!KillGate, Gates!Decide, Recorded
      <4> QED BY <4>1 DEF Decisions
    <3>2. CASE ~killed
      <4>1. ask' = [ask EXCEPT !.step = "breaker"] /\ "kill" \in ask.offs /\ ask.step = "kill"
        BY <1>1, <1>2, <2>2, <3>2 DEF Gates!KillGate, Recorded
      <4> QED BY <2>1, <4>1
    <3> QED BY <3>1, <3>2
  <2>3. CASE Gates!BreakerGate
    <3>1. CASE breaker # "allows"
      <4>1. ask' = [ask EXCEPT !.step = "done", !.decision = "CIRCUIT_BREAKER"] /\ "breaker" \in ask.ons
        BY <1>1, <1>2, <2>3, <3>1 DEF Gates!BreakerGate, Gates!Decide, Recorded
      <4> QED BY <4>1 DEF Decisions
    <3>2. CASE breaker = "allows"
      <4>1. ask' = [ask EXCEPT !.step = "portfolio"] /\ Switches \subseteq ask.offs
        BY <1>1, <1>2, <2>3, <3>2 DEF Gates!BreakerGate, Recorded, Past, Switches
      <4> QED BY <2>1, <4>1
    <3> QED BY <3>1, <3>2
  <2>4. CASE Gates!AccountKillGate
    <3>1. CASE killed
      <4>1. ask' = [ask EXCEPT !.step = "done", !.decision = "KILL_SWITCH"] /\ "kill" \in ask.ons
        BY <1>1, <1>2, <2>4, <3>1 DEF Gates!AccountKillGate, Gates!Decide, Recorded
      <4> QED BY <4>1 DEF Decisions
    <3>2. CASE ~killed
      <4>1. ask' = [ask EXCEPT !.step = "account"]
        BY <1>1, <2>4, <3>2 DEF Gates!AccountKillGate
      <4> QED BY <2>1, <4>1
    <3> QED BY <3>1, <3>2
  <2>5. CASE Gates!TradeKillGate
    <3>1. CASE killed
      <4>1. ask' = [ask EXCEPT !.step = "done", !.decision = "KILL_SWITCH"] /\ "kill" \in ask.ons
        BY <1>1, <1>2, <2>5, <3>1 DEF Gates!TradeKillGate, Gates!Decide, Recorded
      <4> QED BY <4>1 DEF Decisions
    <3>2. CASE ~killed
      <4>1. ask' = [ask EXCEPT !.step = "watch"]
        BY <1>1, <2>5, <3>2 DEF Gates!TradeKillGate
      <4> QED BY <2>1, <4>1
    <3> QED BY <3>1, <3>2
  <2> QED BY <2>2, <2>3, <2>4, <2>5
<1>4. /\ ask' \in Asks /\ ask'.step = stage /\ ask'.decision = d
      /\ ask'.ons = ask.ons /\ ask'.offs = ask.offs
  BY <1>1, <1>3 DEF Asks, Stages
<1>5. Recorded' /\ Past'
  BY <1>1, <1>3, <1>4 DEF Recorded, Past
<1>6. Gates!DecisionsAreFounded'
  BY <1>3, <1>4 DEF Gates!DecisionsAreFounded, Gates!Done
<1> QED BY <1>1, <1>4, <1>5, <1>6 DEF GateInv

\* An evaluation that ends with what it was shown.
LEMMA Ending ==
  ASSUME GateInv, NEW input \in Shown, NEW d \in Decisions,
         ask' = [ask EXCEPT !.step = "done", !.input = input, !.decision = d],
         Gates!DecisionsAreFounded', UNCHANGED <<killed, breaker>>
  PROVE  GateInv'
<1>1. ask \in Asks
  BY DEF GateInv
<1>2. ask' \in Asks /\ ask'.step = "done"
  BY <1>1 DEF Asks, Stages
<1> QED BY <1>2 DEF GateInv, Recorded, Past

LEMMA EndFields ==
  ASSUME ask \in Asks, NEW input, NEW d,
         ask' = [ask EXCEPT !.step = "done", !.input = input, !.decision = d]
  PROVE  /\ ask'.step = "done" /\ ask'.input = input /\ ask'.decision = d
         /\ ask'.ons = ask.ons /\ ask'.offs = ask.offs
BY DEF Asks

LEMMA PortfolioGateKeepsGateInv ==
  ASSUME Gates!LimitsAssumption, GateInv, Gates!PortfolioGate
  PROVE  GateInv'
<1>1. PICK p \in Gates!Portfolios :
        ask' = LET end == [ask EXCEPT !.step = "done", !.input = <<p>>]
               IN IF ~ Gates!Admits(p) THEN [end EXCEPT !.decision = "PORTFOLIO_REJECTED"]
                  ELSE IF ~ Gates!WithinDrawdown(p.balance, p.equity) THEN [end EXCEPT !.decision = "DRAWDOWN_REJECTED"]
                  ELSE [end EXCEPT !.step = "trade"]
  BY DEF Gates!PortfolioGate
<1>2. /\ ask \in Asks /\ Past /\ ask.step = "portfolio" /\ <<p>> \in Shown
      /\ UNCHANGED <<killed, breaker>>
  BY DEF GateInv, Gates!PortfolioGate, Shown
<1>3. CASE ~ Gates!Admits(p)
  <2>1. ask' = [ask EXCEPT !.step = "done", !.input = <<p>>, !.decision = "PORTFOLIO_REJECTED"]
    BY <1>1, <1>2, <1>3 DEF Asks
  <2>2. Gates!DecisionsAreFounded'
    <3>1. ask'.decision = "PORTFOLIO_REJECTED" /\ ask'.input = <<p>>
      BY <1>2, <2>1, EndFields
    <3>2. ask'.input[1] = p
      BY <3>1
    <3> QED BY <1>3, <3>1, <3>2, AdmissionMeans DEF Gates!DecisionsAreFounded
  <2> QED BY <1>2, <2>1, <2>2, Ending DEF Decisions
<1>4. CASE Gates!Admits(p) /\ ~ Gates!WithinDrawdown(p.balance, p.equity)
  <2>1. ask' = [ask EXCEPT !.step = "done", !.input = <<p>>, !.decision = "DRAWDOWN_REJECTED"]
    BY <1>1, <1>2, <1>4 DEF Asks
  <2>2. ~ Gates!Retained(p.balance, p.equity) /\ Gates!RemainingDrawdown(p.balance, p.equity) = 0
    BY <1>4, AdmissionMeans, DrawdownMeans
  <2>3. Gates!DecisionsAreFounded'
    <3>1. ask'.decision = "DRAWDOWN_REJECTED" /\ ask'.input = <<p>>
      BY <1>2, <2>1, EndFields
    <3>2. ask'.input[1] = p
      BY <3>1
    <3> QED BY <2>2, <3>1, <3>2 DEF Gates!DecisionsAreFounded
  <2> QED BY <1>2, <2>1, <2>3, Ending DEF Decisions
<1>5. CASE Gates!Admits(p) /\ Gates!WithinDrawdown(p.balance, p.equity)
  <2>1. ask' = [ask EXCEPT !.step = "trade", !.input = <<p>>]
    BY <1>1, <1>2, <1>5 DEF Asks
  <2>2. ask' \in Asks /\ ask'.step = "trade" /\ ask'.input = <<p>> /\ ask'.offs = ask.offs
    BY <1>2, <2>1 DEF Asks, Stages
  <2>3. Recorded' /\ Past' /\ Gates!DecisionsAreFounded'
    BY <1>2, <1>5, <2>2 DEF Recorded, Past, Gates!DecisionsAreFounded, Gates!Done
  <2> QED BY <1>2, <2>2, <2>3 DEF GateInv
<1> QED BY <1>3, <1>4, <1>5

LEMMA Paired == ASSUME NEW p, NEW t PROVE Append(<<p>>, t) = <<p, t>>
<1> DEFINE S == {p, t}
           one == <<p>>
<1>1. one \in Seq(S) /\ Len(one) = 1 /\ one[1] = p /\ t \in S
  OBVIOUS
<1> HIDE DEF one, S
<1>2. PICK two : two = Append(one, t)
  OBVIOUS
<1>3. one \in Seq(S) /\ t \in S /\ two = Append(one, t)
  BY <1>1, <1>2
<1>4. two \in Seq(S) /\ Len(two) = Len(one) + 1
  BY <1>3
<1>5. two[1] = p
  BY <1>1, <1>2
<1>6. two[2] = t
  <2>1. two[Len(one) + 1] = t
    BY <1>3
  <2> QED BY <1>1, <2>1
<1>7. two \in Seq(S) /\ Len(two) = 2
  BY <1>1, <1>4
<1>8. two = <<p, t>>
  BY <1>5, <1>6, <1>7
<1> QED BY <1>2, <1>8 DEF one

LEMMA TradeGateKeepsGateInv ==
  ASSUME Gates!LimitsAssumption, GateInv, Gates!TradeGate
  PROVE  GateInv'
<1>1. PICK t \in Gates!Trades :
        ask' = [ask EXCEPT !.step = "done", !.input = Append(@, t),
                  !.decision = IF Gates!Passes(t) THEN "APPROVED" ELSE "TRADE_REJECTED"]
  BY DEF Gates!TradeGate
<1>2. ask \in Asks /\ Past /\ ask.step = "trade" /\ UNCHANGED <<killed, breaker>>
  BY DEF GateInv, Gates!TradeGate
<1>3. PICK p \in Gates!Portfolios :
        ask.input = <<p>> /\ Gates!Admits(p) /\ Gates!WithinDrawdown(p.balance, p.equity)
  BY <1>2 DEF Past
<1>4. Append(ask.input, t) = <<p, t>> /\ <<p, t>> \in Shown /\ <<p, t>>[1] = p /\ <<p, t>>[2] = t
  <2>1. Append(<<p>>, t) = <<p, t>>
    BY Paired
  <2> QED BY <1>3, <2>1 DEF Shown
<1> DEFINE d == IF Gates!Passes(t) THEN "APPROVED" ELSE "TRADE_REJECTED"
<1>5. ask' = [ask EXCEPT !.step = "done", !.input = <<p, t>>, !.decision = d] /\ d \in Decisions
  BY <1>1, <1>2, <1>4 DEF Asks, Decisions
<1>6. ask'.decision = d /\ ask'.input = <<p, t>> /\ ask'.offs = ask.offs
  BY <1>2, <1>5, EndFields
<1>7. CASE Gates!Passes(t)
  <2>1. /\ Gates!Retained(p.balance, p.equity)
        /\ Gates!RemainingDrawdown(p.balance, p.equity) = 0 => Gates!HalfAStep(p.balance, p.equity)
    BY <1>3, AdmissionMeans, DrawdownMeans
  <2>2. Gates!HasRoom(p) /\ p.equity > 0 /\ Gates!RemainingPositions(p) > 0
    BY <1>3, AdmissionMeans
  <2>3. Gates!Admissible(t) /\ Gates!Rejections(t) = {}
    BY <1>7, PassingMeans
  <2>4. Switches \subseteq ask'.offs /\ ask'.decision = "APPROVED"
    BY <1>2, <1>6, <1>7 DEF Past
  <2>5. Gates!DecisionsAreFounded'
    BY <1>4, <1>6, <2>1, <2>2, <2>3, <2>4 DEF Gates!DecisionsAreFounded, Switches
  <2> QED BY <1>2, <1>4, <1>5, <2>5, Ending
<1>8. CASE ~ Gates!Passes(t)
  <2>1. ~ Gates!Admissible(t) /\ Gates!Rejections(t) # {}
    BY <1>8, PassingMeans
  <2>2. Gates!DecisionsAreFounded'
    BY <1>4, <1>6, <1>8, <2>1 DEF Gates!DecisionsAreFounded
  <2> QED BY <1>2, <1>4, <1>5, <2>2, Ending
<1> QED BY <1>7, <1>8

LEMMA AccountGateKeepsGateInv ==
  ASSUME Gates!LimitsAssumption, GateInv, Gates!AccountGate
  PROVE  GateInv'
<1>1. PICK a \in Gates!Accounts, given \in SUBSET {"peak", "current"} :
        ask' = [ask EXCEPT !.step = "done", !.input = <<a, given>>, !.decision = Gates!AccountDecision(a, given)]
  BY DEF Gates!AccountGate
<1> DEFINE d == Gates!AccountDecision(a, given)
<1>2. d \in {"error", "DAILY_LOSS_LIMIT", "OK", "MAX_DRAWDOWN"}
  BY DEF Gates!AccountDecision
<1>3. a.daily_loss \in Passed /\ a.peak \in Passed /\ a.current \in Passed /\ MaxDailyLoss \in Int
  BY DEF Gates!Accounts, Gates!LimitsAssumption, Passed
<1>4. ask \in Asks /\ <<a, given>> \in Shown /\ UNCHANGED <<killed, breaker>>
  BY DEF GateInv, Gates!AccountGate, Shown
<1>5. Gates!BalancesValid(a.peak, a.current) <=>
        a.peak \in Int /\ a.peak > 0 /\ a.current \in Int /\ a.current >= 0
  BY <1>3, ValidityMeans DEF Gates!BalancesValid
<1>6. ask'.decision = d /\ ask'.input[1] = a /\ ask'.input[2] = given
  <2>1. ask'.decision = d /\ ask'.input = <<a, given>>
    BY <1>1, <1>4, EndFields
  <2> QED BY <2>1
<1>7. CASE d = "OK"
  <2>1. a.daily_loss \in Int /\ a.daily_loss >= 0 /\ a.daily_loss < MaxDailyLoss
    BY <1>3, <1>7, ValidityMeans DEF Gates!AccountDecision
  <2>2. given # {} => Gates!BalancesValid(a.peak, a.current) /\ Gates!WithinDrawdown(a.peak, a.current)
    BY <1>7 DEF Gates!AccountDecision
  <2>3. given # {} =>
          /\ a.peak \in Int /\ a.peak > 0 /\ a.current \in Int /\ a.current >= 0
          /\ Gates!Retained(a.peak, a.current)
    BY <1>5, <2>2, DrawdownMeans
  <2>4. a.daily_loss \in 0..(MaxDailyLoss - 1) /\ Bad \notin Int
    BY <1>3, <2>1 DEF Gates!LimitsAssumption
  <2>5. ask'.decision = "OK" /\ ask'.input[1] = a /\ ask'.input[2] = given
    BY <1>7, <1>6
  <2> HIDE DEF d
  <2>6. Gates!DecisionsAreFounded'
    BY <2>3, <2>4, <2>5 DEF Gates!DecisionsAreFounded
  <2> QED BY <1>1, <1>2, <1>4, <2>6, Ending DEF Decisions, d
<1>8. CASE d = "MAX_DRAWDOWN"
  <2>1. ~(Gates!BalancesValid(a.peak, a.current) /\ Gates!WithinDrawdown(a.peak, a.current))
    BY <1>8 DEF Gates!AccountDecision
  <2>2. \/ Bad \in {a.peak, a.current} \/ a.peak <= 0 \/ a.current < 0
        \/ ~ Gates!Retained(a.peak, a.current)
    BY <1>3, <1>5, <2>1, InputsAreNumbers, DrawdownMeans
  <2>3. ask'.decision = "MAX_DRAWDOWN" /\ ask'.input[1] = a
    BY <1>8, <1>6
  <2>4. Gates!DecisionsAreFounded'
    BY <2>2, <2>3 DEF Gates!DecisionsAreFounded
  <2> QED BY <1>1, <1>2, <1>4, <2>4, Ending DEF Decisions
<1>9. CASE d \in {"error", "DAILY_LOSS_LIMIT"}
  <2>1. ask'.decision = d
    BY <1>6
  <2> HIDE DEF d
  <2>2. Gates!DecisionsAreFounded'
    BY <1>9, <2>1 DEF Gates!DecisionsAreFounded
  <2> QED BY <1>1, <1>2, <1>4, <2>2, Ending DEF Decisions, d
<1> QED BY <1>2, <1>7, <1>8, <1>9

LEMMA WatchKeepsGateInv ==
  ASSUME Gates!LimitsAssumption, GateInv, Gates!WatchTrade
  PROVE  GateInv'
<1>1. PICK t \in Gates!TradeStates :
        ask' = LET end == [ask EXCEPT !.step = "done", !.input = <<t>>]
               IN IF ~(Gates!TradeValid(t) /\ Gates!BalancesValid(t.peak, t.balance)) THEN [end EXCEPT !.decision = "error"]
                  ELSE IF ~ Gates!WithinDrawdown(t.peak, t.balance) THEN [end EXCEPT !.step = "breach"]
                  ELSE [end EXCEPT !.decision = IF Gates!StopReached(t) THEN "STOP_LOSS" ELSE "CONTINUE"]
  BY DEF Gates!WatchTrade
<1>2. ask \in Asks /\ Recorded /\ ask.step = "watch" /\ <<t>> \in Shown /\ UNCHANGED <<killed, breaker>>
  BY DEF GateInv, Gates!WatchTrade, Shown
<1>3. t.peak \in Passed /\ t.balance \in Passed
  BY DEF Gates!TradeStates, Gates!Levels, Passed
<1>4. Gates!BalancesValid(t.peak, t.balance) =>
        /\ t.peak \in Int /\ t.balance \in Int /\ t.peak > 0 /\ t.balance >= 0 /\ Gates!Sound(t)
        /\ Gates!WithinDrawdown(t.peak, t.balance) <=> Gates!Retained(t.peak, t.balance)
  BY <1>3, ValidityMeans, DrawdownMeans DEF Gates!BalancesValid, Gates!Sound, Gates!LimitsAssumption
<1>5. CASE ~(Gates!TradeValid(t) /\ Gates!BalancesValid(t.peak, t.balance))
  <2>1. ask' = [ask EXCEPT !.step = "done", !.input = <<t>>, !.decision = "error"]
    BY <1>1, <1>2, <1>5 DEF Asks
  <2>2. Gates!DecisionsAreFounded'
    <3>1. ask'.decision = "error"
      BY <1>2, <2>1, EndFields
    <3> QED BY <3>1 DEF Gates!DecisionsAreFounded
  <2> QED BY <1>2, <2>1, <2>2, Ending DEF Decisions
<1>6. CASE /\ Gates!TradeValid(t) /\ Gates!BalancesValid(t.peak, t.balance)
           /\ ~ Gates!WithinDrawdown(t.peak, t.balance)
  <2>1. ask' = [ask EXCEPT !.step = "breach", !.input = <<t>>]
    BY <1>1, <1>2, <1>6 DEF Asks
  <2>2. ask' \in Asks /\ ask'.step = "breach" /\ ask'.input = <<t>> /\ ask'.offs = ask.offs /\ ask'.ons = ask.ons
    BY <1>2, <2>1 DEF Asks, Stages
  <2>3. Past' /\ Gates!DecisionsAreFounded'
    BY <1>4, <1>6, <2>2 DEF Past, Gates!DecisionsAreFounded, Gates!Done
  <2>4. Recorded'
    BY <1>2, <2>2 DEF Recorded
  <2> QED BY <1>2, <2>2, <2>3, <2>4 DEF GateInv
<1>7. CASE /\ Gates!TradeValid(t) /\ Gates!BalancesValid(t.peak, t.balance)
           /\ Gates!WithinDrawdown(t.peak, t.balance)
  <2> DEFINE d == IF Gates!StopReached(t) THEN "STOP_LOSS" ELSE "CONTINUE"
  <2>1. ask' = [ask EXCEPT !.step = "done", !.input = <<t>>, !.decision = d] /\ d \in Decisions
    BY <1>1, <1>2, <1>7 DEF Asks, Decisions
  <2>2. ask'.decision = d /\ ask'.input[1] = t
    <3>1. ask'.decision = d /\ ask'.input = <<t>>
      BY <1>2, <2>1, EndFields
    <3> QED BY <3>1
  <2>3. Gates!StopReached(t) <=> Gates!Losing(t)
    BY <1>7, StopMeans
  <2>4. Gates!DecisionsAreFounded'
    BY <1>4, <1>7, <2>2, <2>3 DEF Gates!DecisionsAreFounded
  <2> QED BY <1>2, <2>1, <2>4, Ending
<1> QED BY <1>5, <1>6, <1>7

LEMMA BreachKeepsGateInv == ASSUME GateInv, Gates!Breach PROVE GateInv'
<1>1. /\ ask \in Asks /\ ask.step = "breach" /\ Past /\ killed' = TRUE /\ breaker' = breaker
      /\ ask' = [ask EXCEPT !.step = "done", !.decision = "DRAWDOWN_BREACH"]
  BY DEF GateInv, Gates!Breach
<1>2. /\ ask' \in Asks /\ ask'.step = "done" /\ ask'.decision = "DRAWDOWN_BREACH"
      /\ ask'.input = ask.input
  BY <1>1 DEF Asks, Stages, Decisions
<1>3. PICK t \in Gates!TradeStates :
        ask.input = <<t>> /\ Gates!Sound(t) /\ ~ Gates!Retained(t.peak, t.balance)
  BY <1>1 DEF Past
<1>4. Gates!DecisionsAreFounded'
  BY <1>2, <1>3 DEF Gates!DecisionsAreFounded
<1> QED BY <1>1, <1>2, <1>4 DEF GateInv, Recorded, Past

LEMMA GatesAreInvariant == Spec => []GateInv
<1>1. GateInv /\ [Next]_vars => GateInv'
  <2> SUFFICES ASSUME GateInv, [Next]_vars
               PROVE  GateInv'
    OBVIOUS
  <2>0. Gates!LimitsAssumption
    BY PartsAssumption
  <2>1. CASE Gates!Next
    BY <2>0, <2>1, SwitchKeepsGateInv, StartKeepsGateInv, SwitchGatesKeepGateInv, PortfolioGateKeepsGateInv,
       TradeGateKeepsGateInv, AccountGateKeepsGateInv, WatchKeepsGateInv, BreachKeepsGateInv DEF Gates!Next
  <2>2. CASE UNCHANGED Gates!vars
    BY <2>2 DEF GateInv, Gates!vars, Recorded, Past, Gates!DecisionsAreFounded, Gates!Done
  <2> QED BY <2>1, <2>2, GatesMove
<1> QED BY <1>1, GatesStart, PTL DEF Spec

\* Nothing is approved that a limit objects to and nothing is refused that none objects
\* to; a refusal by a switch was called for at some instant of the evaluation.
THEOREM AlwaysDecisionsAreFounded == Spec => []DecisionsAreFounded
<1>1. GateInv => DecisionsAreFounded
  BY DEF GateInv, DecisionsAreFounded
<1> QED BY <1>1, GatesAreInvariant, PTL

-----------------------------------------------------------------------------
(***************************************************************************)
(* Publishing over a list that changes.                                    *)
(***************************************************************************)
LEMMA EventsMove == [Next]_vars => [Events!Next]_(Events!vars)
BY DEF Next, vars, deskVars, otherVars, eventVars, Events!vars

LEMMA InRange == ASSUME NEW list \in Seq(Handlers) PROVE \A h : h \in Events!Range(list) <=> In(h, list)
BY DEF Events!Range, In

LEMMA Appended ==
  ASSUME NEW list \in Seq(Handlers), NEW h \in Handlers
  PROVE  /\ Append(list, h) \in Seq(Handlers) /\ Len(Append(list, h)) = Len(list) + 1 /\ Len(list) \in Nat
         /\ \A i \in 1..Len(list) : Append(list, h)[i] = list[i]
         /\ Append(list, h)[Len(list) + 1] = h
         /\ \A g : In(g, Append(list, h)) <=> In(g, list) \/ g = h
<1> DEFINE more == Append(list, h)
           n == Len(list)
<1>1. /\ more \in Seq(Handlers) /\ Len(more) = n + 1 /\ n \in Nat
      /\ \A i \in 1..n : more[i] = list[i]
      /\ more[n + 1] = h
  OBVIOUS
<1> HIDE DEF more
<1>2. \A g : In(g, more) <=> In(g, list) \/ g = h
  <2> HIDE DEF n
  <2>1. n + 1 \in 1..(n + 1) /\ \A i \in 1..(n + 1) : i \in 1..n \/ i = n + 1
    BY <1>1
  <2>2. \A i \in 1..n : i \in 1..(n + 1)
    BY <1>1
  <2> QED BY <1>1, <2>1, <2>2 DEF In, n
<1> QED BY <1>1, <1>2 DEF more

\* A filtered list has what it had but the handler.
LEMMA WithoutIn ==
  ASSUME NEW list \in Seq(Handlers), NEW h
  PROVE  /\ Events!Without(list, h) \in Seq(Handlers)
         /\ \A g : In(g, Events!Without(list, h)) <=> g # h /\ In(g, list)
<1> DEFINE n == Len(list)
           V == Seq(Handlers)
           Then(r, i) == IF list[i] = h THEN r ELSE Append(r, list[i])
           Follows(f) == f = [i \in 0..n |-> IF i = 0 THEN <<>> ELSE Then(f[i - 1], i)]
           step == [x \in Nat \X V |-> IF x[1] \in 1..n THEN Then(x[2], x[1]) ELSE x[2]]
           after == CHOOSE f : Follows(f)
           Sofar(r, i) == \A g : In(g, r) <=> g # h /\ \E j \in 1..i : list[j] = g
<1>1. n \in Nat /\ <<>> \in V
  OBVIOUS
<1>2. \A r \in V, i \in 1..n : Then(r, i) \in V
  OBVIOUS
<1>3. Sofar(<<>>, 0)
  BY DEF In
<1>4. ASSUME NEW r \in V, NEW i \in 1..n, Sofar(r, i - 1)
      PROVE  Sofar(Then(r, i), i)
  <2>1. \A j \in 1..i : j \in 1..(i - 1) \/ j = i
    BY <1>1
  <2>2. i \in 1..i /\ \A j \in 1..(i - 1) : j \in 1..i
    BY <1>1
  <2>3. list[i] \in Handlers
    BY <1>1
  <2>4. \A g : In(g, Append(r, list[i])) <=> In(g, r) \/ g = list[i]
    BY <2>3, Appended
  <2>5. CASE list[i] = h
    BY <1>4, <2>1, <2>2, <2>5
  <2>6. CASE list[i] # h
    BY <1>4, <2>1, <2>2, <2>4, <2>6
  <2> QED BY <2>5, <2>6
<1> HIDE DEF V, Then, Sofar
<1>5. step \in Steps(V)
  BY <1>2 DEF Steps
<1> HIDE DEF n
<1>6. \E f : Follows(f)
  <2>1. PICK g \in [0..n -> V] : g[0] = <<>> /\ \A i \in 1..n : g[i] = step[<<i, g[i - 1]>>]
    <3> HIDE DEF step
    <3>1. Iterates(n, V, <<>>, step) # {}
      BY <1>1, <1>5, Recursion
    <3> QED BY <3>1 DEF Iterates
  <2>2. ASSUME NEW i \in 1..n
        PROVE  g[i] = Then(g[i - 1], i)
    <3>1. i \in Nat /\ i - 1 \in 0..n
      BY <1>1
    <3>2. <<i, g[i - 1]>> \in Nat \X V
      BY <2>1, <3>1
    <3>3. step[<<i, g[i - 1]>>] = Then(g[i - 1], i)
      BY <3>2
    <3> QED BY <2>1, <3>3
  <2>3. \A i \in 0..n : g[i] = IF i = 0 THEN <<>> ELSE Then(g[i - 1], i)
    BY <1>1, <2>1, <2>2
  <2> HIDE DEF step
  <2>4. g = [i \in 0..n |-> IF i = 0 THEN <<>> ELSE Then(g[i - 1], i)]
    BY <2>1, <2>3
  <2> QED BY <2>4
<1>7. Follows(after)
  BY <1>6
<1>8. Events!Without(list, h) = after[n]
  BY DEF Events!Without, n, Then
<1> DEFINE P == {i \in 0..n : after[i] \in V /\ Sofar(after[i], i)}
<1>9. 0 \in P /\ \A i \in 1..n : i - 1 \in P => i \in P
  <2> HIDE DEF after
  <2>1. after[0] = <<>> /\ \A i \in 1..n : after[i] = Then(after[i - 1], i)
    BY <1>1, <1>7
  <2> QED BY <1>1, <1>2, <1>3, <1>4, <2>1
<1>10. 0..n \subseteq P
  <2> HIDE DEF P
  <2> QED BY <1>1, <1>9, UpTo
<1>11. after[n] \in V /\ Sofar(after[n], n)
  BY <1>1, <1>10
<1> HIDE DEF after
<1> QED BY <1>8, <1>11 DEF V, Sofar, In, n

\* Without its first h a list is one shorter, and what came after h is one place earlier.
LEMMA FirstRemoved ==
  ASSUME NEW list \in Seq(Handlers), NEW h, h \in Events!Range(list), NEW rest, rest = Events!WithoutFirst(list, h)
  PROVE  /\ rest \in Seq(Handlers) /\ Len(rest) = Len(list) - 1
         /\ \E m \in 1..Len(list) :
              /\ list[m] = h
              /\ \A j \in 1..Len(rest) : rest[j] = IF j < m THEN list[j] ELSE list[j + 1]
<1> DEFINE I == {i \in 1..Len(list) : list[i] = h}
           m == CHOOSE i \in DOMAIN list : list[i] = h /\ \A j \in 1..(i - 1) : list[j] # h
<1>1. Len(list) \in Nat /\ I # {} /\ I \in SUBSET Nat
  BY DEF Events!Range
<1>2. m \in I
  <2>1. PICK x \in I : \A y \in I : x <= y
    <3> HIDE DEF I
    <3> QED BY <1>1, LeastNumber
  <2>2. x \in DOMAIN list /\ list[x] = h /\ \A j \in 1..(x - 1) : list[j] # h
    BY <1>1, <2>1
  <2> QED BY <2>2
<1>3. rest = SubSeq(list, 1, m - 1) \o SubSeq(list, m + 1, Len(list))
  BY <1>1 DEF Events!WithoutFirst
<1> HIDE DEF m
<1>4. m \in 1..Len(list) /\ list[m] = h
  BY <1>2
<1> DEFINE a == SubSeq(list, 1, m - 1)
           b == SubSeq(list, m + 1, Len(list))
<1>5. a \in Seq(Handlers) /\ Len(a) = m - 1 /\ \A j \in 1..(m - 1) : a[j] = list[j]
  BY <1>1, <1>4
<1>6. b \in Seq(Handlers) /\ Len(b) = Len(list) - m /\ \A j \in 1..(Len(list) - m) : b[j] = list[j + m]
  BY <1>1, <1>4
<1>7. rest = a \o b
  BY <1>3
<1> HIDE DEF a, b
<1>8. /\ rest \in Seq(Handlers) /\ Len(rest) = Len(a) + Len(b)
      /\ \A j \in 1..(Len(a) + Len(b)) : rest[j] = IF j <= Len(a) THEN a[j] ELSE b[j - Len(a)]
  <2>1. a \in Seq(Handlers) /\ b \in Seq(Handlers)
    BY <1>5, <1>6
  <2> QED BY <1>7, <2>1, ConcatProperties
<1>9. ASSUME NEW j \in 1..Len(rest)
      PROVE  rest[j] = IF j < m THEN list[j] ELSE list[j + 1]
  <2>1. rest[j] = IF j <= Len(a) THEN a[j] ELSE b[j - Len(a)]
    BY <1>8
  <2>2. CASE j < m
    BY <1>4, <1>5, <2>1, <2>2
  <2>3. CASE ~(j < m)
    <3>1. rest[j] = b[j - (m - 1)] /\ j - (m - 1) \in 1..(Len(list) - m)
      BY <1>1, <1>4, <1>5, <1>6, <1>8, <2>1, <2>3
    <3>2. b[j - (m - 1)] = list[(j - (m - 1)) + m]
      BY <1>6, <3>1
    <3>3. (j - (m - 1)) + m = j + 1
      BY <1>4
    <3> QED BY <2>3, <3>1, <3>2, <3>3
  <2> QED BY <2>2, <2>3
<1> QED BY <1>1, <1>4, <1>5, <1>6, <1>8, <1>9

LEMMA Removed ==
  ASSUME NEW list \in Seq(Handlers), NEW x, NEW h, In(h, list)
  PROVE  /\ Events!WithoutFirst(list, h) \in Seq(Handlers)
         /\ \A g : In(g, Events!WithoutFirst(list, h)) => In(g, list)
         /\ \A g : g # h /\ In(g, list) => In(g, Events!WithoutFirst(list, h))
         /\ NoneTwice(list, x) => /\ NoneTwice(Events!WithoutFirst(list, h), x)
                                  /\ h \notin x => ~ In(h, Events!WithoutFirst(list, h))
<1> DEFINE rest == Events!WithoutFirst(list, h)
<1>1. /\ rest \in Seq(Handlers) /\ Len(rest) = Len(list) - 1 /\ Len(list) \in Nat
      /\ \E m \in 1..Len(list) :
           /\ list[m] = h
           /\ \A j \in 1..Len(rest) : rest[j] = IF j < m THEN list[j] ELSE list[j + 1]
  BY InRange, FirstRemoved
<1> HIDE DEF rest
<1>2. PICK m \in 1..Len(list) :
           /\ list[m] = h
           /\ \A j \in 1..Len(rest) : rest[j] = IF j < m THEN list[j] ELSE list[j + 1]
  BY <1>1
<1> DEFINE Place(i) == IF i < m THEN i ELSE i + 1
<1>3. \A i \in 1..Len(rest) : Place(i) \in 1..Len(list) /\ rest[i] = list[Place(i)] /\ Place(i) # m
  BY <1>1, <1>2
<1>4. \A i, j \in 1..Len(rest) : Place(i) = Place(j) => i = j
  BY <1>2
<1>5. \A j \in 1..Len(list) : j # m => \E i \in 1..Len(rest) : Place(i) = j
  <2> SUFFICES ASSUME NEW j \in 1..Len(list), j # m
               PROVE  \E i \in 1..Len(rest) : Place(i) = j
    OBVIOUS
  <2>1. CASE j < m
    BY <1>1, <1>2, <2>1
  <2>2. CASE j > m
    <3>1. j - 1 \in 1..Len(rest) /\ Place(j - 1) = j
      BY <1>1, <1>2, <2>2
    <3> QED BY <3>1
  <2> QED BY <2>1, <2>2
<1> HIDE DEF Place
<1>6. \A g : g # h /\ In(g, list) => In(g, rest)
  <2> SUFFICES ASSUME NEW g, g # h, NEW j \in 1..Len(list), list[j] = g
               PROVE  \E i \in 1..Len(rest) : rest[i] = g
    BY DEF In
  <2>1. j # m
    BY <1>2
  <2>2. PICK i \in 1..Len(rest) : Place(i) = j
    BY <1>5, <2>1
  <2>3. rest[i] = list[j]
    BY <1>3, <2>2
  <2> QED BY <2>3
<1>7. ASSUME NoneTwice(list, x)
      PROVE  NoneTwice(rest, x) /\ (h \notin x => ~ In(h, rest))
  <2>1. NoneTwice(rest, x)
    BY <1>3, <1>4, <1>7 DEF NoneTwice
  <2>2. ASSUME h \notin x, NEW i \in 1..Len(rest), rest[i] = h
        PROVE  FALSE
    <3>1. Place(i) \in 1..Len(list) /\ list[Place(i)] = list[m] /\ Place(i) # m
      BY <1>2, <1>3, <2>2
    <3> QED BY <1>2, <1>7, <2>2, <3>1 DEF NoneTwice
  <2> QED BY <2>1, <2>2 DEF In
<1>8. \A g : In(g, rest) => In(g, list)
  BY <1>3 DEF In
<1> QED BY <1>1, <1>6, <1>7, <1>8 DEF rest

-----------------------------------------------------------------------------

\* With fewer handlers to account for and more of them raced, a publish is as well.
LEMMA WeakerServes ==
  ASSUME NEW k, NEW x, NEW list, NEW run, Served(k, x, run, list), NEW r \in Runs, NEW y, x \subseteq y,
         r.step = run.step, r.next = run.next, r.called = run.called, r.had = run.had, r.shrunk = run.shrunk,
         r.kept \subseteq run.kept, r.barred \subseteq run.barred
  PROVE  Served(k, y, r, list)
<1>1. run.step = "running" => Serving(k, y, r, list)
  BY DEF Served, Serving, Clears, NoneTwice
<1> QED BY <1>1 DEF Served, Covers, Clears

LEMMA AddingOnce ==
  ASSUME NEW list \in Seq(Handlers), NEW x, NEW h \in Handlers, NoneTwice(list, x), h \notin x => ~ In(h, list)
  PROVE  NoneTwice(Append(list, h), x)
<1> DEFINE more == Append(list, h)
<1>1. /\ Len(more) = Len(list) + 1 /\ Len(list) \in Nat
      /\ \A i \in 1..Len(list) : more[i] = list[i]
      /\ more[Len(list) + 1] = h
  BY Appended
<1> HIDE DEF more
<1>2. h \notin x => \A i \in 1..Len(list) : list[i] # h
  BY DEF In
<1> QED BY <1>1, <1>2 DEF NoneTwice, more

LEMMA AddingServes ==
  ASSUME NEW k, NEW x, NEW list \in Seq(Handlers), NEW run, Served(k, x, run, list), NEW h \in Handlers,
         h \notin run.barred, k = "router" /\ h \notin x => ~ In(h, list)
  PROVE  Served(k, x, run, Append(list, h))
<1> DEFINE more == Append(list, h)
<1>1. /\ Len(more) = Len(list) + 1 /\ Len(list) \in Nat
      /\ \A i \in 1..Len(list) : more[i] = list[i]
      /\ more[Len(list) + 1] = h
      /\ \A g : In(g, more) <=> In(g, list) \/ g = h
  BY Appended
<1> HIDE DEF more
<1>3. k = "router" /\ NoneTwice(list, x) => NoneTwice(more, x)
  BY AddingOnce DEF more
<1>4. ASSUME run.step = "running"
      PROVE  Serving(k, x, run, more)
  <2>1. Serving(k, x, run, list) /\ run \in Runs
    BY <1>4 DEF Served
  <2>2. Len(run.had) \in Nat /\ Len(run.called) \in Nat /\ run.next \in Nat
    BY <2>1 DEF Runs
  <2>3. ASSUME ~ run.shrunk
        PROVE  /\ Len(run.called) = run.next - 1 /\ run.next - 1 <= Len(more) /\ Len(run.had) <= Len(more)
               /\ \A i \in 1..Len(run.called) : run.called[i] = more[i]
               /\ \A i \in 1..Len(run.had) : run.had[i] = more[i]
    <3>1. /\ Len(run.called) = run.next - 1 /\ run.next - 1 <= Len(list) /\ Len(run.had) <= Len(list)
          /\ \A i \in 1..Len(run.called) : run.called[i] = list[i]
          /\ \A i \in 1..Len(run.had) : run.had[i] = list[i]
      BY <2>1, <2>3 DEF Serving
    <3>2. (1..Len(run.called)) \subseteq 1..Len(list) /\ (1..Len(run.had)) \subseteq 1..Len(list)
      BY <1>1, <2>2, <3>1
    <3> QED BY <1>1, <2>2, <3>1, <3>2
  <2>4. ASSUME k = "router", NEW i \in 1..Len(run.called), run.called[i] \in run.kept \ x
        PROVE  \E j \in 1..Len(more) : j < run.next /\ more[j] = run.called[i]
    <3>1. PICK j \in 1..Len(list) : j < run.next /\ list[j] = run.called[i]
      BY <2>1, <2>4 DEF Serving
    <3> QED BY <1>1, <3>1
  <2>5. Clears(more, run.barred)
    BY <1>1, <2>1 DEF Serving, Clears
  <2> QED BY <1>3, <2>1, <2>3, <2>4, <2>5 DEF Serving
<1> QED BY <1>4 DEF Served, more

LEMMA RemovingServes ==
  ASSUME NEW list \in Seq(Handlers), NEW x, NEW run, Served("router", x, run, list), NEW h, In(h, list)
  PROVE  Served("router", x, [run EXCEPT !.kept = @ \ {h}, !.shrunk = TRUE], Events!WithoutFirst(list, h))
<1> DEFINE r == [run EXCEPT !.kept = @ \ {h}, !.shrunk = TRUE]
           rest == Events!WithoutFirst(list, h)
<1>1. /\ r \in Runs /\ r.step = run.step /\ r.next = run.next /\ r.called = run.called /\ r.had = run.had
      /\ r.barred = run.barred
      /\ r.shrunk = TRUE /\ r.kept = run.kept \ {h} /\ run.next \in Nat
  BY DEF Served, Runs
<1>2. /\ rest \in Seq(Handlers) /\ Len(rest) = Len(list) - 1
      /\ \E m \in 1..Len(list) :
           /\ list[m] = h
           /\ \A j \in 1..Len(rest) : rest[j] = IF j < m THEN list[j] ELSE list[j + 1]
  BY InRange, FirstRemoved
<1>0. NoneTwice(list, x) => NoneTwice(rest, x)
  BY Removed
<1>00. Clears(list, run.barred) => Clears(rest, run.barred)
  BY Removed DEF Clears
<1> HIDE DEF r, rest
<1>3. PICK m \in 1..Len(list) :
           /\ list[m] = h
           /\ \A j \in 1..Len(rest) : rest[j] = IF j < m THEN list[j] ELSE list[j + 1]
  BY <1>2
<1>4. Len(list) \in Nat
  OBVIOUS
<1>5. ASSUME run.step = "running"
      PROVE  Serving("router", x, r, rest)
  <2>1. Serving("router", x, run, list)
    BY <1>5 DEF Served
  <2>2. NoneTwice(rest, x) /\ Clears(rest, r.barred)
    BY <1>0, <1>00, <1>1, <2>1 DEF Serving
  <2>3. ASSUME NEW i \in 1..Len(r.called), r.called[i] \in r.kept \ x
        PROVE  \E j \in 1..Len(rest) : j < r.next /\ rest[j] = r.called[i]
    <3>1. PICK j \in 1..Len(list) : j < run.next /\ list[j] = run.called[i]
      BY <1>1, <2>1, <2>3 DEF Serving
    <3>2. j # m
      BY <1>1, <1>3, <2>3, <3>1
    <3>3. CASE j < m
      <4>1. j \in 1..Len(rest) /\ rest[j] = list[j]
        BY <1>2, <1>3, <1>4, <3>3
      <4> QED BY <1>1, <3>1, <4>1
    <3>4. CASE j > m
      <4>1. j - 1 \in 1..Len(rest) /\ rest[j - 1] = list[j] /\ j - 1 < run.next
        <5>1. j - 1 \in 1..Len(rest) /\ ~(j - 1 < m) /\ (j - 1) + 1 = j
          BY <1>2, <1>3, <1>4, <3>4
        <5>2. j - 1 < run.next
          BY <1>1, <3>1
        <5> QED BY <1>3, <5>1, <5>2
      <4> QED BY <1>1, <3>1, <4>1
    <3> QED BY <3>2, <3>3, <3>4
  <2> QED BY <1>1, <2>2, <2>3 DEF Serving
<1>6. Covers(r.had, r.kept) /\ Clears(r.called, r.barred)
  BY <1>1 DEF Served, Covers
<1> QED BY <1>1, <1>5, <1>6 DEF Served, r, rest

\* A publish begins with nothing called, and calls the next of its list.
LEMMA BeginningServes ==
  ASSUME NEW k, NEW x, NEW list \in Seq(Handlers), k = "router" => NoneTwice(list, x),
         NEW f \in SUBSET Handlers, NEW b \in SUBSET Handlers, Covers(list, f), Clears(list, b)
  PROVE  Served(k, x, [Events!Unrun EXCEPT !.step = "running", !.kept = f, !.barred = b, !.had = list], list)
<1> DEFINE r == [Events!Unrun EXCEPT !.step = "running", !.kept = f, !.barred = b, !.had = list]
<1>1. /\ Events!Unrun \in Runs /\ Events!Unrun.called = <<>> /\ Events!Unrun.shrunk = FALSE
      /\ Events!Unrun.next = 1
  BY DEF Events!Unrun, Runs
<1>3. /\ r \in Runs /\ r.step = "running" /\ r.next = 1 /\ r.called = <<>> /\ r.had = list
      /\ r.shrunk = FALSE /\ r.kept = f /\ r.barred = b
  BY <1>1 DEF Runs
<1> HIDE DEF r
<1>4. Len(list) \in Nat /\ Len(r.called) = 0
  BY <1>3
<1>5. Serving(k, x, r, list)
  BY <1>3, <1>4 DEF Serving
<1> QED BY <1>3, <1>4, <1>5 DEF Served, Clears, In, r

LEMMA HandlingServes ==
  ASSUME NEW k, NEW x, NEW list \in Seq(Handlers), NEW run, Served(k, x, run, list), run.step = "running",
         run.next <= Len(list), NEW s \in {"running", "raised"}
  PROVE  Served(k, x, [run EXCEPT !.next = @ + 1, !.step = s, !.called = Append(@, list[run.next])], list)
<1> DEFINE r == [run EXCEPT !.next = @ + 1, !.step = s, !.called = Append(@, list[run.next])]
           g == list[run.next]
           n == Len(run.called)
<1>1. run \in Runs /\ Serving(k, x, run, list)
  BY DEF Served
<1>2. run.next \in Nat \ {0} /\ Len(list) \in Nat /\ run.called \in Seq(Handlers) /\ run.had \in Seq(Handlers)
  BY <1>1 DEF Runs
<1>3. g \in Handlers
  BY <1>2
<1> HIDE DEF g
<1>4. Append(run.called, g) \in Seq(Handlers)
  BY <1>2, <1>3
<1>5. /\ r \in Runs /\ r.step = s /\ r.next = run.next + 1 /\ r.called = Append(run.called, g)
      /\ r.had = run.had /\ r.shrunk = run.shrunk /\ r.kept = run.kept /\ r.barred = run.barred
  <2> DEFINE more == Append(run.called, g)
             later == run.next + 1
  <2>1. r = [run EXCEPT !.next = later, !.step = s, !.called = more]
    BY <1>1 DEF Runs, g
  <2>2. more \in Seq(Handlers) /\ later \in Nat \ {0} /\ s \in {"idle", "running", "raised", "done"}
    BY <1>2, <1>4
  <2> HIDE DEF more, later, r
  <2>3. /\ r \in Runs /\ r.step = s /\ r.next = later /\ r.called = more
        /\ r.had = run.had /\ r.shrunk = run.shrunk /\ r.kept = run.kept /\ r.barred = run.barred
    BY <1>1, <2>1, <2>2 DEF Runs
  <2> QED BY <2>3 DEF more, later
<1> HIDE DEF r
<1>6. /\ n \in Nat /\ Len(r.called) = n + 1 /\ r.called[n + 1] = g
      /\ \A i \in 1..n : r.called[i] = run.called[i]
  BY <1>2, <1>3, <1>5
<1> HIDE DEF n
<1>7. ~ run.shrunk => n = run.next - 1 /\ \A i \in 1..n : run.called[i] = list[i]
  BY <1>1 DEF Serving, n
<1>8. ~ run.shrunk => \A i \in 1..Len(r.called) : r.called[i] = list[i]
  <2> SUFFICES ASSUME ~ run.shrunk, NEW i \in 1..(n + 1)
               PROVE  r.called[i] = list[i]
    BY <1>6
  <2>1. CASE i = n + 1
    BY <1>2, <1>6, <1>7, <2>1 DEF g
  <2>2. CASE i # n + 1
    <3>1. i \in 1..n
      BY <1>6, <2>2
    <3> QED BY <1>6, <1>7, <3>1
  <2> QED BY <2>1, <2>2
<1>9. k = "router" => \A i \in 1..n : run.called[i] \in run.kept \ x => run.called[i] # g
  <2> SUFFICES ASSUME k = "router", NEW i \in 1..n, run.called[i] \in run.kept \ x, run.called[i] = g
               PROVE  FALSE
    OBVIOUS
  <2>1. PICK j \in 1..Len(list) : j < run.next /\ list[j] = run.called[i]
    BY <1>1 DEF Serving, n
  <2>2. run.next \in 1..Len(list) /\ list[run.next] = list[j]
    BY <1>2, <2>1 DEF g
  <2>3. run.next = j
    BY <1>1, <2>1, <2>2 DEF Serving, NoneTwice
  <2> QED BY <1>2, <2>1, <2>3
<1>10. k = "router" =>
         \A i, j \in 1..Len(r.called) : r.called[i] = r.called[j] /\ r.called[i] \in r.kept \ x => i = j
  <2> SUFFICES ASSUME k = "router", NEW i \in 1..(n + 1), NEW j \in 1..(n + 1),
                      r.called[i] = r.called[j], r.called[i] \in run.kept \ x
               PROVE  i = j
    BY <1>5, <1>6
  <2>1. \A l \in 1..(n + 1) : l = n + 1 \/ l \in 1..n
    BY <1>6
  <2>2. CASE i \in 1..n /\ j \in 1..n
    BY <1>6, <2>2 DEF Served, n
  <2>3. CASE i = n + 1 /\ j \in 1..n
    BY <1>6, <1>9, <2>3
  <2>4. CASE j = n + 1 /\ i \in 1..n
    BY <1>6, <1>9, <2>4
  <2> QED BY <2>1, <2>2, <2>3, <2>4
<1>11. ~ run.shrunk => \A i \in 1..Len(r.called) : i <= Len(r.had) => r.called[i] = r.had[i]
  <2>1. ~ run.shrunk => \A i \in 1..Len(run.had) : run.had[i] = list[i]
    BY <1>1 DEF Serving
  <2>2. Len(run.had) \in Nat
    BY <1>2
  <2> QED BY <1>5, <1>8, <2>1, <2>2
<1>12. Serving(k, x, r, list)
  <2>1. ~ run.shrunk => /\ Len(r.called) = r.next - 1 /\ r.next - 1 <= Len(list) /\ Len(r.had) <= Len(list)
                        /\ \A i \in 1..Len(r.had) : r.had[i] = list[i]
    <3>1. ~ run.shrunk => /\ Len(run.had) <= Len(list)
                          /\ \A i \in 1..Len(run.had) : run.had[i] = list[i]
      BY <1>1 DEF Serving
    <3>2. ~ run.shrunk => Len(r.called) = r.next - 1 /\ r.next - 1 <= Len(list)
      BY <1>2, <1>5, <1>6, <1>7
    <3> QED BY <1>5, <3>1, <3>2
  <2>2. ASSUME k = "router", NEW i \in 1..Len(r.called), r.called[i] \in r.kept \ x
        PROVE  \E j \in 1..Len(list) : j < r.next /\ list[j] = r.called[i]
    <3>1. CASE i = n + 1
      <4>1. run.next \in 1..Len(list) /\ run.next < r.next /\ list[run.next] = r.called[i]
        BY <1>2, <1>5, <1>6, <3>1 DEF g
      <4> QED BY <4>1
    <3>2. CASE i # n + 1
      <4>1. i \in 1..n /\ r.called[i] = run.called[i]
        BY <1>6, <3>2
      <4>2. PICK j \in 1..Len(list) : j < run.next /\ list[j] = run.called[i]
        BY <1>1, <1>5, <2>2, <4>1 DEF Serving, n
      <4> QED BY <1>2, <1>5, <4>1, <4>2
    <3> QED BY <3>1, <3>2
  <2> QED BY <1>1, <1>5, <1>8, <2>1, <2>2 DEF Serving
<1>13. (k = "bus" => ~ run.shrunk) /\ Covers(r.had, r.kept)
  BY <1>5 DEF Served
<1>14. Clears(r.called, r.barred)
  <2>1. \A h : In(h, r.called) <=> In(h, run.called) \/ h = g
    BY <1>2, <1>3, <1>5, Appended
  <2>2. g \notin run.barred
    <3>1. run.next \in 1..Len(list)
      BY <1>2
    <3> QED BY <1>1, <3>1 DEF Serving, Clears, In, g
  <2> QED BY <1>5, <2>1, <2>2 DEF Served, Clears
<1> QED BY <1>5, <1>10, <1>11, <1>12, <1>13, <1>14 DEF Served, r, g

\* A loop that is through has called all of its list.
LEMMA EndingServes ==
  ASSUME NEW k, NEW x, NEW list \in Seq(Handlers), NEW run, Served(k, x, run, list), run.step = "running",
         run.next > Len(list)
  PROVE  Served(k, x, [run EXCEPT !.step = "done"], list)
<1> DEFINE r == [run EXCEPT !.step = "done"]
<1>1. run \in Runs /\ Serving(k, x, run, list)
  BY DEF Served
<1>2. /\ r \in Runs /\ r.step = "done" /\ r.next = run.next /\ r.called = run.called /\ r.had = run.had
      /\ r.shrunk = run.shrunk /\ r.kept = run.kept /\ r.barred = run.barred
  BY <1>1 DEF Runs
<1> HIDE DEF r
<1>3. run.next \in Nat /\ Len(list) \in Nat /\ Len(run.had) \in Nat
  BY <1>1 DEF Runs
<1>4. ~ run.shrunk => Len(run.had) <= Len(run.called)
  BY <1>1, <1>3 DEF Serving
<1> QED BY <1>2, <1>4 DEF Served, r

-----------------------------------------------------------------------------

LEMMA EditsAre ==
  ASSUME ListInv, NEW t \in Threads
  PROVE  /\ edits[t].step \in {"idle", "adding", "removing"}
         /\ edits[t].copy \in Seq(Handlers)
         /\ edits[t].step # "idle" => edits[t].handler \in Handlers
         /\ Events!Unedited.step = "idle"
<1>1. edits[t] \in Editings
  BY DEF ListInv
<1>2. Events!Unedited.step = "idle" /\ Events!Unedited.copy \in Seq(Handlers)
  BY DEF Events!Unedited
<1>3. CASE edits[t] = Events!Unedited
  BY <1>2, <1>3
<1>4. CASE edits[t] \in [step : {"adding", "removing"}, handler : Handlers, copy : Seq(Handlers)]
  BY <1>2, <1>4
<1> QED BY <1>1, <1>3, <1>4 DEF Editings

LEMMA EventsStart == ASSUME Init PROVE EventInv
<1>1. /\ kind \in {"bus", "router"} /\ listeners = <<>>
      /\ publishes = [p \in Publishers |-> Events!Unrun] /\ edits = [t \in Threads |-> Events!Unedited]
      /\ due = {} /\ gone = Handlers
  BY DEF Init, Events!Init
<1>2. /\ Events!Unrun \in Runs /\ Events!Unrun.step = "idle" /\ Events!Unrun.called = <<>>
      /\ Events!Unrun.shrunk = FALSE /\ Events!Unrun.kept = {} /\ Events!Unrun.barred = {}
  BY DEF Events!Unrun, Runs
<1>3. \A k, x, list : Served(k, x, Events!Unrun, list)
  <2> HIDE DEF Events!Unrun
  <2> QED BY <1>2 DEF Served, Covers, Clears
<1>4. RunInv
  BY <1>1, <1>2, <1>3 DEF RunInv
<1>5. edits \in [Threads -> Editings] /\ \A t \in Threads : edits[t].step = "idle"
  BY <1>1 DEF Editings, Events!Unedited
<1>6. ListInv
  BY <1>1, <1>5 DEF ListInv, Covers, Clears, In, NoneTwice
<1> QED BY <1>4, <1>6 DEF EventInv

LEMMA ListsAreLists ==
  ASSUME EventInv, NEW p \in Publishers
  PROVE  /\ Events!ListOf(p) \in Seq(Handlers) /\ publishes[p] \in Runs
         /\ Served(kind, raced, publishes[p], Events!ListOf(p))
<1>1. publishes[p] \in Runs /\ listeners \in Seq(Handlers)
  BY DEF EventInv, ListInv, RunInv
<1> QED BY <1>1 DEF Events!ListOf, Runs, EventInv, RunInv

\* What is added is at the end of the list, and barred to nobody.
LEMMA AddedServe ==
  ASSUME EventInv, NEW h \in Handlers, Events!Added(h), UNCHANGED <<kind, raced>>,
         kind = "router" /\ h \notin raced => ~ In(h, listeners)
  PROVE  /\ RunInv'
         /\ listeners' \in Seq(Handlers) /\ gone' = gone \ {h}
         /\ \A g : In(g, listeners') <=> In(g, listeners) \/ g = h
         /\ Clears(listeners', gone')
         /\ kind = "router" => NoneTwice(listeners', raced)
<1>1. /\ listeners' = Append(listeners, h) /\ gone' = gone \ {h}
      /\ publishes' = [p \in Publishers |-> [publishes[p] EXCEPT !.barred = @ \ {h}]]
      /\ listeners \in Seq(Handlers) /\ (kind = "router" => NoneTwice(listeners, raced))
      /\ Clears(listeners, gone)
  BY DEF EventInv, ListInv, Events!Added
<1>2. listeners' \in Seq(Handlers) /\ \A g : In(g, listeners') <=> In(g, listeners) \/ g = h
  BY <1>1, Appended
<1>3. kind = "router" => NoneTwice(listeners', raced)
  BY <1>1, AddingOnce
<1>4. ASSUME NEW p \in Publishers
      PROVE  Served(kind, raced, publishes'[p], Events!ListOf(p)')
  <2> DEFINE run == publishes[p]
             list == Events!ListOf(p)
             r == [run EXCEPT !.barred = @ \ {h}]
  <2>1. list \in Seq(Handlers) /\ run \in Runs /\ Served(kind, raced, run, list)
    BY ListsAreLists
  <2>2. list = IF run.detached THEN run.own ELSE listeners
    BY DEF Events!ListOf
  <2>3. publishes'[p] = r
    BY <1>1
  <2> HIDE DEF run, list
  <2>4. /\ r \in Runs /\ r.step = run.step /\ r.next = run.next /\ r.called = run.called /\ r.had = run.had
        /\ r.shrunk = run.shrunk /\ r.kept = run.kept /\ r.barred = run.barred \ {h}
        /\ r.detached = run.detached /\ r.own = run.own
    BY <2>1 DEF Runs
  <2> HIDE DEF r
  <2>5. Served(kind, raced, r, list)
    BY <2>1, <2>4, WeakerServes
  <2>6. CASE run.detached
    <3>1. Events!ListOf(p)' = list
      BY <2>2, <2>3, <2>4, <2>6 DEF Events!ListOf
    <3> QED BY <2>3, <2>5, <3>1
  <2>7. CASE ~ run.detached
    <3>1. Events!ListOf(p)' = Append(list, h)
      BY <1>1, <2>2, <2>3, <2>4, <2>7 DEF Events!ListOf
    <3>2. h \notin r.barred /\ (kind = "router" /\ h \notin raced => ~ In(h, list))
      BY <2>2, <2>4, <2>7
    <3>3. Served(kind, raced, r, Append(list, h))
      BY <2>1, <2>5, <3>2, AddingServes
    <3> QED BY <2>3, <3>1, <3>3
  <2> QED BY <2>6, <2>7
<1>5. RunInv'
  <2>1. publishes' \in [Publishers -> Runs]
    BY <1>1, <1>4 DEF Served
  <2> QED BY <1>4, <2>1 DEF RunInv
<1> QED BY <1>1, <1>2, <1>3, <1>5 DEF Clears

LEMMA SubscribeKeepsEventInv == ASSUME EventInv, NEW h \in Handlers, Events!Subscribe(h) PROVE EventInv'
<1>1. /\ kind = "bus" /\ kind' = kind /\ edits' = edits /\ raced' = raced /\ Events!Added(h)
      /\ due' = IF Events!Under("removing") = {} THEN due \cup {h} ELSE due
      /\ ListInv
  BY DEF EventInv, Events!Subscribe
<1>2. /\ RunInv' /\ listeners' \in Seq(Handlers) /\ gone' = gone \ {h}
      /\ \A g : In(g, listeners') <=> In(g, listeners) \/ g = h
      /\ Clears(listeners', gone')
  BY <1>1, AddedServe
<1>3. due' \subseteq Handlers /\ gone' \subseteq Handlers /\ Covers(listeners', due')
  BY <1>1, <1>2 DEF ListInv, Covers
<1>4. ASSUME NEW t \in Threads
      PROVE  /\ edits[t].step # "adding"
             /\ edits[t].step = "removing" => /\ Covers(edits[t].copy, due' \ {edits[t].handler})
                                              /\ Clears(edits[t].copy, gone' \cup {edits[t].handler})
  <2>1. edits[t].step = "removing" => due' = due
    BY <1>1 DEF Events!Under
  <2> QED BY <1>1, <1>2, <2>1 DEF ListInv, Clears
<1>5. ListInv'
  BY <1>1, <1>2, <1>3, <1>4 DEF ListInv
<1> QED BY <1>2, <1>5 DEF EventInv

LEMMA CheckKeepsEventInv ==
  ASSUME EventInv, NEW t \in Threads, NEW h \in Handlers, Events!Check(t, h) PROVE EventInv'
<1>1. /\ kind = "router" /\ kind' = kind /\ listeners' = listeners /\ publishes' = publishes /\ gone' = gone
      /\ listeners \in Seq(Handlers) /\ ListInv /\ RunInv /\ edits \in [Threads -> Editings]
  BY DEF EventInv, ListInv, Events!Check
<1>2. CASE In(h, listeners)
  <2>1. due' = due \cup {h} /\ edits' = edits /\ raced' = raced
    BY <1>1, <1>2, InRange DEF Events!Check
  <2>2. ListInv'
    BY <1>1, <1>2, <2>1 DEF ListInv, Covers
  <2>3. RunInv'
    BY <1>1, <2>1 DEF RunInv, Events!ListOf
  <2> QED BY <2>2, <2>3 DEF EventInv
<1>3. CASE ~ In(h, listeners)
  <2> DEFINE e == Events!Edit("adding", h, <<>>)
  <2>1. /\ edits' = [edits EXCEPT ![t] = e] /\ due' = due
        /\ raced' = raced \cup {edits[u].handler : u \in {v \in Events!Under("adding") : edits[v].handler = h}}
    BY <1>1, <1>3, InRange DEF Events!Check
  <2>2. e \in Editings /\ e.step = "adding" /\ e.handler = h
    BY DEF Editings, Events!Edit
  <2> HIDE DEF e
  <2>3. /\ raced \subseteq raced'
        /\ \A u \in Threads : edits[u].step = "adding" /\ edits[u].handler = h => h \in raced'
    BY <2>1 DEF Events!Under
  <2>4. /\ edits' \in [Threads -> Editings] /\ edits'[t] = e
        /\ \A u \in Threads : u # t => edits'[u] = edits[u]
    BY <1>1, <2>1, <2>2
  <2>5. NoneTwice(listeners, raced')
    BY <1>1, <2>3 DEF ListInv, NoneTwice
  <2>6. ASSUME NEW u \in Threads, edits'[u].step = "adding", edits'[u].handler \notin raced'
        PROVE  /\ ~ In(edits'[u].handler, listeners)
               /\ \A v \in Threads : edits'[v].step = "adding" /\ edits'[v].handler = edits'[u].handler => v = u
    <3>1. CASE u = t
      BY <1>3, <2>2, <2>3, <2>4, <2>6, <3>1
    <3>2. CASE u # t
      <4>1. /\ edits'[u] = edits[u] /\ edits[u].handler # h
            /\ ~ In(edits[u].handler, listeners)
            /\ \A v \in Threads : edits[v].step = "adding" /\ edits[v].handler = edits[u].handler => v = u
        BY <1>1, <2>3, <2>4, <2>6, <3>2 DEF ListInv
      <4> QED BY <2>2, <2>4, <4>1
    <3> QED BY <3>1, <3>2
  <2>7. ListInv'
    BY <1>1, <2>1, <2>4, <2>5, <2>6 DEF ListInv
  <2>8. ASSUME NEW p \in Publishers
        PROVE  Served(kind, raced', publishes[p], Events!ListOf(p))
    BY <2>3, ListsAreLists, WeakerServes
  <2>9. RunInv'
    <3>1. \A p \in Publishers : Events!ListOf(p)' = Events!ListOf(p)
      BY <1>1 DEF Events!ListOf
    <3> QED BY <1>1, <2>8, <3>1 DEF RunInv
  <2> QED BY <2>7, <2>9 DEF EventInv
<1> QED BY <1>2, <1>3

\* A thread that is through with its edit.
LEMMA Edited ==
  ASSUME ListInv, NEW t \in Threads, edits' = [edits EXCEPT ![t] = Events!Unedited]
  PROVE  /\ edits' \in [Threads -> Editings] /\ edits'[t].step = "idle"
         /\ \A u \in Threads : u # t => edits'[u] = edits[u]
<1>1. edits \in [Threads -> Editings] /\ Events!Unedited \in Editings /\ Events!Unedited.step = "idle"
  BY EditsAre DEF ListInv, Editings
<1> QED BY <1>1

LEMMA AddKeepsEventInv == ASSUME EventInv, NEW t \in Threads, Events!Add(t) PROVE EventInv'
<1> DEFINE h == edits[t].handler
<1>1. /\ edits[t].step = "adding" /\ Events!Added(h) /\ due' = due \cup {h} /\ kind' = kind /\ raced' = raced
      /\ edits' = [edits EXCEPT ![t] = Events!Unedited] /\ ListInv
  BY DEF EventInv, Events!Add
<1>2. h \in Handlers /\ kind = "router" /\ kind # "bus"
  BY <1>1, EditsAre DEF ListInv
<1>3. h \notin raced => /\ ~ In(h, listeners)
                        /\ \A u \in Threads : edits[u].step = "adding" /\ edits[u].handler = h => u = t
  BY <1>1, <1>2 DEF ListInv
<1> HIDE DEF h
<1>4. /\ RunInv' /\ listeners' \in Seq(Handlers) /\ gone' = gone \ {h}
      /\ \A g : In(g, listeners') <=> In(g, listeners) \/ g = h
      /\ Clears(listeners', gone') /\ NoneTwice(listeners', raced)
  BY <1>1, <1>2, <1>3, AddedServe
<1>5. /\ edits' \in [Threads -> Editings] /\ edits'[t].step = "idle"
      /\ \A u \in Threads : u # t => edits'[u] = edits[u]
  BY <1>1, Edited
<1>6. due' \subseteq Handlers /\ gone' \subseteq Handlers /\ Covers(listeners', due')
  BY <1>1, <1>2, <1>4 DEF ListInv, Covers
<1>7. ASSUME NEW u \in Threads, edits'[u].step = "adding", edits'[u].handler \notin raced
      PROVE  /\ ~ In(edits'[u].handler, listeners')
             /\ \A v \in Threads : edits'[v].step = "adding" /\ edits'[v].handler = edits'[u].handler => v = u
  <2>1. u # t /\ edits'[u] = edits[u]
    BY <1>5, <1>7
  <2>2. /\ ~ In(edits[u].handler, listeners)
        /\ \A v \in Threads : edits[v].step = "adding" /\ edits[v].handler = edits[u].handler => v = u
    BY <1>1, <1>2, <1>7, <2>1 DEF ListInv
  <2>3. edits[u].handler # h
    BY <1>1, <2>1, <2>2 DEF h
  <2>4. \A v \in Threads : edits'[v].step = "adding" => edits'[v] = edits[v]
    BY <1>5
  <2> QED BY <1>4, <2>1, <2>2, <2>3, <2>4
<1>8. ListInv'
  BY <1>1, <1>2, <1>4, <1>5, <1>6, <1>7 DEF ListInv
<1> QED BY <1>4, <1>8 DEF EventInv

LEMMA FilterKeepsEventInv ==
  ASSUME EventInv, NEW t \in Threads, NEW h \in Handlers, Events!Filter(t, h) PROVE EventInv'
<1> DEFINE e == Events!Edit("removing", h, Events!Without(listeners, h))
<1>1. /\ kind = "bus" /\ kind # "router" /\ UNCHANGED <<kind, listeners, publishes, due, gone, raced>>
      /\ edits' = [edits EXCEPT ![t] = e]
      /\ listeners \in Seq(Handlers) /\ ListInv /\ RunInv /\ edits \in [Threads -> Editings]
  BY DEF EventInv, ListInv, Events!Filter
<1>2. /\ Events!Without(listeners, h) \in Seq(Handlers)
      /\ \A g : In(g, Events!Without(listeners, h)) <=> g # h /\ In(g, listeners)
  BY <1>1, WithoutIn
<1>3. /\ e \in Editings /\ e.step = "removing" /\ e.handler = h
      /\ Covers(e.copy, due \ {h}) /\ Clears(e.copy, gone \cup {h})
  <2>1. /\ e \in Editings /\ e.step = "removing" /\ e.handler = h /\ e.copy = Events!Without(listeners, h)
    BY <1>2 DEF Editings, Events!Edit
  <2> HIDE DEF e
  <2> QED BY <1>1, <1>2, <2>1 DEF ListInv, Covers, Clears
<1> HIDE DEF e
<1>4. /\ edits' \in [Threads -> Editings] /\ edits'[t] = e
      /\ \A u \in Threads : u # t => edits'[u] = edits[u]
  BY <1>1, <1>3
<1>5. ListInv'
  BY <1>1, <1>3, <1>4 DEF ListInv
<1>6. RunInv'
  BY <1>1 DEF RunInv, Events!ListOf
<1> QED BY <1>5, <1>6 DEF EventInv

\* Handlers leave, and a publish has as many fewer to account for.
LEMMA LeftServe ==
  ASSUME EventInv, NEW left, NEW p \in Publishers
  PROVE  LET run == publishes[p]
             l == Events!Left(left)[p]
         IN /\ l \in Runs /\ l.step = run.step /\ l.detached = run.detached /\ l.own = run.own
            /\ Served(kind, raced, l, Events!ListOf(p))
<1> DEFINE run == publishes[p]
           list == Events!ListOf(p)
           l == Events!Left(left)[p]
<1>1. run \in Runs /\ Served(kind, raced, run, list)
  BY ListsAreLists
<1>2. l = IF run.step = "running" THEN [run EXCEPT !.kept = @ \ left] ELSE run
  BY DEF Events!Left, Events!Running
<1> HIDE DEF run, list, l
<1>3. /\ l \in Runs /\ l.step = run.step /\ l.next = run.next /\ l.called = run.called /\ l.had = run.had
      /\ l.shrunk = run.shrunk /\ l.kept \subseteq run.kept /\ l.barred = run.barred
      /\ l.detached = run.detached /\ l.own = run.own
  BY <1>1, <1>2 DEF Runs
<1>4. Served(kind, raced, l, list)
  BY <1>1, <1>3, WeakerServes
<1> QED BY <1>3, <1>4 DEF run, list, l

\* The loops under way keep the list they have.
LEMMA DetachedServe ==
  ASSUME EventInv, NEW left, publishes' = [p \in Publishers |-> Events!Detach(Events!Left(left)[p])],
         UNCHANGED <<kind, raced>>
  PROVE  RunInv'
<1>1. ASSUME NEW p \in Publishers
      PROVE  Served(kind, raced, publishes'[p], Events!ListOf(p)')
  <2> DEFINE run == publishes[p]
             list == Events!ListOf(p)
             l == Events!Left(left)[p]
  <2>1. publishes'[p] = Events!Detach(l)
    OBVIOUS
  <2>2. list = IF run.detached THEN run.own ELSE listeners
    BY DEF Events!ListOf
  <2>3. /\ l \in Runs /\ l.step = run.step /\ l.detached = run.detached /\ l.own = run.own
        /\ Served(kind, raced, l, list)
    BY LeftServe
  <2> HIDE DEF run, list, l
  <2>4. CASE run.step = "running" /\ ~ run.detached
    <3> DEFINE d == [l EXCEPT !.detached = TRUE, !.own = list]
    <3>0. list \in Seq(Handlers)
      BY ListsAreLists DEF list
    <3>1. publishes'[p] = d
      BY <2>1, <2>2, <2>3, <2>4 DEF Events!Detach
    <3>2. /\ d \in Runs /\ d.step = l.step /\ d.next = l.next /\ d.called = l.called /\ d.had = l.had
          /\ d.shrunk = l.shrunk /\ d.kept = l.kept /\ d.barred = l.barred
          /\ d.detached = TRUE /\ d.own = list
      BY <2>3, <3>0 DEF Runs
    <3> HIDE DEF d
    <3>3. Served(kind, raced, d, list)
      BY <2>3, <3>2, WeakerServes
    <3>4. Events!ListOf(p)' = list
      BY <3>1, <3>2 DEF Events!ListOf
    <3> QED BY <3>1, <3>3, <3>4
  <2>5. CASE run.step = "running" /\ run.detached
    <3>1. publishes'[p] = l
      BY <2>1, <2>3, <2>5 DEF Events!Detach
    <3>2. Events!ListOf(p)' = list
      BY <2>2, <2>3, <2>5, <3>1 DEF Events!ListOf
    <3> QED BY <2>3, <3>1, <3>2
  <2>6. CASE run.step # "running"
    <3>1. publishes'[p] = l
      BY <2>1, <2>3, <2>6 DEF Events!Detach
    <3>2. Served(kind, raced, l, Events!ListOf(p)')
      BY <2>3, <2>6 DEF Served
    <3> QED BY <3>1, <3>2
  <2> QED BY <2>4, <2>5, <2>6
<1>2. publishes' \in [Publishers -> Runs]
  BY <1>1 DEF Served
<1> QED BY <1>1, <1>2 DEF RunInv

LEMMA LeaveKeepsEventInv == ASSUME EventInv, NEW t \in Threads, Events!Leave(t) PROVE EventInv'
<1> DEFINE h == edits[t].handler
<1>1. /\ kind' = kind /\ kind = "bus" /\ kind # "router" /\ listeners' = edits[t].copy /\ due' = due \ {h}
      /\ gone' = (IF Events!Under("removing") = {t} THEN gone \cup {h} ELSE gone)
      /\ publishes' = [p \in Publishers |-> Events!Detach(Events!Left({h})[p])]
      /\ edits' = [edits EXCEPT ![t] = Events!Unedited] /\ raced' = raced /\ edits[t].step = "removing" /\ ListInv
  BY DEF EventInv, Events!Leave, Events!Replaced
<1>2. RunInv'
  BY <1>1, DetachedServe
<1>3. /\ edits' \in [Threads -> Editings] /\ edits'[t].step = "idle"
      /\ \A u \in Threads : u # t => edits'[u] = edits[u]
  BY <1>1, Edited
<1>4. listeners' \in Seq(Handlers) /\ h \in Handlers
  BY <1>1, EditsAre
<1>5. Covers(edits[t].copy, due \ {h}) /\ Clears(edits[t].copy, gone \cup {h})
  BY <1>1 DEF ListInv
<1> HIDE DEF h
<1>6. /\ due' \subseteq Handlers /\ gone' \subseteq Handlers
      /\ Covers(listeners', due') /\ Clears(listeners', gone')
  BY <1>1, <1>4, <1>5 DEF ListInv, Clears
<1>7. ASSUME NEW u \in Threads
      PROVE  /\ edits'[u].step # "adding"
             /\ edits'[u].step = "removing" => /\ Covers(edits'[u].copy, due' \ {edits'[u].handler})
                                               /\ Clears(edits'[u].copy, gone' \cup {edits'[u].handler})
  <2>1. CASE u = t
    BY <1>3, <2>1
  <2>2. CASE u # t
    <3>1. edits'[u] = edits[u] /\ (edits[u].step = "removing" => gone' = gone)
      BY <1>1, <1>3, <2>2 DEF Events!Under
    <3> QED BY <1>1, <3>1 DEF ListInv, Covers
  <2> QED BY <2>1, <2>2
<1>8. ListInv'
  BY <1>1, <1>3, <1>4, <1>6, <1>7 DEF ListInv
<1> QED BY <1>2, <1>8 DEF EventInv

LEMMA ClearKeepsEventInv == ASSUME EventInv, Events!Clear PROVE EventInv'
<1>1. /\ kind' = kind /\ listeners' = <<>> /\ edits' = edits /\ raced' = raced /\ due' = {}
      /\ gone' = (IF kind = "bus" /\ Events!Under("removing") # {} THEN gone ELSE Handlers)
      /\ publishes' = [p \in Publishers |-> Events!Detach(Events!Left(Handlers)[p])] /\ ListInv
  BY DEF EventInv, Events!Clear
<1>2. RunInv'
  BY <1>1, DetachedServe
<1>3. listeners' \in Seq(Handlers) /\ (\A g : ~ In(g, listeners')) /\ \A x : NoneTwice(listeners', x)
  BY <1>1 DEF In, NoneTwice
<1>4. ASSUME kind = "bus", NEW t \in Threads, edits[t].step = "removing"
      PROVE  gone' = gone
  BY <1>1, <1>4 DEF Events!Under
<1>5. kind = "bus" => \A t \in Threads :
        /\ edits[t].step # "adding"
        /\ edits[t].step = "removing" => /\ Covers(edits[t].copy, due' \ {edits[t].handler})
                                         /\ Clears(edits[t].copy, gone' \cup {edits[t].handler})
  BY <1>1, <1>4 DEF ListInv, Covers
<1>6. ListInv'
  <2>1. Covers(listeners', due') /\ Clears(listeners', gone') /\ due' \subseteq Handlers /\ gone' \subseteq Handlers
    BY <1>1, <1>3 DEF ListInv, Covers, Clears
  <2> QED BY <1>1, <1>3, <1>5, <2>1 DEF ListInv
<1> QED BY <1>2, <1>6 DEF EventInv

LEMMA FindKeepsEventInv ==
  ASSUME EventInv, NEW t \in Threads, NEW h \in Handlers, Events!Find(t, h) PROVE EventInv'
<1> DEFINE e == Events!Edit("removing", h, <<>>)
<1>1. /\ kind = "router" /\ kind # "bus" /\ UNCHANGED <<kind, listeners, publishes, due, gone, raced>>
      /\ edits' = [edits EXCEPT ![t] = e]
      /\ ListInv /\ RunInv /\ edits \in [Threads -> Editings]
  BY DEF EventInv, ListInv, Events!Find
<1>2. e \in Editings /\ e.step = "removing"
  BY DEF Editings, Events!Edit
<1> HIDE DEF e
<1>3. /\ edits' \in [Threads -> Editings] /\ edits'[t].step # "adding"
      /\ \A u \in Threads : u # t => edits'[u] = edits[u]
  BY <1>1, <1>2
<1>4. ListInv'
  BY <1>1, <1>3 DEF ListInv
<1>5. RunInv'
  BY <1>1 DEF RunInv, Events!ListOf
<1> QED BY <1>4, <1>5 DEF EventInv

LEMMA TakeOutKeepsEventInv == ASSUME EventInv, NEW t \in Threads, Events!TakeOut(t) PROVE EventInv'
<1> DEFINE h == edits[t].handler
<1>1. /\ kind' = kind /\ kind = "router" /\ kind # "bus" /\ raced' = raced /\ listeners \in Seq(Handlers)
      /\ edits' = [edits EXCEPT ![t] = Events!Unedited] /\ edits[t].step = "removing" /\ ListInv /\ RunInv
  BY DEF EventInv, ListInv, Events!TakeOut
<1>2. /\ edits' \in [Threads -> Editings] /\ edits'[t].step = "idle"
      /\ \A u \in Threads : u # t => edits'[u] = edits[u]
  BY <1>1, Edited
<1>3. ASSUME listeners' \in Seq(Handlers), \A g : In(g, listeners') => In(g, listeners), NoneTwice(listeners', raced),
             due' \subseteq Handlers, gone' \subseteq Handlers, Covers(listeners', due'), Clears(listeners', gone')
      PROVE  ListInv'
  <2>1. ASSUME NEW u \in Threads, edits'[u].step = "adding", edits'[u].handler \notin raced
        PROVE  /\ ~ In(edits'[u].handler, listeners')
               /\ \A v \in Threads : edits'[v].step = "adding" /\ edits'[v].handler = edits'[u].handler => v = u
    <3>1. u # t /\ edits'[u] = edits[u] /\ \A v \in Threads : edits'[v].step = "adding" => edits'[v] = edits[v]
      BY <1>2, <2>1
    <3>2. /\ ~ In(edits[u].handler, listeners)
          /\ \A v \in Threads : edits[v].step = "adding" /\ edits[v].handler = edits[u].handler => v = u
      BY <1>1, <2>1, <3>1 DEF ListInv
    <3> QED BY <1>3, <3>1, <3>2
  <2> QED BY <1>1, <1>2, <1>3, <2>1 DEF ListInv
<1> HIDE DEF h
<1>4. CASE ~ In(h, listeners)
  <2>1. UNCHANGED <<listeners, due, gone, publishes>>
    BY <1>1, <1>4, InRange DEF Events!TakeOut, h
  <2>2. ListInv'
    BY <1>1, <1>3, <2>1 DEF ListInv
  <2>3. RunInv'
    BY <1>1, <2>1 DEF RunInv, Events!ListOf
  <2> QED BY <2>2, <2>3 DEF EventInv
<1>5. CASE In(h, listeners)
  <2>1. /\ listeners' = Events!WithoutFirst(listeners, h) /\ due' = due \ {h}
        /\ gone' = (IF h \in raced THEN gone ELSE gone \cup {h})
        /\ publishes' = [p \in Publishers |->
                            IF Events!Running(p) /\ ~ publishes[p].detached
                            THEN [Events!Left({h})[p] EXCEPT !.shrunk = TRUE] ELSE Events!Left({h})[p]]
    BY <1>1, <1>5, InRange DEF Events!TakeOut, h
  <2>2. /\ listeners' \in Seq(Handlers) /\ (\A g : In(g, listeners') => In(g, listeners))
        /\ \A g : g # h /\ In(g, listeners) => In(g, listeners')
        /\ NoneTwice(listeners', raced) /\ (h \notin raced => ~ In(h, listeners'))
    BY <1>1, <1>5, <2>1, Removed DEF ListInv
  <2>3. h \in Handlers
    BY <1>1, EditsAre DEF h
  <2>4. due' \subseteq Handlers /\ gone' \subseteq Handlers /\ Covers(listeners', due') /\ Clears(listeners', gone')
    BY <1>1, <2>1, <2>2, <2>3 DEF ListInv, Covers, Clears
  <2>5. ListInv'
    BY <1>3, <2>2, <2>4
  <2>6. ASSUME NEW p \in Publishers
        PROVE  Served(kind, raced, publishes'[p], Events!ListOf(p)')
    <3> DEFINE run == publishes[p]
               list == Events!ListOf(p)
               l == Events!Left({h})[p]
               r == [run EXCEPT !.kept = @ \ {h}, !.shrunk = TRUE]
    <3>1. run \in Runs /\ list \in Seq(Handlers) /\ Served("router", raced, run, list)
      BY <1>1, ListsAreLists
    <3>2. list = IF run.detached THEN run.own ELSE listeners
      BY DEF Events!ListOf
    <3>3. /\ l \in Runs /\ l.step = run.step /\ l.detached = run.detached /\ l.own = run.own
          /\ Served(kind, raced, l, list)
      BY LeftServe
    <3>4. CASE run.step = "running" /\ ~ run.detached
      <4>1. l = [run EXCEPT !.kept = @ \ {h}]
        BY <3>4 DEF Events!Left, Events!Running
      <4>2. publishes'[p] = r
        BY <2>1, <3>1, <3>4, <4>1 DEF Events!Running, Runs
      <4>3. Served("router", raced, r, Events!WithoutFirst(list, h))
        BY <1>5, <3>1, <3>2, <3>4, RemovingServes
      <4>4. r.detached = run.detached
        BY <3>1 DEF Runs
      <4> HIDE DEF r, l
      <4>5. Events!ListOf(p)' = Events!WithoutFirst(list, h)
        BY <2>1, <3>2, <3>4, <4>2, <4>4 DEF Events!ListOf
      <4> QED BY <1>1, <4>2, <4>3, <4>5
    <3> HIDE DEF l, list
    <3>5. CASE run.step = "running" /\ run.detached
      <4>1. publishes'[p] = l
        BY <2>1, <3>5 DEF Events!Running, l
      <4>2. Events!ListOf(p)' = list
        BY <3>2, <3>3, <3>5, <4>1 DEF Events!ListOf
      <4> QED BY <3>3, <4>1, <4>2
    <3>6. CASE run.step # "running"
      <4>1. publishes'[p] = l
        BY <2>1, <3>6 DEF Events!Running, l
      <4>2. Served(kind, raced, l, Events!ListOf(p)')
        BY <3>3, <3>6 DEF Served
      <4> QED BY <4>1, <4>2
    <3> QED BY <3>4, <3>5, <3>6
  <2>7. RunInv'
    <3>1. publishes' \in [Publishers -> Runs]
      BY <2>1, <2>6 DEF Served
    <3> QED BY <1>1, <2>6, <3>1 DEF RunInv
  <2> QED BY <2>5, <2>7 DEF EventInv
<1> QED BY <1>4, <1>5

\* A publish moves by itself, over the list it has.
LEMMA OneMoves ==
  ASSUME EventInv, NEW p \in Publishers, NEW r \in Runs, publishes' = [publishes EXCEPT ![p] = r],
         UNCHANGED <<kind, listeners, edits, due, gone, raced>>,
         NEW list, list = (IF r.detached THEN r.own ELSE listeners), Served(kind, raced, r, list)
  PROVE  EventInv'
<1>1. publishes \in [Publishers -> Runs] /\ ListInv
  BY DEF EventInv, RunInv
<1>2. publishes' \in [Publishers -> Runs] /\ publishes'[p] = r
  BY <1>1
<1>3. ASSUME NEW q \in Publishers
      PROVE  Served(kind, raced, publishes'[q], Events!ListOf(q)')
  <2>1. CASE q = p
    BY <1>2, <2>1 DEF Events!ListOf
  <2>2. CASE q # p
    <3>1. publishes'[q] = publishes[q]
      BY <1>1, <2>2
    <3>2. Events!ListOf(q)' = Events!ListOf(q)
      BY <3>1 DEF Events!ListOf
    <3> QED BY <3>1, <3>2, ListsAreLists
  <2> QED BY <2>1, <2>2
<1>4. ListInv'
  BY <1>1 DEF ListInv
<1> QED BY <1>2, <1>3, <1>4 DEF EventInv, RunInv

LEMMA PublishKeepsEventInv == ASSUME EventInv, NEW p \in Publishers, Events!Publish(p) PROVE EventInv'
<1> DEFINE r == [Events!Unrun EXCEPT !.step = "running", !.kept = due, !.barred = gone, !.had = listeners]
<1>1. publishes' = [publishes EXCEPT ![p] = r] /\ UNCHANGED <<kind, listeners, edits, due, gone, raced>>
  BY DEF Events!Publish
<1>2. Served(kind, raced, r, listeners)
  BY BeginningServes DEF EventInv, ListInv
<1>3. r \in Runs /\ r.detached = FALSE
  BY <1>2 DEF Served, Events!Unrun
<1> HIDE DEF r
<1> QED BY <1>1, <1>2, <1>3, OneMoves

LEMMA HandleKeepsEventInv == ASSUME EventInv, NEW p \in Publishers, Events!Handle(p) PROVE EventInv'
<1> DEFINE run == publishes[p]
           list == Events!ListOf(p)
<1>1. PICK s \in {"running", "raised"} :
        publishes' = [publishes EXCEPT ![p].next = @ + 1, ![p].step = s,
                                       ![p].called = Append(@, list[run.next])]
  BY DEF Events!Handle
<1> DEFINE r == [run EXCEPT !.next = @ + 1, !.step = s, !.called = Append(@, list[run.next])]
<1>2. run \in Runs /\ list \in Seq(Handlers) /\ Served(kind, raced, run, list)
  BY ListsAreLists
<1>3. run.step = "running" /\ run.next <= Len(list) /\ UNCHANGED <<kind, listeners, edits, due, gone, raced>>
  BY DEF Events!Handle, Events!Running
<1>4. Served(kind, raced, r, list)
  BY <1>2, <1>3, HandlingServes
<1>5. r \in Runs
  BY <1>4 DEF Served
<1>6. r.detached = run.detached /\ r.own = run.own
  BY <1>2 DEF Runs
<1>7. publishes' = [publishes EXCEPT ![p] = r]
  <2>1. publishes \in [Publishers -> Runs]
    BY DEF EventInv, RunInv
  <2>2. publishes'[p] = r
    BY <1>1, <2>1
  <2>3. \A q \in Publishers : q # p => publishes'[q] = publishes[q]
    BY <1>1, <2>1
  <2>4. publishes' = [q \in Publishers |-> publishes'[q]]
    BY <1>1, <2>1
  <2> HIDE DEF r, list
  <2> QED BY <2>1, <2>2, <2>3, <2>4
<1>8. list = IF r.detached THEN r.own ELSE listeners
  BY <1>6 DEF Events!ListOf
<1> HIDE DEF r, list
<1> QED BY <1>3, <1>4, <1>5, <1>7, <1>8, OneMoves

LEMMA EndPublishKeepsEventInv == ASSUME EventInv, NEW p \in Publishers, Events!EndPublish(p) PROVE EventInv'
<1> DEFINE run == publishes[p]
           list == Events!ListOf(p)
           r == [run EXCEPT !.step = "done"]
<1>1. publishes' = [publishes EXCEPT ![p] = r]
  BY DEF Events!EndPublish
<1>2. run \in Runs /\ list \in Seq(Handlers) /\ Served(kind, raced, run, list)
  BY ListsAreLists
<1>3. run.step = "running" /\ run.next > Len(list) /\ UNCHANGED <<kind, listeners, edits, due, gone, raced>>
  BY DEF Events!EndPublish, Events!Running
<1>4. Served(kind, raced, r, list)
  BY <1>2, <1>3, EndingServes
<1>5. r \in Runs /\ r.detached = run.detached /\ r.own = run.own
  BY <1>2 DEF Runs
<1>6. list = IF r.detached THEN r.own ELSE listeners
  BY <1>5 DEF Events!ListOf
<1> HIDE DEF r, list
<1> QED BY <1>1, <1>3, <1>4, <1>5, <1>6, OneMoves

LEMMA EventsAreInvariant == Spec => []EventInv
<1>1. EventInv /\ [Next]_vars => EventInv'
  <2> SUFFICES ASSUME EventInv, [Next]_vars
               PROVE  EventInv'
    OBVIOUS
  <2>1. CASE Events!Next
    BY <2>1, SubscribeKeepsEventInv, CheckKeepsEventInv, AddKeepsEventInv, FilterKeepsEventInv,
       LeaveKeepsEventInv, FindKeepsEventInv, TakeOutKeepsEventInv, ClearKeepsEventInv,
       PublishKeepsEventInv, HandleKeepsEventInv, EndPublishKeepsEventInv DEF Events!Next
  <2>2. CASE UNCHANGED Events!vars
    BY <2>2 DEF EventInv, ListInv, RunInv, Events!vars, Events!ListOf
  <2> QED BY <2>1, <2>2, EventsMove
<1> QED BY <1>1, EventsStart, PTL DEF Spec

LEMMA SameCardinality == \A set : Events!Cardinality(set) = Cardinality(set)
BY DEF Events!Cardinality, Cardinality

LEMMA Counting ==
  ASSUME NEW s \in Seq(Handlers), NEW t \in Seq(Handlers), NEW h
  PROVE  /\ Events!Count(s, h) \in Nat
         /\ (Len(s) <= Len(t) /\ \A i \in 1..Len(s) : s[i] = t[i]) => Events!Count(s, h) <= Events!Count(t, h)
         /\ (\A i, j \in 1..Len(s) : s[i] = h /\ s[j] = h => i = j) => Events!Count(s, h) <= 1
<1> DEFINE S == {i \in 1..Len(s) : s[i] = h}
           T == {i \in 1..Len(t) : t[i] = h}
<1>1. Events!Count(s, h) = Cardinality(S) /\ Events!Count(t, h) = Cardinality(T)
  <2>1. DOMAIN s = 1..Len(s) /\ DOMAIN t = 1..Len(t)
    OBVIOUS
  <2>2. {i \in DOMAIN s : s[i] = h} = S /\ {i \in DOMAIN t : t[i] = h} = T
    BY <2>1
  <2> HIDE DEF S, T
  <2> QED BY <2>2, SameCardinality DEF Events!Count
<1>2. Len(s) \in Nat /\ Len(t) \in Nat
  OBVIOUS
<1>3. IsFiniteSet(1..Len(s)) /\ IsFiniteSet(1..Len(t))
  BY <1>2, FS_Interval
<1>4. IsFiniteSet(S) /\ IsFiniteSet(T)
  BY <1>3, FS_Subset
<1>5. Cardinality(S) \in Nat
  BY <1>4, FS_CardinalityType
<1>6. ASSUME Len(s) <= Len(t), \A i \in 1..Len(s) : s[i] = t[i]
      PROVE  Cardinality(S) <= Cardinality(T)
  <2>1. S \subseteq T
    BY <1>2, <1>6
  <2> HIDE DEF S, T
  <2> QED BY <1>4, <2>1, FS_Subset
<1>7. ASSUME \A i, j \in 1..Len(s) : s[i] = h /\ s[j] = h => i = j
      PROVE  Cardinality(S) <= 1
  <2>1. S = {} \/ \E x \in S : S = {x}
    BY <1>7
  <2> HIDE DEF S
  <2>2. CASE S = {}
    BY <2>2, FS_EmptySet
  <2>3. CASE \E x \in S : S = {x}
    <3>1. PICK x : S = {x}
      BY <2>3
    <3>2. Cardinality(S) = 1
      BY <3>1, FS_Singleton
    <3> QED BY <3>2
  <2> QED BY <2>1, <2>2, <2>3
<1> QED BY <1>1, <1>5, <1>6, <1>7

LEMMA PrefixMeans ==
  ASSUME NEW s \in Seq(Handlers), NEW t \in Seq(Handlers), Len(s) <= Len(t), \A i \in 1..Len(s) : s[i] = t[i]
  PROVE  Events!Begins(s, t)
<1>1. Len(s) \in Nat /\ Len(t) \in Nat
  OBVIOUS
<1>2. SubSeq(s, 1, Len(s)) = [i \in 1..Len(s) |-> s[i]]
  BY <1>1
<1>3. SubSeq(t, 1, Len(s)) = [i \in 1..Len(s) |-> t[i]]
  BY <1>1
<1> QED BY <1>2, <1>3 DEF Events!Begins

LEMMA EventsServe == EventInv => Events!SubscribersAreServed
<1> SUFFICES ASSUME EventInv, NEW p \in Publishers
             PROVE  LET run == publishes[p] IN
                    /\ run.kept \subseteq Events!Range(run.had)
                    /\ run.step = "done" =>
                         \A h \in run.kept : \/ Events!Count(run.called, h) >= Events!Count(run.had, h)
                                             \/ kind = "router" /\ run.shrunk
                    /\ run.barred \cap Events!Range(run.called) = {}
                    /\ kind = "router" => \A h \in run.kept \ raced : Events!Count(run.called, h) <= 1
                    /\ ~ run.shrunk => Events!Begins(run.called, run.had) \/ Events!Begins(run.had, run.called)
  BY DEF Events!SubscribersAreServed
<1> DEFINE run == publishes[p]
<1>1. Served(kind, raced, run, Events!ListOf(p)) /\ kind \in {"bus", "router"}
  BY DEF EventInv, ListInv, RunInv
<1>2. run \in Runs /\ run.called \in Seq(Handlers) /\ run.had \in Seq(Handlers)
  BY <1>1 DEF Served, Runs
<1>3. Len(run.called) \in Nat /\ Len(run.had) \in Nat
  BY <1>2
<1>4. ~ run.shrunk => \A i \in 1..Len(run.called) : i <= Len(run.had) => run.called[i] = run.had[i]
  BY <1>1 DEF Served
<1> HIDE DEF run
<1>5. ASSUME run.step = "done", NEW h \in run.kept, ~ (kind = "router" /\ run.shrunk)
      PROVE  Events!Count(run.called, h) >= Events!Count(run.had, h)
  <2>1. ~ run.shrunk /\ Len(run.had) <= Len(run.called)
    BY <1>1, <1>5 DEF Served
  <2>2. \A i \in 1..Len(run.had) : run.had[i] = run.called[i]
    BY <1>3, <1>4, <2>1
  <2>3. /\ Events!Count(run.had, h) <= Events!Count(run.called, h)
        /\ Events!Count(run.had, h) \in Nat /\ Events!Count(run.called, h) \in Nat
    BY <1>2, <2>1, <2>2, Counting
  <2> QED BY <2>3
<1>6. ASSUME kind = "router", NEW h \in run.kept \ raced
      PROVE  Events!Count(run.called, h) <= 1
  <2>1. \A i, j \in 1..Len(run.called) : run.called[i] = h /\ run.called[j] = h => i = j
    BY <1>1, <1>6 DEF Served
  <2> QED BY <1>2, <2>1, Counting
<1>7. ASSUME ~ run.shrunk
      PROVE  Events!Begins(run.called, run.had) \/ Events!Begins(run.had, run.called)
  <2>1. CASE Len(run.called) <= Len(run.had)
    <3>1. \A i \in 1..Len(run.called) : run.called[i] = run.had[i]
      BY <1>3, <1>4, <1>7, <2>1
    <3> QED BY <1>2, <2>1, <3>1, PrefixMeans
  <2>2. CASE Len(run.had) <= Len(run.called)
    <3>1. \A i \in 1..Len(run.had) : run.had[i] = run.called[i]
      BY <1>3, <1>4, <1>7, <2>2
    <3> QED BY <1>2, <2>2, <3>1, PrefixMeans
  <2> QED BY <1>3, <2>1, <2>2
<1>8. run.kept \subseteq Events!Range(run.had) /\ run.barred \cap Events!Range(run.called) = {}
  BY <1>1, <1>2, InRange DEF Served, Covers, Clears
<1> QED BY <1>5, <1>6, <1>7, <1>8 DEF run

-----------------------------------------------------------------------------
(***************************************************************************)
(* The kernel and the services.                                            *)
(***************************************************************************)
LEMMA CoreMoves == [Next]_vars => [Core!Next]_(Core!vars)
BY DEF Next, vars, deskVars, otherVars, serviceVars, Core!vars

LEMMA CoreStarts == ASSUME Init PROVE CoreInv
<1>1. kernel = "CREATED" /\ services = <<>> /\ loop = Core!Idle /\ up = {} /\ starts = 0
  BY DEF Init, Core!Init
<1>2. /\ loop \in Loops /\ loop.method = "none" /\ loop.count = 0
  BY <1>1 DEF Core!Idle, Loops
<1>3. services \in Seq(Services) /\ Len(services) = 0
  BY <1>1
<1> QED BY <1>1, <1>2, <1>3 DEF CoreInv

LEMMA KernelKeepsCoreInv == ASSUME CoreInv, Core!Kernel PROVE CoreInv'
<1>1. UNCHANGED <<services, loop, up>>
  BY DEF Core!Kernel
<1>2. /\ starts' \in 0..1 /\ kernel' \in {"CREATED", "INITIALIZED", "RUNNING", "STOPPED", "SHUTDOWN"}
      /\ kernel' \in {"CREATED", "INITIALIZED"} => starts' = 0
  BY DEF CoreInv, Core!Kernel
<1> QED BY <1>1, <1>2 DEF CoreInv

LEMMA RegisterKeepsCoreInv ==
  ASSUME CoreInv, NEW service \in Services, Core!Register(service)
  PROVE  CoreInv'
<1>1. /\ services' = Append(services, service) /\ UNCHANGED <<kernel, loop, up, starts>>
      /\ services \in Seq(Services) /\ loop \in Loops
  BY DEF CoreInv, Core!Register
<1>2. Len(services) \in Nat /\ loop.next \in Nat /\ loop.count \in Nat
  BY <1>1 DEF Loops
<1>3. /\ services' \in Seq(Services) /\ Len(services') = Len(services) + 1
      /\ \A i \in 1..Len(services) : services'[i] = services[i]
  BY <1>1
<1>4. ASSUME NEW n \in Nat, n <= Len(services)
      PROVE  Among(services, n) \subseteq Among(services', n) /\ Among(services, n) \subseteq Among(services', Len(services'))
  <2>1. \A i \in 1..n : i \in 1..Len(services) /\ i \in 1..Len(services')
    BY <1>2, <1>3, <1>4
  <2> QED BY <1>3, <2>1 DEF Among
<1>5. up' \subseteq Among(services', Len(services'))
  BY <1>1, <1>2, <1>4 DEF CoreInv
<1>6. ASSUME loop.method = "start"
      PROVE  /\ loop.next >= 1 /\ loop.next <= Len(services') + 1
             /\ \A i \in 1..(loop.next - 1) : services'[i] \in up
             /\ loop.step = "done" => \A i \in 1..loop.count : services'[i] \in up
  <2>1. /\ loop.next >= 1 /\ loop.next <= Len(services) + 1 /\ loop.count <= Len(services)
        /\ \A i \in 1..(loop.next - 1) : services[i] \in up
        /\ loop.step = "done" => \A i \in 1..loop.count : services[i] \in up
    BY <1>6 DEF CoreInv
  <2>2. loop.next <= Len(services') + 1
    BY <1>2, <1>3, <2>1
  <2>3. ASSUME NEW i \in 1..(loop.next - 1)
        PROVE  services'[i] \in up
    <3>1. i \in 1..Len(services)
      BY <1>2, <2>1
    <3> QED BY <1>3, <2>1, <3>1
  <2>4. ASSUME loop.step = "done", NEW i \in 1..loop.count
        PROVE  services'[i] \in up
    <3>1. i \in 1..Len(services)
      BY <1>2, <2>1
    <3> QED BY <1>3, <2>1, <2>4, <3>1
  <2> QED BY <2>1, <2>2, <2>3, <2>4
<1>7. ASSUME loop.method = "stop"
      PROVE  /\ loop.next <= Len(services')
             /\ loop.step \in {"running", "raised"} => up \subseteq Among(services', loop.next)
             /\ loop.step = "done" => up = {}
  <2>1. /\ loop.next <= Len(services)
        /\ loop.step \in {"running", "raised"} => up \subseteq Among(services, loop.next)
        /\ loop.step = "done" => up = {}
    BY <1>7 DEF CoreInv
  <2>2. Among(services, loop.next) \subseteq Among(services', loop.next)
    BY <1>1, <1>2, <1>4, <2>1
  <2>3. loop.next <= Len(services')
    BY <1>2, <1>3, <2>1
  <2> QED BY <2>1, <2>2, <2>3
<1>8. loop.count <= Len(services')
  <2>1. loop.count <= Len(services)
    BY DEF CoreInv
  <2> QED BY <1>2, <1>3, <2>1
<1> QED BY <1>1, <1>3, <1>5, <1>6, <1>7, <1>8 DEF CoreInv

LEMMA BeginKeepsCoreInv ==
  ASSUME CoreInv, NEW method \in {"initialize", "start", "stop"}, Core!Begin(method)
  PROVE  CoreInv'
<1> DEFINE n == Len(services)
<1>1. /\ loop' = [method |-> method, step |-> "running", next |-> IF method = "stop" THEN n ELSE 1, count |-> n]
      /\ UNCHANGED <<kernel, services, up, starts>>
      /\ services \in Seq(Services) /\ n \in Nat /\ up \subseteq Among(services, n)
  BY DEF CoreInv, Core!Begin
<1> HIDE DEF n
<1>2. /\ loop' \in Loops /\ loop'.method = method /\ loop'.step = "running" /\ loop'.count = n
      /\ loop'.next = IF method = "stop" THEN n ELSE 1
  BY <1>1 DEF Loops
<1>3. loop'.method = "start" =>
        /\ loop'.next >= 1 /\ loop'.next <= n + 1
        /\ \A i \in 1..(loop'.next - 1) : services[i] \in up
  BY <1>1, <1>2
<1>4. loop'.method = "stop" => loop'.next = n
  BY <1>2
<1>5. services' = services
  BY <1>1
<1> QED BY <1>1, <1>2, <1>3, <1>4, <1>5 DEF CoreInv, n, Among

LEMMA CallKeepsCoreInv == ASSUME CoreInv, Core!Call PROVE CoreInv'
<1> DEFINE n == Len(services)
           x == services[loop.next]
<1>1. /\ UNCHANGED <<kernel, services, starts>> /\ loop.step = "running" /\ ~ Core!Exhausted
      /\ services \in Seq(Services) /\ loop \in Loops
  BY DEF CoreInv, Core!Call, Core!Looping
<1>2. PICK raised \in BOOLEAN :
        /\ loop' = [loop EXCEPT !.step = IF raised THEN "raised" ELSE "running",
                                !.next = IF raised THEN @ ELSE IF loop.method = "stop" THEN @ - 1 ELSE @ + 1]
        /\ up' = IF raised THEN up
                 ELSE CASE loop.method = "start" -> up \cup {x}
                        [] loop.method = "stop" -> up \ {x}
                        [] OTHER -> up
  BY DEF Core!Call
<1>3. n \in Nat /\ loop.next \in Nat /\ loop.count \in Nat
  BY <1>1 DEF Loops
<1>4. /\ up \subseteq Among(services, n) /\ loop.count <= n
      /\ loop.method = "start" =>
           /\ loop.next >= 1 /\ loop.next <= n
           /\ \A i \in 1..(loop.next - 1) : services[i] \in up
      /\ loop.method = "stop" => loop.next # 0 /\ loop.next <= n /\ up \subseteq Among(services, loop.next)
  BY <1>1, <1>3 DEF CoreInv, Core!Exhausted
<1> HIDE DEF x, n
<1>5. CASE raised
  <2>1. up' = up /\ loop' = [loop EXCEPT !.step = "raised", !.next = loop.next]
    BY <1>2, <1>5
  <2>2. /\ loop' \in Loops /\ loop'.method = loop.method /\ loop'.step = "raised" /\ loop'.next = loop.next
        /\ loop'.count = loop.count
    BY <1>1, <1>3, <2>1 DEF Loops
  <2>3. loop.next <= n => loop.next <= n + 1
    BY <1>3
  <2> QED BY <1>1, <1>4, <2>1, <2>2, <2>3 DEF CoreInv, n
<1>6. CASE ~ raised /\ loop.method = "start"
  <2>1. up' = up \cup {x} /\ loop' = [loop EXCEPT !.step = "running", !.next = loop.next + 1]
    BY <1>2, <1>6
  <2>2. /\ loop' \in Loops /\ loop'.method = "start" /\ loop'.step = "running" /\ loop'.next = loop.next + 1
        /\ loop'.count = loop.count
    <3>1. loop.next + 1 \in Nat
      BY <1>3
    <3> QED BY <1>1, <1>6, <2>1, <3>1 DEF Loops
  <2>3. up' \subseteq Among(services, n)
    BY <1>3, <1>4, <1>6, <2>1 DEF Among, x
  <2>4. loop'.next >= 1 /\ loop'.next <= n + 1
    BY <1>3, <1>4, <1>6, <2>2
  <2>5. \A i \in 1..(loop'.next - 1) : services[i] \in up'
    <3>1. \A i \in 1..(loop'.next - 1) : i = loop.next \/ i \in 1..(loop.next - 1)
      BY <1>3, <2>2
    <3> QED BY <1>4, <1>6, <2>1, <3>1 DEF x
  <2> QED BY <1>1, <1>4, <2>2, <2>3, <2>4, <2>5 DEF CoreInv, n
<1>7. CASE ~ raised /\ loop.method = "stop"
  <2>1. up' = up \ {x} /\ loop' = [loop EXCEPT !.step = "running", !.next = loop.next - 1]
    BY <1>2, <1>7
  <2>2. loop.next - 1 \in Nat /\ loop.next - 1 <= n
    BY <1>3, <1>4, <1>7
  <2>3. /\ loop' \in Loops /\ loop'.method = "stop" /\ loop'.step = "running" /\ loop'.next = loop.next - 1
        /\ loop'.count = loop.count
    BY <1>1, <1>7, <2>1, <2>2 DEF Loops
  <2>4. up' \subseteq Among(services, loop.next - 1)
    <3> SUFFICES ASSUME NEW v \in up, v # x
                 PROVE  v \in Among(services, loop.next - 1)
      BY <2>1
    <3>1. PICK i \in 1..loop.next : v = services[i]
      BY <1>4, <1>7 DEF Among
    <3>2. i # loop.next
      BY <3>1 DEF x
    <3>3. i \in 1..(loop.next - 1)
      BY <1>3, <3>2
    <3> QED BY <3>1, <3>3 DEF Among
  <2> QED BY <1>1, <1>4, <2>1, <2>2, <2>3, <2>4 DEF CoreInv, n
<1>8. CASE ~ raised /\ loop.method \notin {"start", "stop"}
  <2>1. up' = up /\ loop' = [loop EXCEPT !.step = "running", !.next = loop.next + 1]
    BY <1>2, <1>8
  <2>2. /\ loop' \in Loops /\ loop'.method = loop.method /\ loop'.count = loop.count
    <3>1. loop.next + 1 \in Nat
      BY <1>3
    <3> QED BY <1>1, <2>1, <3>1 DEF Loops
  <2> QED BY <1>1, <1>4, <1>8, <2>1, <2>2 DEF CoreInv, n
<1> QED BY <1>5, <1>6, <1>7, <1>8

LEMMA EndKeepsCoreInv == ASSUME CoreInv, Core!End PROVE CoreInv'
<1> DEFINE n == Len(services)
<1>1. /\ UNCHANGED <<kernel, services, up, starts>> /\ loop.step = "running" /\ Core!Exhausted
      /\ loop' = [loop EXCEPT !.step = "done"]
      /\ services \in Seq(Services) /\ loop \in Loops
  BY DEF CoreInv, Core!End, Core!Looping
<1>2. n \in Nat /\ loop.next \in Nat /\ loop.count \in Nat
  BY <1>1 DEF Loops
<1>3. /\ loop' \in Loops /\ loop'.method = loop.method /\ loop'.step = "done" /\ loop'.next = loop.next
      /\ loop'.count = loop.count
  BY <1>1 DEF Loops
<1>4. loop.count <= n
  BY DEF CoreInv
<1> HIDE DEF n
<1>5. loop.method = "start" => \A i \in 1..loop.count : services[i] \in up
  <2> SUFFICES ASSUME loop.method = "start", NEW i \in 1..loop.count
               PROVE  services[i] \in up
    OBVIOUS
  <2>1. loop.next > n
    BY <1>1 DEF Core!Exhausted, n
  <2>2. i \in 1..(loop.next - 1)
    BY <1>2, <1>4, <2>1
  <2> QED BY <2>2 DEF CoreInv
<1>6. loop.method = "stop" => up = {}
  <2> SUFFICES ASSUME loop.method = "stop"
               PROVE  up \subseteq {}
    OBVIOUS
  <2>1. loop.next = 0 /\ up \subseteq Among(services, loop.next)
    BY <1>1 DEF Core!Exhausted, CoreInv
  <2> QED BY <2>1 DEF Among
<1> QED BY <1>1, <1>3, <1>5, <1>6 DEF CoreInv

LEMMA CoreIsInvariant == Spec => []CoreInv
<1>1. CoreInv /\ [Next]_vars => CoreInv'
  <2> SUFFICES ASSUME CoreInv, [Next]_vars
               PROVE  CoreInv'
    OBVIOUS
  <2>1. CASE Core!Next
    BY <2>1, KernelKeepsCoreInv, RegisterKeepsCoreInv, BeginKeepsCoreInv, CallKeepsCoreInv, EndKeepsCoreInv
       DEF Core!Next
  <2>2. CASE UNCHANGED Core!vars
    BY <2>2 DEF CoreInv, Core!vars, Among
  <2> QED BY <2>1, <2>2, CoreMoves
<1> QED BY <1>1, CoreStarts, PTL DEF Spec

\* A handler subscribed at an event, and that stays so, is called as often as it stands in the
\* list, in order, or was passed over by a router whose list shrank, and by a router once,
\* unless two subscriptions of it overlapped; one not subscribed is not called; the kernel runs once, stop() that ends
\* leaves nothing up, and start() that ends has started every service it found.
THEOREM AlwaysSubscribersAreServed == Spec => []SubscribersAreServed
<1>1. CoreInv => Core!StopsUndoStarts
  BY DEF CoreInv, Core!StopsUndoStarts, Among
<1>2. EventInv /\ CoreInv => SubscribersAreServed
  BY <1>1, EventsServe DEF SubscribersAreServed
<1> QED BY <1>2, EventsAreInvariant, CoreIsInvariant, PTL

-----------------------------------------------------------------------------
(***************************************************************************)
(* The histories.                                                          *)
(***************************************************************************)
LEMMA TradesMove == [Next]_vars => [Histories!Next]_(Histories!vars)
BY DEF Next, vars, deskVars, historyVars, Histories!vars, Histories!Next

\* What a bounded queue keeps of a longer one goes on being the newest of it.
LEMMA KeptGrows ==
  ASSUME Histories!HistoryAssumption, NEW X, NEW queue \in Seq(X), NEW all \in Seq(X), NEW items \in Seq(X),
         Histories!Kept(queue, all)
  PROVE  /\ Histories!Appended(queue, items) \in Seq(X) /\ all \o items \in Seq(X)
         /\ Histories!Kept(Histories!Appended(queue, items), all \o items)
<1> DEFINE M == MaxHistory
           q == Len(queue)
           e == Len(all)
           n == Len(items)
           longer == queue \o items
           whole == all \o items
           new == Histories!Appended(queue, items)
<1>1. M \in Nat \ {0} /\ q \in Nat /\ e \in Nat /\ n \in Nat
  BY DEF Histories!HistoryAssumption
<1>2. q = (IF e < M THEN e ELSE M) /\ \A i \in 1..q : queue[i] = all[e - q + i]
  BY DEF Histories!Kept
<1>3. /\ longer \in Seq(X) /\ Len(longer) = q + n
      /\ \A i \in 1..(q + n) : longer[i] = IF i <= q THEN queue[i] ELSE items[i - q]
  BY ConcatProperties
<1>4. /\ whole \in Seq(X) /\ Len(whole) = e + n
      /\ \A i \in 1..(e + n) : whole[i] = IF i <= e THEN all[i] ELSE items[i - e]
  BY ConcatProperties
<1> HIDE DEF q, e, n, longer, whole, M
<1>5. ASSUME NEW i \in 1..(q + n)
      PROVE  longer[i] = whole[e - q + i] /\ e - q + i \in 1..(e + n)
  <2>1. e - q + i \in 1..(e + n)
    BY <1>1, <1>2
  <2>2. CASE i <= q
    <3>1. i \in 1..q /\ e - q + i <= e
      BY <1>1, <2>2
    <3> QED BY <1>2, <1>3, <1>4, <2>1, <2>2, <3>1
  <2>3. CASE ~(i <= q)
    <3>1. ~(e - q + i <= e) /\ (e - q + i) - e = i - q
      BY <1>1, <2>3
    <3> QED BY <1>3, <1>4, <2>1, <2>3, <3>1
  <2> QED BY <1>1, <2>1, <2>2, <2>3
<1>6. CASE q + n <= M
  <2>1. new = longer
    BY <1>3, <1>6 DEF Histories!Appended, longer, M
  <2>2. q + n = IF e + n < M THEN e + n ELSE M
    BY <1>1, <1>2, <1>6
  <2>3. \A i \in 1..(q + n) : longer[i] = whole[(e + n) - (q + n) + i]
    <3>1. \A i \in 1..(q + n) : (e + n) - (q + n) + i = e - q + i
      BY <1>1
    <3> QED BY <1>5, <3>1
  <2>4. Histories!Kept(longer, whole)
    BY <1>3, <1>4, <2>2, <2>3 DEF Histories!Kept, M
  <2> QED BY <1>3, <1>4, <2>1, <2>4 DEF whole
<1>7. CASE ~(q + n <= M)
  <2> DEFINE d == q + n - M
  <2>1. new = SubSeq(longer, d + 1, q + n)
    <3>1. new = IF Len(longer) <= M THEN longer ELSE SubSeq(longer, Len(longer) - M + 1, Len(longer))
      BY DEF Histories!Appended, longer, M
    <3>2. Len(longer) = q + n /\ Len(longer) - M + 1 = d + 1
      BY <1>1, <1>3
    <3> HIDE DEF new, d, longer
    <3>3. ~(Len(longer) <= M)
      BY <1>7, <3>2
    <3> QED BY <3>1, <3>2, <3>3
  <2>2. d \in Nat /\ d + 1 \in 1..(q + n) /\ (q + n) - (d + 1) + 1 = M
    BY <1>1, <1>7
  <2> HIDE DEF d
  <2>3. new \in Seq(X) /\ Len(new) = M /\ \A i \in 1..M : new[i] = longer[d + i]
    <3> DEFINE b == q + n
    <3>1. b \in Nat /\ d + 1 \in 1..b /\ b - (d + 1) + 1 = M /\ Len(longer) = b
      BY <1>1, <1>3, <2>2
    <3> HIDE DEF b
    <3>2. new = SubSeq(longer, d + 1, b)
      BY <2>1 DEF b
    <3>3. Len(new) = b - (d + 1) + 1
      BY <1>3, <2>2, <3>1, <3>2
    <3>4. \A i \in 1..M : new[i] = longer[d + 1 + i - 1]
      BY <1>1, <1>3, <2>2, <3>1, <3>2
    <3>5. \A i \in 1..M : d + 1 + i - 1 = d + i
      BY <1>1, <2>2
    <3>6. new \in Seq(X)
      BY <1>3, <2>2, <3>1, <3>2
    <3> QED BY <3>1, <3>3, <3>4, <3>5, <3>6
  <2>4. M = IF e + n < M THEN e + n ELSE M
    BY <1>1, <1>2, <1>7
  <2>5. ASSUME NEW i \in 1..M
        PROVE  new[i] = whole[(e + n) - M + i]
    <3>1. d + i \in 1..(q + n) /\ e - q + (d + i) = (e + n) - M + i
      BY <1>1, <2>2 DEF d
    <3> QED BY <1>5, <2>3, <3>1
  <2> HIDE DEF new
  <2>6. Histories!Kept(new, whole)
    BY <1>4, <2>3, <2>4, <2>5 DEF Histories!Kept, M
  <2> QED BY <1>4, <2>3, <2>6 DEF whole, new
<1> QED BY <1>6, <1>7

LEMMA SameFinite == \A set : Histories!IsFiniteSet(set) <=> IsFiniteSet(set)
BY DEF Histories!IsFiniteSet, IsFiniteSet

LEMMA TradesFinite ==
  ASSUME TradesInv
  PROVE  /\ IsFiniteSet(Threads) /\ Cardinality(Threads) \in Nat
         /\ \A i \in 1..Len(stored) :
              /\ IsFiniteSet(Overtakers(i)) /\ Cardinality(Overtakers(i)) \in Nat
              /\ IsFiniteSet(Waiting(i)) /\ Cardinality(Waiting(i)) \in Nat
<1>1. IsFiniteSet(Threads)
  BY PartsAssumption, SameFinite DEF Histories!HistoryAssumption
<1>2. Cardinality(Threads) \in Nat
  BY <1>1, FS_CardinalityType
<1>3. Len(stored) \in Nat
  BY DEF TradesInv
<1>4. ASSUME NEW i \in 1..Len(stored)
      PROVE  IsFiniteSet(Overtakers(i)) /\ IsFiniteSet(Waiting(i))
  <2>1. Overtakers(i) \in SUBSET ((i + 1)..Len(stored)) /\ Waiting(i) \in SUBSET Threads
    BY DEF Overtakers, Waiting
  <2>2. IsFiniteSet((i + 1)..Len(stored))
    BY <1>3, FS_Interval
  <2> QED BY <1>1, <2>1, <2>2, FS_Subset
<1> QED BY <1>1, <1>2, <1>4, FS_CardinalityType

LEMMA TradesStart == ASSUME Init PROVE TradesInv
<1>1. /\ now = 0 /\ trades = <<>> /\ stored = <<>> /\ pending = [t \in Threads |-> None]
      /\ MaxHistory \in Nat \ {0}
  BY PartsAssumption DEF Init, Histories!Init, Histories!HistoryAssumption
<1>2. trades \in Seq(Stamped) /\ stored \in Seq(Stamped) /\ Len(trades) = 0 /\ Len(stored) = 0
  BY <1>1
<1>3. Histories!Kept(trades, stored)
  BY <1>1, <1>2 DEF Histories!Kept
<1> QED BY <1>1, <1>2, <1>3 DEF TradesInv

\* Steps that store nothing and stamp nothing early keep the bound.
LEMMA FewerWaiting ==
  ASSUME TradesInv, UNCHANGED <<trades, stored>>, now' \in Nat, now <= now',
         pending' \in [Threads -> Stamped \cup {None}],
         \A t \in Threads : pending'[t] # None =>
            \/ pending'[t] = pending[t]
            \/ pending'[t].clocked => pending'[t].stamp = now
  PROVE  TradesInv'
<1>1. /\ now \in Nat /\ stored \in Seq(Stamped) /\ Len(stored) \in Nat
      /\ pending \in [Threads -> Stamped \cup {None}]
  BY DEF TradesInv
<1>2. ASSUME NEW t \in Threads, pending'[t] # None, pending'[t].clocked
      PROVE  pending'[t].stamp <= now'
  <2>1. CASE pending'[t] = pending[t]
    <3>1. pending[t].stamp <= now /\ pending[t] \in Stamped
      BY <1>1, <1>2, <2>1 DEF TradesInv
    <3>2. pending[t].stamp \in Nat
      BY <3>1 DEF Stamped
    <3> QED BY <1>1, <2>1, <3>1, <3>2
  <2>2. CASE pending'[t].stamp = now
    BY <1>1, <2>2
  <2> QED BY <1>2, <2>1, <2>2
<1>3. ASSUME NEW i \in 1..Len(stored)
      PROVE  Bounded(i)'
  <2> SUFFICES ASSUME stored[i].clocked
               PROVE  /\ stored[i].stamp <= now'
                      /\ Cardinality(Overtakers(i)') + Cardinality(Waiting(i)') < Cardinality(Threads)
    BY DEF Bounded
  <2>1. /\ stored[i].stamp <= now /\ stored[i].stamp \in Nat
        /\ Cardinality(Overtakers(i)) + Cardinality(Waiting(i)) < Cardinality(Threads)
    <3>1. Bounded(i) /\ stored[i] \in Stamped
      BY <1>1 DEF TradesInv
    <3> QED BY <3>1 DEF Bounded, Stamped
  <2>2. Overtakers(i)' = Overtakers(i)
    BY DEF Overtakers
  <2>3. Waiting(i)' \in SUBSET Waiting(i)
    <3> SUFFICES ASSUME NEW t \in Threads, pending'[t] # None, pending'[t].clocked,
                        pending'[t].stamp < stored[i].stamp
                 PROVE  pending'[t] = pending[t]
      BY DEF Waiting
    <3>1. ~(pending'[t].stamp = now)
      BY <1>1, <2>1
    <3> QED BY <3>1
  <2>4. Cardinality(Waiting(i)') \in Nat /\ Cardinality(Waiting(i)') <= Cardinality(Waiting(i))
    BY <2>3, TradesFinite, FS_Subset, FS_CardinalityType
  <2>5. Cardinality(Overtakers(i)) + Cardinality(Waiting(i)') < Cardinality(Threads)
    <3> DEFINE a == Cardinality(Overtakers(i))
               b == Cardinality(Waiting(i))
               c == Cardinality(Waiting(i)')
               d == Cardinality(Threads)
    <3>1. a \in Nat /\ b \in Nat /\ c \in Nat /\ d \in Nat /\ c <= b /\ a + b < d
      BY <2>1, <2>4, TradesFinite
    <3> HIDE DEF a, b, c, d
    <3>2. a + c < d
      BY <3>1
    <3> QED BY <3>2 DEF a, c, d
  <2> QED BY <1>1, <2>1, <2>2, <2>5
<1>4. Histories!Kept(trades, stored)' /\ trades' \in Seq(Stamped) /\ stored' \in Seq(Stamped)
  BY DEF TradesInv, Histories!Kept
<1> QED BY <1>1, <1>2, <1>3, <1>4 DEF TradesInv

LEMMA ExecuteKeepsTradesInv ==
  ASSUME TradesInv, NEW t \in Threads, NEW given \in 0..MaxTime \cup {None}, NEW finite \in BOOLEAN,
         Histories!Execute(t, given, finite)
  PROVE  TradesInv'
<1> DEFINE r == [stamp |-> Histories!Stamp(given), clocked |-> given = None, finite |-> finite]
<1>1. pending' = [pending EXCEPT ![t] = r] /\ UNCHANGED <<now, trades, stored>>
  BY DEF Histories!Execute
<1>2. now \in Nat /\ MaxTime \in Nat /\ pending \in [Threads -> Stamped \cup {None}]
  BY PartsAssumption DEF TradesInv, Histories!HistoryAssumption
<1>3. Histories!Stamp(given) \in Nat
  BY <1>2 DEF Histories!Stamp
<1>4. r \in Stamped
  BY <1>3 DEF Stamped
<1>5. r.clocked => r.stamp = now
  BY DEF Histories!Stamp
<1> HIDE DEF r
<1> QED BY <1>1, <1>2, <1>4, <1>5, FewerWaiting

LEMMA StoreKeepsTradesInv == ASSUME TradesInv, NEW t \in Threads, Histories!Store(t) PROVE TradesInv'
<1> DEFINE r == pending[t]
           n == Len(stored)
<1>1. /\ r # None /\ now' = now
      /\ trades' = Histories!Appended(trades, <<r>>) /\ stored' = Append(stored, r)
      /\ pending' = [pending EXCEPT ![t] = None]
  BY DEF Histories!Store
<1>2. /\ r \in Stamped /\ stored \in Seq(Stamped) /\ trades \in Seq(Stamped) /\ n \in Nat /\ now \in Nat
      /\ pending \in [Threads -> Stamped \cup {None}] /\ Histories!Kept(trades, stored)
      /\ r.clocked => r.stamp <= now
  BY <1>1 DEF TradesInv
<1>3. stored' \in Seq(Stamped) /\ trades' \in Seq(Stamped) /\ Histories!Kept(trades, stored)'
  <2>1. <<r>> \in Seq(Stamped) /\ stored \o <<r>> = Append(stored, r)
    BY <1>2
  <2>2. Histories!HistoryAssumption
    BY PartsAssumption
  <2>3. /\ Histories!Appended(trades, <<r>>) \in Seq(Stamped) /\ stored \o <<r>> \in Seq(Stamped)
        /\ Histories!Kept(Histories!Appended(trades, <<r>>), stored \o <<r>>)
    BY <1>2, <2>1, <2>2, KeptGrows
  <2>4. Histories!Kept(trades', stored')
    BY <1>1, <2>1, <2>3
  <2> QED BY <1>1, <2>1, <2>3, <2>4 DEF Histories!Kept
<1>4. pending' \in [Threads -> Stamped \cup {None}] /\ pending'[t] = None
  BY <1>1, <1>2
<1>5. \A u \in Threads : u # t => pending'[u] = pending[u]
  BY <1>1, <1>2
<1>6. Len(stored') = n + 1 /\ stored'[n + 1] = r /\ \A i \in 1..n : stored'[i] = stored[i]
  BY <1>1, <1>2
<1> HIDE DEF n, r
<1>7. ASSUME NEW i \in 1..n
      PROVE  Bounded(i)'
  <2> DEFINE I == Overtakers(i)
             W == Waiting(i)
  <2> SUFFICES ASSUME stored[i].clocked
               PROVE  /\ stored[i].stamp <= now
                      /\ Cardinality(Overtakers(i)') + Cardinality(Waiting(i)') < Cardinality(Threads)
    BY <1>1, <1>6 DEF Bounded
  <2>1. stored[i].stamp <= now /\ Cardinality(I) + Cardinality(W) < Cardinality(Threads)
    BY DEF TradesInv, Bounded, n
  <2>2. /\ IsFiniteSet(I) /\ IsFiniteSet(W) /\ Cardinality(I) \in Nat /\ Cardinality(W) \in Nat
        /\ Cardinality(Threads) \in Nat
    BY TradesFinite DEF n
  <2>3. Waiting(i)' = W \ {t}
    BY <1>4, <1>5, <1>6 DEF Waiting
  <2>4. n + 1 \notin I
    BY <1>2 DEF Overtakers, n
  <2>5. t \in W <=> r.clocked /\ r.stamp < stored[i].stamp
    BY <1>1 DEF Waiting, r
  <2>6. Overtakers(i)' = {j \in (i + 1)..(n + 1) : stored'[j].clocked /\ stored'[j].stamp < stored[i].stamp}
    BY <1>6 DEF Overtakers
  <2>7. I = {j \in (i + 1)..n : stored[j].clocked /\ stored[j].stamp < stored[i].stamp}
    BY DEF Overtakers, n
  <2>8. \A j \in (i + 1)..(n + 1) : (j = n + 1 \/ j \in (i + 1)..n) /\ (j # n + 1 => stored'[j] = stored[j])
    <3> SUFFICES ASSUME NEW j \in (i + 1)..(n + 1), j # n + 1
                 PROVE  j \in (i + 1)..n /\ j \in 1..n
      BY <1>6
    <3> QED BY <1>2
  <2>9. /\ n + 1 \in (i + 1)..(n + 1) /\ (\A j \in (i + 1)..n : j \in (i + 1)..(n + 1) /\ j # n + 1)
    BY <1>2
  <2> HIDE DEF I, W
  <2>10. CASE t \in W
    <3>1. Overtakers(i)' = I \cup {n + 1}
      BY <1>6, <2>5, <2>6, <2>7, <2>8, <2>9, <2>10
    <3>2. Cardinality(I \cup {n + 1}) = Cardinality(I) + 1 /\ Cardinality(W \ {t}) = Cardinality(W) - 1
      BY <2>2, <2>4, <2>10, FS_AddElement, FS_RemoveElement
    <3> QED BY <2>1, <2>2, <2>3, <3>1, <3>2
  <2>11. CASE t \notin W
    <3>1. Overtakers(i)' = I
      BY <1>6, <2>5, <2>6, <2>7, <2>8, <2>9, <2>11
    <3>2. W \ {t} = W
      BY <2>11
    <3> QED BY <2>1, <2>3, <3>1, <3>2
  <2> QED BY <2>10, <2>11
<1>8. ASSUME NEW k, k = n + 1
      PROVE  Bounded(k)'
  <2> SUFFICES ASSUME r.clocked
               PROVE  /\ r.stamp <= now
                      /\ Cardinality(Overtakers(k)') + Cardinality(Waiting(k)') < Cardinality(Threads)
    BY <1>1, <1>6, <1>8 DEF Bounded
  <2>1. Overtakers(k)' = {}
    BY <1>2, <1>6, <1>8 DEF Overtakers
  <2>2. Waiting(k)' \in SUBSET (Threads \ {t})
    BY <1>4 DEF Waiting
  <2>3. IsFiniteSet(Threads) /\ Cardinality(Threads) \in Nat
    BY TradesFinite
  <2>4. IsFiniteSet(Threads \ {t}) /\ Cardinality(Threads \ {t}) = Cardinality(Threads) - 1
    BY <2>3, FS_RemoveElement
  <2>5. Cardinality(Waiting(k)') \in Nat /\ Cardinality(Waiting(k)') <= Cardinality(Threads) - 1
    BY <2>2, <2>4, FS_Subset, FS_CardinalityType
  <2>6. Cardinality(Overtakers(k)') = 0
    BY <2>1, FS_EmptySet
  <2> QED BY <1>2, <2>3, <2>5, <2>6
<1>9. \A i \in 1..Len(stored') : Bounded(i)'
  <2>1. \A i \in 1..(n + 1) : i = n + 1 \/ i \in 1..n
    BY <1>2
  <2>2. \A i \in 1..(n + 1) : Bounded(i)'
    BY <1>7, <1>8, <2>1
  <2> QED BY <1>6, <2>2
<1>10. \A u \in Threads : pending'[u] # None => (pending'[u].clocked => pending'[u].stamp <= now')
  BY <1>1, <1>4, <1>5 DEF TradesInv
<1> QED BY <1>1, <1>2, <1>3, <1>4, <1>9, <1>10 DEF TradesInv

LEMMA TradesAreInvariant == Spec => []TradesInv
<1>1. TradesInv /\ [Next]_vars => TradesInv'
  <2> SUFFICES ASSUME TradesInv, [Next]_vars
               PROVE  TradesInv'
    OBVIOUS
  <2>0. now \in Nat /\ pending \in [Threads -> Stamped \cup {None}]
    BY DEF TradesInv
  <2>1. CASE Histories!Tick
    BY <2>0, <2>1, FewerWaiting DEF Histories!Tick
  <2>2. CASE Histories!ClearTrades
    <3>1. UNCHANGED <<now, pending>> /\ trades' = <<>> /\ stored' = <<>> /\ MaxHistory \in Nat \ {0}
      BY <2>2, PartsAssumption DEF Histories!ClearTrades, Histories!HistoryAssumption
    <3>2. trades' \in Seq(Stamped) /\ stored' \in Seq(Stamped) /\ Len(trades') = 0 /\ Len(stored') = 0
      BY <3>1
    <3>3. Histories!Kept(trades, stored)'
      BY <3>1, <3>2 DEF Histories!Kept
    <3> QED BY <3>1, <3>2, <3>3 DEF TradesInv
  <2>3. ASSUME NEW t \in Threads, NEW given \in 0..MaxTime \cup {None}, NEW finite \in BOOLEAN,
               Histories!Execute(t, given, finite)
        PROVE  TradesInv'
    BY <2>3, ExecuteKeepsTradesInv
  <2>4. ASSUME NEW t \in Threads, Histories!Refuse(t)
        PROVE  TradesInv'
    <3>1. pending' = [pending EXCEPT ![t] = None] /\ UNCHANGED <<now, trades, stored>>
      BY <2>4 DEF Histories!Refuse
    <3>2. /\ pending' \in [Threads -> Stamped \cup {None}]
          /\ \A u \in Threads : pending'[u] # None => pending'[u] = pending[u]
      BY <2>0, <3>1
    <3> QED BY <2>0, <3>1, <3>2, FewerWaiting
  <2>5. ASSUME NEW t \in Threads, Histories!Store(t)
        PROVE  TradesInv'
    BY <2>5, StoreKeepsTradesInv
  <2>6. CASE UNCHANGED <<now, trades, pending, stored>>
    BY <2>0, <2>6, FewerWaiting
  <2>7. CASE Histories!ReportsNext
    BY <2>6, <2>7 DEF Histories!ReportsNext, Histories!Extend, Histories!FindByOrderId, Histories!ClearReports
  <2>8. CASE Histories!TradesNext
    BY <2>1, <2>2, <2>3, <2>4, <2>5, <2>8 DEF Histories!TradesNext
  <2> QED BY <2>6, <2>7, <2>8, TradesMove DEF Histories!Next, Histories!vars
<1> QED BY <1>1, TradesStart, PTL DEF Spec

-----------------------------------------------------------------------------
\* A set of numbers up to n that is not empty has a greatest element.
LEMMA GreatestNumber ==
  ASSUME NEW n \in Nat, NEW T \in SUBSET (0..n), T # {}
  PROVE  \E m \in T : \A k \in T : m >= k
<1> DEFINE Mirror == {k \in 0..n : n - k \in T}
<1>1. Mirror \in SUBSET Nat
  OBVIOUS
<1>2. Mirror # {}
  <2>1. PICK m : m \in T
    OBVIOUS
  <2>2. m \in 0..n /\ n - m \in 0..n /\ n - (n - m) = m
    BY <2>1
  <2>3. n - m \in Mirror
    BY <2>1, <2>2
  <2> QED BY <2>3
<1>3. \A k \in T : n - k \in Mirror /\ k \in 0..n
  <2> SUFFICES ASSUME NEW k \in T
               PROVE  n - k \in Mirror
    OBVIOUS
  <2>1. k \in 0..n /\ n - k \in 0..n /\ n - (n - k) = k
    OBVIOUS
  <2> QED BY <2>1
<1>4. \A k \in Mirror : k \in 0..n /\ n - k \in T
  OBVIOUS
<1> HIDE DEF Mirror
<1>5. PICK m \in Mirror : \A k \in Mirror : m <= k
  BY <1>1, <1>2, LeastNumber
<1>6. n - m \in T /\ m \in 0..n
  BY <1>4
<1>7. ASSUME NEW k \in T
      PROVE  n - m >= k
  <2>1. m <= n - k /\ k \in 0..n
    BY <1>3, <1>5
  <2> QED BY <1>6, <2>1
<1> QED BY <1>6, <1>7

LEMMA ReportsStart == ASSUME Init PROVE ReportsInv
<1>1. reports = <<>> /\ added = <<>> /\ found = None /\ MaxHistory \in Nat \ {0}
  BY PartsAssumption DEF Init, Histories!Init, Histories!HistoryAssumption
<1>2. reports \in Seq(Numbered) /\ added \in Seq(Numbered) /\ Len(reports) = 0 /\ Len(added) = 0
  BY <1>1
<1>3. Histories!Kept(reports, added)
  BY <1>1, <1>2 DEF Histories!Kept
<1> QED BY <1>1, <1>2, <1>3 DEF ReportsInv, Histories!AnswersTheNewest

LEMMA ExtendKeepsReportsInv ==
  ASSUME ReportsInv, NEW ids \in Histories!BoundedSeq(OrderIds, MaxHistory + 1), Histories!Extend(ids)
  PROVE  ReportsInv'
<1> DEFINE e == Len(added)
           batch == [i \in DOMAIN ids |-> [order_id |-> ids[i], serial |-> e + i]]
<1>1. /\ reports' = Histories!Appended(reports, batch) /\ added' = added \o batch /\ found' = None
      /\ reports \in Seq(Numbered) /\ added \in Seq(Numbered) /\ Histories!Kept(reports, added)
      /\ \A i \in 1..e : added[i].serial = i
  BY DEF ReportsInv, Histories!Extend
<1>2. PICK n \in Nat : ids \in [1..n -> OrderIds]
  BY PartsAssumption DEF Histories!BoundedSeq, Histories!SeqOf, Histories!HistoryAssumption
<1>3. e \in Nat
  BY <1>1
<1> HIDE DEF e
<1>4. \A i \in 1..n : e + i \in Nat /\ ids[i] \in OrderIds
  BY <1>2, <1>3
<1>5. batch \in [1..n -> Numbered]
  BY <1>2, <1>4 DEF Numbered
<1>6. batch \in Seq(Numbered) /\ Len(batch) = n
  BY <1>2, <1>5, SeqDef, LenProperties
<1>7. \A i \in 1..n : batch[i].serial = e + i
  BY <1>2
<1> HIDE DEF batch
<1>8. /\ reports' \in Seq(Numbered) /\ added' \in Seq(Numbered)
      /\ Histories!Kept(reports, added)'
  <2>1. Histories!HistoryAssumption
    BY PartsAssumption
  <2>2. Histories!Kept(reports', added')
    BY <1>1, <1>6, <2>1, KeptGrows
  <2> QED BY <1>1, <1>6, <2>1, <2>2, KeptGrows DEF Histories!Kept
<1>9. ASSUME NEW i \in 1..Len(added')
      PROVE  added'[i].serial = i
  <2>1. i \in 1..(e + n) /\ added'[i] = IF i <= e THEN added[i] ELSE batch[i - e]
    BY <1>1, <1>6, ConcatProperties DEF e
  <2>2. CASE i <= e
    <3>1. i \in 1..e
      BY <1>3, <2>1, <2>2
    <3> QED BY <1>1, <2>1, <2>2, <3>1
  <2>3. CASE ~(i <= e)
    <3>1. i - e \in 1..n /\ e + (i - e) = i
      BY <1>3, <2>1, <2>3
    <3> QED BY <1>7, <2>1, <2>3, <3>1
  <2> QED BY <2>2, <2>3
<1> QED BY <1>1, <1>8, <1>9 DEF ReportsInv, Histories!AnswersTheNewest

LEMMA FindKeepsReportsInv ==
  ASSUME ReportsInv, NEW id \in OrderIds, Histories!FindByOrderId(id)
  PROVE  ReportsInv'
<1> DEFINE q == Len(reports)
           e == Len(added)
           I == {i \in 1..q : reports[i].order_id = id}
           place == Histories!Newest(reports, id)
<1>1. /\ UNCHANGED <<reports, added>> /\ q \in Nat /\ e \in Nat /\ MaxHistory \in Nat \ {0}
      /\ found' = [order_id |-> id, serial |-> IF place = 0 THEN 0 ELSE reports[place].serial]
      /\ \A i \in 1..e : added[i].serial = i
      /\ q = (IF e < MaxHistory THEN e ELSE MaxHistory)
      /\ \A i \in 1..q : reports[i] = added[e - q + i]
  <2>1. /\ UNCHANGED <<reports, added>> /\ MaxHistory \in Nat \ {0}
        /\ reports \in Seq(Numbered) /\ added \in Seq(Numbered) /\ Histories!Kept(reports, added)
        /\ \A i \in 1..e : added[i].serial = i
    BY PartsAssumption DEF ReportsInv, Histories!FindByOrderId, Histories!HistoryAssumption
  <2>2. found' = [order_id |-> id, serial |-> IF place = 0 THEN 0 ELSE reports[place].serial]
    BY DEF Histories!FindByOrderId
  <2>3. q \in Nat /\ e \in Nat /\ DOMAIN reports = 1..q
    BY <2>1
  <2>4. /\ q = (IF e < MaxHistory THEN e ELSE MaxHistory)
        /\ \A i \in 1..q : reports[i] = added[e - q + i]
    BY <2>1, <2>3 DEF Histories!Kept
  <2> HIDE DEF q, e, place
  <2> QED BY <2>1, <2>2, <2>3, <2>4
<1>2. place = IF I # {} THEN CHOOSE x \in I : \A y \in I : x >= y ELSE 0
  BY DEF Histories!Newest, Histories!SelectLastInSeq, Histories!Max
<1> HIDE DEF q, e, place
<1>3. I # {} => place \in I /\ \A y \in I : place >= y
  <2> SUFFICES ASSUME I # {}
               PROVE  place \in I /\ \A y \in I : place >= y
    OBVIOUS
  <2>1. I \in SUBSET (0..q)
    BY <1>1
  <2> HIDE DEF I
  <2>2. \E x \in I : \A y \in I : x >= y
    BY <1>1, <2>1, GreatestNumber
  <2> QED BY <1>2, <2>2
<1>4. \A i \in 1..q : e - q + i \in 1..e /\ reports[i].serial = e - q + i
  BY <1>1
<1>5. ASSUME NEW i \in 1..e, added[i].order_id = id, i > e - MaxHistory
      PROVE  found'.serial >= i
  <2>1. i - (e - q) \in 1..q /\ (e - q) + (i - (e - q)) = i
    BY <1>1, <1>5
  <2>2. i - (e - q) \in I
    BY <1>1, <1>5, <2>1
  <2>3. place \in 1..q /\ place >= i - (e - q)
    BY <1>3, <2>2
  <2>4. found'.serial = e - q + place
    BY <1>1, <1>4, <2>3
  <2> QED BY <1>1, <2>1, <2>3, <2>4
<1>6. DOMAIN added = 1..e /\ added' = added
  BY <1>1 DEF ReportsInv, e
<1>7. Histories!AnswersTheNewest'
  <2>1. found'.order_id = id
    BY <1>1
  <2>2. \A i \in 1..e : (added[i].order_id = found'.order_id /\ i > e - MaxHistory) => found'.serial >= added[i].serial
    BY <1>1, <1>5, <2>1
  <2> QED BY <1>6, <2>2 DEF Histories!AnswersTheNewest, e
<1> QED BY <1>1, <1>7 DEF ReportsInv, Histories!Kept

LEMMA ReportsAreInvariant == Spec => []ReportsInv
<1>1. ReportsInv /\ [Next]_vars => ReportsInv'
  <2> SUFFICES ASSUME ReportsInv, [Next]_vars
               PROVE  ReportsInv'
    OBVIOUS
  <2>1. CASE UNCHANGED <<reports, added, found>>
    BY <2>1 DEF ReportsInv, Histories!Kept, Histories!AnswersTheNewest
  <2>2. CASE Histories!ClearReports
    <3>1. reports' = <<>> /\ added' = <<>> /\ found' = None /\ MaxHistory \in Nat \ {0}
      BY <2>2, PartsAssumption DEF Histories!ClearReports, Histories!HistoryAssumption
    <3>2. reports' \in Seq(Numbered) /\ added' \in Seq(Numbered) /\ Len(reports') = 0 /\ Len(added') = 0
      BY <3>1
    <3>3. Histories!Kept(reports, added)'
      BY <3>1, <3>2 DEF Histories!Kept
    <3> QED BY <3>1, <3>2, <3>3 DEF ReportsInv, Histories!AnswersTheNewest
  <2>3. CASE Histories!ReportsNext
    BY <2>2, <2>3, ExtendKeepsReportsInv, FindKeepsReportsInv DEF Histories!ReportsNext
  <2>4. CASE Histories!TradesNext
    BY <2>1, <2>4 DEF Histories!TradesNext, Histories!Tick, Histories!ClearTrades, Histories!Execute,
       Histories!Refuse, Histories!Store
  <2> QED BY <2>1, <2>3, <2>4, TradesMove DEF Histories!Next, Histories!vars
<1> QED BY <1>1, ReportsStart, PTL DEF Spec

\* The last of a sequence of which the rest is forgotten.
LEMMA TailMeans ==
  ASSUME NEW X, NEW s \in Seq(X), NEW t \in Seq(X), Len(s) <= Len(t), Len(s) # 0,
         \A i \in 1..Len(s) : s[i] = t[Len(t) - Len(s) + i]
  PROVE  s = SubSeq(t, Len(t) - Len(s) + 1, Len(t))
<1> DEFINE a == Len(t) - Len(s) + 1
           u == SubSeq(t, a, Len(t))
<1>1. Len(s) \in Nat /\ Len(t) \in Nat /\ a \in 1..Len(t) /\ Len(t) - a + 1 = Len(s)
  OBVIOUS
<1> HIDE DEF a
<1>2. u \in Seq(X) /\ Len(u) = Len(t) - a + 1 /\ \A i \in 1..(Len(t) - a + 1) : u[i] = t[a + i - 1]
  BY <1>1
<1> HIDE DEF u
<1>3. \A i \in 1..Len(s) : a + i - 1 = Len(t) - Len(s) + i
  BY <1>1 DEF a
<1>4. Len(u) = Len(s) /\ \A i \in 1..Len(s) : u[i] = s[i]
  BY <1>1, <1>2, <1>3
<1>5. s = u
  BY <1>2, <1>4, SeqEqual
<1> QED BY <1>5 DEF u, a

LEMMA QueriesAreFaithful == ReportsInv => Histories!QueriesAreTrue
<1> SUFFICES ASSUME ReportsInv
             PROVE  Histories!QueriesAreTrue
  OBVIOUS
<1> DEFINE q == Len(reports)
           e == Len(added)
<1>1. /\ reports \in Seq(Numbered) /\ added \in Seq(Numbered) /\ q \in Nat /\ e \in Nat
      /\ MaxHistory \in Nat \ {0} /\ q = (IF e < MaxHistory THEN e ELSE MaxHistory)
      /\ \A i \in 1..q : reports[i] = added[e - q + i]
  <2>1. /\ MaxHistory \in Nat \ {0}
        /\ reports \in Seq(Numbered) /\ added \in Seq(Numbered) /\ Histories!Kept(reports, added)
    BY PartsAssumption DEF ReportsInv, Histories!HistoryAssumption
  <2>2. q \in Nat /\ e \in Nat /\ DOMAIN reports = 1..q
    BY <2>1
  <2>3. /\ q = (IF e < MaxHistory THEN e ELSE MaxHistory)
        /\ \A i \in 1..q : reports[i] = added[e - q + i]
    BY <2>1, <2>2 DEF Histories!Kept
  <2> QED BY <2>1, <2>2, <2>3
<1> HIDE DEF q, e
<1>2. ASSUME NEW limit \in 1..MaxHistory, limit <= e
      PROVE  Histories!Recent(reports, limit) = SubSeq(added, e - limit + 1, e)
  <2>1. q # 0 /\ q <= e
    BY <1>1, <1>2
  <2>2. reports = SubSeq(added, e - q + 1, e)
    BY <1>1, <2>1, TailMeans DEF q, e
  <2>3. CASE limit >= q
    <3>1. limit = q
      BY <1>1, <1>2, <2>3
    <3> QED BY <2>2, <2>3, <3>1 DEF Histories!Recent, q
  <2>4. CASE ~(limit >= q)
    <3> DEFINE u == SubSeq(reports, q - limit + 1, q)
    <3>1. Histories!Recent(reports, limit) = u
      BY <2>4 DEF Histories!Recent, q
    <3>2. limit \in Nat /\ limit # 0 /\ limit <= q /\ q - limit + 1 \in 1..q
      BY <1>1, <1>2, <2>4
    <3>3. u \in Seq(Numbered) /\ Len(u) = limit /\ \A i \in 1..limit : u[i] = reports[q - limit + i]
      <4> DEFINE a == q - limit + 1
      <4>1. a \in 1..q /\ q - a + 1 = limit /\ q = Len(reports)
        BY <1>1, <3>2 DEF q
      <4> HIDE DEF a
      <4>2. SubSeq(reports, a, q) \in Seq(Numbered) /\ Len(SubSeq(reports, a, q)) = q - a + 1
        BY <1>1, <4>1
      <4>3. \A i \in 1..(q - a + 1) : SubSeq(reports, a, q)[i] = reports[a + i - 1]
        BY <1>1, <4>1
      <4>4. \A i \in 1..limit : a + i - 1 = q - limit + i
        BY <1>1, <1>2, <3>2 DEF a
      <4>5. SubSeq(reports, a, q) = u
        BY DEF a
      <4> QED BY <4>1, <4>2, <4>3, <4>4, <4>5
    <3> HIDE DEF u
    <3>4. ASSUME NEW i \in 1..limit
          PROVE  u[i] = added[e - limit + i]
      <4>0. q \in Nat /\ e \in Nat /\ limit \in Nat /\ i \in 1..limit /\ limit <= q
        BY <1>1, <3>2
      <4>1. q - limit + i \in 1..q /\ e - q + (q - limit + i) = e - limit + i
        BY <4>0
      <4> QED BY <1>1, <3>3, <4>1
    <3>5. u = SubSeq(added, e - limit + 1, e)
      BY <1>1, <1>2, <3>2, <3>3, <3>4, TailMeans DEF e
    <3> QED BY <3>1, <3>5
  <2> QED BY <2>3, <2>4
<1>3. Histories!RemainingCapacity(reports) = MaxHistory - q
  BY DEF Histories!RemainingCapacity, q
<1>4. MaxHistory - q >= 0
  BY <1>1
<1>5. MaxHistory - q > 0 => reports = added
  <2> SUFFICES ASSUME MaxHistory - q > 0
               PROVE  reports = added
    OBVIOUS
  <2>1. q = e /\ \A i \in 1..q : e - q + i = i
    BY <1>1
  <2>2. Len(reports) = Len(added) /\ \A i \in 1..Len(reports) : reports[i] = added[i]
    BY <1>1, <2>1 DEF q, e
  <2> QED BY <1>1, <2>2, SeqEqual
<1> QED BY <1>2, <1>3, <1>4, <1>5 DEF Histories!QueriesAreTrue, e

LEMMA HistoriesCardinality == \A set : Histories!Cardinality(set) = Cardinality(set)
BY DEF Histories!Cardinality, Cardinality

LEMMA InversionsAreBounded == TradesInv => Histories!InversionsBounded
<1> SUFFICES ASSUME TradesInv, NEW i \in DOMAIN trades, trades[i].clocked
             PROVE  Cardinality(Histories!Inversions(i)) < Cardinality(Threads)
  BY HistoriesCardinality DEF Histories!InversionsBounded
<1> DEFINE q == Len(trades)
           n == Len(stored)
           d == n - q
           I == Histories!Inversions(i)
           O == Overtakers(i + d)
<1>1. trades \in Seq(Stamped) /\ stored \in Seq(Stamped) /\ Histories!Kept(trades, stored) /\ MaxHistory \in Nat \ {0}
  BY PartsAssumption DEF TradesInv, Histories!HistoryAssumption
<1>2. q \in Nat /\ n \in Nat /\ DOMAIN trades = 1..q
  BY <1>1
<1>3. q = (IF n < MaxHistory THEN n ELSE MaxHistory) /\ \A j \in 1..q : trades[j] = stored[n - q + j]
  BY <1>1, <1>2 DEF Histories!Kept
<1>4. I = {j \in (i + 1)..q : trades[j].clocked /\ trades[j].stamp < trades[i].stamp}
  BY DEF Histories!Inversions
<1>5. O = {j \in (i + d + 1)..n : stored[j].clocked /\ stored[j].stamp < stored[i + d].stamp}
  BY DEF Overtakers
<1> HIDE DEF q, n, I, O
<1>6. d \in Nat /\ i \in 1..q /\ i + d \in 1..n /\ d + q = n
  BY <1>1, <1>2, <1>3
<1>7. \A j \in 1..q : trades[j] = stored[j + d]
  <2>1. \A j \in 1..q : n - q + j = j + d
    BY <1>2
  <2> QED BY <1>3, <2>1
<1> HIDE DEF d
<1>8. ASSUME NEW j \in I
      PROVE  j + d \in O /\ j \in Nat
  <2>1. j \in (i + 1)..q /\ trades[j].clocked /\ trades[j].stamp < trades[i].stamp
    BY <1>4
  <2>2. j \in 1..q /\ j + d \in (i + d + 1)..n
    BY <1>2, <1>6, <2>1
  <2> QED BY <1>5, <1>6, <1>7, <2>1, <2>2
<1> DEFINE f == [j \in I |-> j + d]
<1>9. f \in Injection(I, O)
  <2>1. \A j, k \in I : j + d = k + d => j = k
    BY <1>6, <1>8
  <2>2. f \in [I -> O]
    BY <1>8
  <2>3. \A j, k \in I : f[j] = f[k] => j = k
    BY <2>1
  <2> HIDE DEF f
  <2> QED BY <2>2, <2>3 DEF Injection, IsInjective
<1> HIDE DEF f
<1>10. Bounded(i + d) /\ stored[i + d].clocked
  BY <1>6, <1>7 DEF TradesInv, n
<1>11. /\ IsFiniteSet(O) /\ Cardinality(O) \in Nat /\ Cardinality(Waiting(i + d)) \in Nat
       /\ Cardinality(Threads) \in Nat
  BY <1>6, TradesFinite DEF n, O
<1>12. Cardinality(O) + Cardinality(Waiting(i + d)) < Cardinality(Threads)
  BY <1>10 DEF Bounded, O
<1>13. IsFiniteSet(I) /\ Cardinality(I) <= Cardinality(O)
  BY <1>9, <1>11, FS_Injection
<1>14. Cardinality(I) \in Nat
  BY <1>13, FS_CardinalityType
<1>15. Cardinality(I) < Cardinality(Threads)
  BY <1>11, <1>12, <1>13, <1>14
<1> QED BY <1>15 DEF I

\* Both histories keep the newest entries in the order they were stored; at most as many
\* later trades carry an earlier timestamp as there are other threads; what is asked of
\* the reports is answered from the newest of them.
THEOREM AlwaysHistoriesAreFaithful == Spec => []HistoriesAreFaithful
<1>1. TradesInv /\ ReportsInv => HistoriesAreFaithful
  BY InversionsAreBounded, QueriesAreFaithful DEF TradesInv, ReportsInv, HistoriesAreFaithful,
     Histories!HistoriesAreFaithful, Histories!KeepsTheNewest
<1> QED BY <1>1, TradesAreInvariant, ReportsAreInvariant, PTL

------------------------------------------------------------------------------
(***************************************************************************)
(* Sums over finite sets.  MapThenSumSet takes the elements in an order of *)
(* its own; its sum is that of any order.                                  *)
(***************************************************************************)
\* What holds of the empty set, and of a set when it holds of each set with one element
\* less, holds of all subsets of a finite set.
LEMMA Subsets ==
  ASSUME NEW S, IsFiniteSet(S), NEW P, {} \in P,
         \A T \in SUBSET S : T # {} /\ (\A x \in T : T \ {x} \in P) => T \in P
  PROVE  SUBSET S \subseteq P
<1> DEFINE Q == (SUBSET S) \ P
           order == StrictSubsetOrdering(S)
<1>1. IsWellFoundedOn(order, SUBSET S)
  BY FS_StrictSubsetOrderingWellFounded, FS_FiniteSubsetsOfFinite
<1>2. \A T, U \in SUBSET S : U \subseteq T /\ U # T => <<U, T>> \in order
  BY DEF StrictSubsetOrdering
<1> HIDE DEF order
<1> SUFFICES ASSUME Q # {}
             PROVE  FALSE
  OBVIOUS
<1>3. Q \subseteq SUBSET S
  OBVIOUS
<1> HIDE DEF Q
<1>4. PICK T \in Q : \A U \in Q : <<U, T>> \notin order
  BY <1>1, <1>3, WFMin
<1>5. \A x \in T : T \ {x} \in P
  <2> TAKE x \in T
  <2>1. T \ {x} \in SUBSET S /\ T \ {x} \subseteq T /\ T \ {x} # T /\ T \in SUBSET S
    BY <1>3
  <2>2. T \ {x} \notin Q
    BY <1>2, <1>4, <2>1
  <2> QED BY <2>1, <2>2 DEF Q
<1> QED BY <1>3, <1>4, <1>5 DEF Q

Summing(g, f, S) ==
  g[{}] = 0 /\ \A T \in SUBSET S : T # {} => \E x \in T : g[T] = f[x] + g[T \ {x}]
IntegersOn(f, S) == \A x \in S : f[x] \in Int

LEMMA SummingType ==
  ASSUME NEW S, IsFiniteSet(S), NEW f, IntegersOn(f, S), NEW g, Summing(g, f, S)
  PROVE  \A T \in SUBSET S : g[T] \in Int
<1> DEFINE P == {T \in SUBSET S : g[T] \in Int}
<1>1. {} \in P
  BY DEF Summing
<1>2. ASSUME NEW T \in SUBSET S, T # {}, \A x \in T : T \ {x} \in P
      PROVE  T \in P
  <2>1. PICK x \in T : g[T] = f[x] + g[T \ {x}]
    BY <1>2 DEF Summing
  <2>2. g[T \ {x}] \in Int /\ f[x] \in Int
    BY <1>2 DEF IntegersOn
  <2> QED BY <2>1, <2>2
<1> HIDE DEF P
<1>3. SUBSET S \subseteq P
  BY <1>1, <1>2, Subsets
<1> QED BY <1>3 DEF P

\* A sum can begin with any element.
LEMMA AnyOrder ==
  ASSUME NEW S, IsFiniteSet(S), NEW f, IntegersOn(f, S), NEW g, Summing(g, f, S)
  PROVE  \A T \in SUBSET S : \A x \in T : g[T] = f[x] + g[T \ {x}]
<1> DEFINE Any(T) == \A x \in T : g[T] = f[x] + g[T \ {x}]
           P == {T \in SUBSET S : Any(T)}
<1>0. \A T \in SUBSET S : g[T] \in Int
  BY SummingType
<1>1. {} \in P
  OBVIOUS
<1>2. ASSUME NEW T \in SUBSET S, T # {}, \A x \in T : T \ {x} \in P
      PROVE  T \in P
  <2>1. PICK c \in T : g[T] = f[c] + g[T \ {c}]
    BY <1>2 DEF Summing
  <2>2. ASSUME NEW x \in T, x # c
        PROVE  g[T] = f[x] + g[T \ {x}]
    <3> DEFINE R == (T \ {c}) \ {x}
    <3>1. R = (T \ {x}) \ {c} /\ x \in T \ {c} /\ c \in T \ {x} /\ R \in SUBSET S
      BY <2>2
    <3>2. g[T \ {c}] = f[x] + g[R]
      BY <1>2, <3>1
    <3>3. g[T \ {x}] = f[c] + g[R]
      BY <1>2, <3>1
    <3>4. g[R] \in Int /\ f[x] \in Int /\ f[c] \in Int
      BY <1>0, <3>1 DEF IntegersOn
    <3> HIDE DEF R
    <3> QED BY <2>1, <3>2, <3>3, <3>4
  <2>3. Any(T)
    BY <2>1, <2>2
  <2> QED BY <2>3
<1> HIDE DEF P
<1>3. SUBSET S \subseteq P
  BY <1>1, <1>2, Subsets
<1> QED BY <1>3 DEF P

\* Sums of the same numbers are the same.
LEMMA SameSums ==
  ASSUME NEW S, IsFiniteSet(S), NEW U \in SUBSET S, NEW f, IntegersOn(f, S),
         NEW g, Summing(g, f, S), NEW f2, \A x \in U : f2[x] = f[x], NEW h, Summing(h, f2, U)
  PROVE  \A T \in SUBSET U : h[T] = g[T]
<1> DEFINE P == {T \in SUBSET U : h[T] = g[T]}
<1>0. IsFiniteSet(U)
  BY FS_Subset
<1>1. {} \in P
  BY DEF Summing
<1>2. ASSUME NEW T \in SUBSET U, T # {}, \A x \in T : T \ {x} \in P
      PROVE  T \in P
  <2>1. PICK c \in T : h[T] = f2[c] + h[T \ {c}]
    BY <1>2 DEF Summing
  <2>2. g[T] = f[c] + g[T \ {c}]
    BY AnyOrder
  <2> QED BY <1>2, <2>1, <2>2
<1> HIDE DEF P
<1>3. SUBSET U \subseteq P
  BY <1>0, <1>1, <1>2, Subsets
<1> QED BY <1>3 DEF P

\* A recursive function over the subsets of a finite set exists.
Added(g, f, s) == IF s = {} THEN 0 ELSE LET x == CHOOSE y \in s : TRUE IN f[x] + g[s \ {x}]
Computes(g, f, S) == g = [s \in SUBSET S |-> Added(g, f, s)]

LEMMA SumExists ==
  ASSUME NEW S, IsFiniteSet(S), NEW f
  PROVE  \E g : Computes(g, f, S)
<1> DEFINE Small(n) == {s \in SUBSET S : Cardinality(s) <= n}
           Upto(n) == \E g : g = [s \in Small(n) |-> Added(g, f, s)]
           c == Cardinality(S)
           P == {n \in 0..c : Upto(n)}
<1>0. /\ c \in Nat
      /\ \A s \in SUBSET S : IsFiniteSet(s) /\ Cardinality(s) \in 0..c
  BY FS_CardinalityType, FS_Subset
<1>1. 0 \in P
  <2> DEFINE g == [s \in Small(0) |-> 0]
  <2>1. \A s \in Small(0) : s = {}
    BY <1>0, FS_EmptySet
  <2>2. \A s \in Small(0) : Added(g, f, s) = 0
    BY <2>1 DEF Added
  <2>3. g = [s \in Small(0) |-> Added(g, f, s)]
    BY <2>2
  <2> HIDE DEF g
  <2>4. Upto(0)
    BY <2>3
  <2>5. 0 \in 0..c
    BY <1>0
  <2> QED BY <2>4, <2>5
<1>2. ASSUME NEW n \in 1..c, n - 1 \in P
      PROVE  n \in P
  <2>1. PICK g : g = [s \in Small(n - 1) |-> Added(g, f, s)]
    BY <1>2
  <2> DEFINE h == [s \in Small(n) |-> Added(g, f, s)]
  <2>2. ASSUME NEW s \in Small(n), s # {}, NEW x \in s
        PROVE  s \ {x} \in Small(n - 1) /\ s \ {x} \in Small(n)
    <3>1. Cardinality(s \ {x}) = Cardinality(s) - 1
      BY <1>0, <2>2, FS_RemoveElement
    <3> QED BY <1>0, <3>1
  <2>3. \A s \in Small(n - 1) : s \in Small(n) /\ h[s] = g[s]
    <3> SUFFICES ASSUME NEW s \in Small(n - 1)
                 PROVE  s \in Small(n) /\ h[s] = g[s]
      OBVIOUS
    <3>1. s \in Small(n)
      BY <1>0
    <3>2. g[s] = Added(g, f, s)
      BY <2>1
    <3> QED BY <3>1, <3>2
  <2>4. \A s \in Small(n) : Added(h, f, s) = Added(g, f, s)
    <3> SUFFICES ASSUME NEW s \in Small(n), s # {}
                 PROVE  Added(h, f, s) = Added(g, f, s)
      BY DEF Added
    <3> DEFINE x == CHOOSE y \in s : TRUE
    <3>1. x \in s
      OBVIOUS
    <3>2. h[s \ {x}] = g[s \ {x}]
      BY <2>2, <2>3, <3>1
    <3> HIDE DEF h
    <3> QED BY <3>2 DEF Added
  <2>5. h = [s \in Small(n) |-> Added(h, f, s)]
    BY <2>4
  <2> HIDE DEF h
  <2>6. Upto(n)
    BY <2>5
  <2> QED BY <2>6
<1> HIDE DEF P
<1>3. c \in P
  BY <1>0, <1>1, <1>2, UpTo
<1>4. PICK g : g = [s \in Small(c) |-> Added(g, f, s)]
  BY <1>3 DEF P
<1>5. Small(c) = SUBSET S
  BY <1>0
<1> QED BY <1>4, <1>5 DEF Computes

LEMMA TotalIsSum ==
  ASSUME NEW S, IsFiniteSet(S), NEW f
  PROVE  \E g : Summing(g, f, S) /\ Total(f, S) = g[S]
<1> DEFINE g == CHOOSE iter : iter = [s \in SUBSET S |-> IF s = {} THEN 0
                  ELSE f[CHOOSE y \in s : TRUE] + iter[s \ {CHOOSE y \in s : TRUE}]]
<1>1. Total(f, S) = g[S]
  BY DEF Total
<1> HIDE DEF g
<1>2. \E h : Computes(h, f, S)
  BY SumExists
<1>3. g = [s \in SUBSET S |-> Added(g, f, s)]
  BY <1>2 DEF Added, Computes, g
<1> HIDE DEF g
<1>4. g[{}] = 0
  BY <1>3 DEF Added
<1>5. ASSUME NEW T \in SUBSET S, T # {}
      PROVE  \E x \in T : g[T] = f[x] + g[T \ {x}]
  <2> DEFINE x == CHOOSE y \in T : TRUE
  <2>1. x \in T
    BY <1>5
  <2>2. g[T] = f[x] + g[T \ {x}]
    BY <1>3, <1>5 DEF Added
  <2> QED BY <2>1, <2>2
<1> QED BY <1>1, <1>4, <1>5 DEF Summing

\* The sum over nothing is zero, and any element can be taken out of a sum.
LEMMA TotalEmpty == \A f : Total(f, {}) = 0
BY TotalIsSum, FS_EmptySet DEF Summing

LEMMA TotalType ==
  ASSUME NEW S, IsFiniteSet(S), NEW f, IntegersOn(f, S)
  PROVE  Total(f, S) \in Int
BY TotalIsSum, SummingType

LEMMA TotalSame ==
  ASSUME NEW S, IsFiniteSet(S), NEW f, IntegersOn(f, S), NEW f2, \A x \in S : f2[x] = f[x]
  PROVE  Total(f2, S) = Total(f, S)
<1>1. PICK g : Summing(g, f, S) /\ Total(f, S) = g[S]
  BY TotalIsSum
<1>2. PICK h : Summing(h, f2, S) /\ Total(f2, S) = h[S]
  BY TotalIsSum
<1>3. S \in SUBSET S
  OBVIOUS
<1>4. h[S] = g[S]
  BY <1>1, <1>2, <1>3, SameSums
<1> QED BY <1>1, <1>2, <1>4

LEMMA TotalTake ==
  ASSUME NEW S, IsFiniteSet(S), NEW f, IntegersOn(f, S), NEW x \in S
  PROVE  Total(f, S) = f[x] + Total(f, S \ {x})
<1> DEFINE U == S \ {x}
<1>0. U \in SUBSET S /\ U \in SUBSET U /\ IsFiniteSet(U) /\ S \in SUBSET S
  BY FS_RemoveElement
<1> HIDE DEF U
<1>1. PICK g : Summing(g, f, S) /\ Total(f, S) = g[S]
  BY TotalIsSum
<1>2. PICK h : Summing(h, f, U) /\ Total(f, U) = h[U]
  BY <1>0, TotalIsSum
<1>3. h[U] = g[U]
  BY <1>0, <1>1, <1>2, SameSums
<1>4. g[S] = f[x] + g[S \ {x}]
  BY <1>0, <1>1, AnyOrder
<1> QED BY <1>1, <1>2, <1>3, <1>4 DEF U

\* Sums are added and compared term by term, and split at any subset.
LEMMA TotalDifference ==
  ASSUME NEW S, IsFiniteSet(S), NEW f, NEW g, NEW h, IntegersOn(g, S), IntegersOn(h, S),
         \A x \in S : f[x] = g[x] - h[x]
  PROVE  Total(f, S) = Total(g, S) - Total(h, S)
<1> DEFINE P == {T \in SUBSET S : Total(f, T) = Total(g, T) - Total(h, T)}
<1>1. {} \in P
  BY TotalEmpty
<1>2. ASSUME NEW T \in SUBSET S, T # {}, \A x \in T : T \ {x} \in P
      PROVE  T \in P
  <2>1. PICK x \in T : TRUE
    BY <1>2
  <2> DEFINE U == T \ {x}
  <2>2. IsFiniteSet(T) /\ IsFiniteSet(U) /\ U \in P
    BY <1>2, FS_Subset
  <2>3. IntegersOn(f, T) /\ IntegersOn(g, T) /\ IntegersOn(h, T) /\ IntegersOn(g, U) /\ IntegersOn(h, U)
    BY DEF IntegersOn
  <2>4. Total(f, T) = f[x] + Total(f, U) /\ Total(g, T) = g[x] + Total(g, U) /\ Total(h, T) = h[x] + Total(h, U)
    BY <2>2, <2>3, TotalTake
  <2>5. Total(g, U) \in Int /\ Total(h, U) \in Int /\ g[x] \in Int /\ h[x] \in Int /\ f[x] = g[x] - h[x]
    BY <2>2, <2>3, TotalType DEF IntegersOn
  <2>6. Total(f, U) = Total(g, U) - Total(h, U)
    BY <2>2
  <2> HIDE DEF U
  <2> QED BY <2>4, <2>5, <2>6
<1> HIDE DEF P
<1>3. SUBSET S \subseteq P
  BY <1>1, <1>2, Subsets
<1> QED BY <1>3 DEF P

LEMMA TotalBounds ==
  ASSUME NEW S, IsFiniteSet(S), NEW g, NEW h, IntegersOn(g, S), IntegersOn(h, S),
         \A x \in S : 0 - g[x] <= h[x] /\ h[x] <= g[x]
  PROVE  0 - Total(g, S) <= Total(h, S) /\ Total(h, S) <= Total(g, S)
<1> DEFINE Within(T) == 0 - Total(g, T) <= Total(h, T) /\ Total(h, T) <= Total(g, T)
           P == {T \in SUBSET S : Within(T)}
<1>1. {} \in P
  BY TotalEmpty
<1>2. ASSUME NEW T \in SUBSET S, T # {}, \A x \in T : T \ {x} \in P
      PROVE  T \in P
  <2>1. PICK x \in T : TRUE
    BY <1>2
  <2> DEFINE U == T \ {x}
  <2>2. IsFiniteSet(T) /\ IsFiniteSet(U) /\ U \in P
    BY <1>2, FS_Subset
  <2>3. IntegersOn(g, T) /\ IntegersOn(h, T) /\ IntegersOn(g, U) /\ IntegersOn(h, U)
    BY DEF IntegersOn
  <2>4. Total(g, T) = g[x] + Total(g, U) /\ Total(h, T) = h[x] + Total(h, U)
    BY <2>2, <2>3, TotalTake
  <2>5. Total(g, U) \in Int /\ Total(h, U) \in Int /\ g[x] \in Int /\ h[x] \in Int
    BY <2>2, <2>3, TotalType DEF IntegersOn
  <2>6. Within(U) /\ 0 - g[x] <= h[x] /\ h[x] <= g[x]
    BY <2>2
  <2> HIDE DEF U
  <2>7. Within(T)
    BY <2>4, <2>5, <2>6
  <2> QED BY <2>7
<1> HIDE DEF P
<1>3. SUBSET S \subseteq P
  BY <1>1, <1>2, Subsets
<1> QED BY <1>3 DEF P

LEMMA TotalSplit ==
  ASSUME NEW S, IsFiniteSet(S), NEW f, IntegersOn(f, S), NEW A \in SUBSET S
  PROVE  Total(f, S) = Total(f, A) + Total(f, S \ A)
<1> DEFINE P == {T \in SUBSET S : Total(f, S) = Total(f, T) + Total(f, S \ T)}
<1>0. \A T \in SUBSET S : IsFiniteSet(T) /\ IntegersOn(f, T) /\ Total(f, T) \in Int
  <2> TAKE T \in SUBSET S
  <2>1. IsFiniteSet(T) /\ IntegersOn(f, T)
    BY FS_Subset DEF IntegersOn
  <2> QED BY <2>1, TotalType
<1>1. {} \in P
  <2>1. S \ {} = S /\ Total(f, S) \in Int
    BY <1>0
  <2> QED BY <2>1, TotalEmpty
<1>2. ASSUME NEW T \in SUBSET S, T # {}, \A x \in T : T \ {x} \in P
      PROVE  T \in P
  <2>1. PICK x \in T : TRUE
    BY <1>2
  <2> DEFINE U == T \ {x}
             V == S \ U
             W == S \ T
  <2>2. U \in P /\ U \in SUBSET S /\ V \in SUBSET S /\ W \in SUBSET S /\ x \in V /\ V \ {x} = W
    BY <1>2
  <2>3. Total(f, T) = f[x] + Total(f, U)
    BY <1>0, TotalTake
  <2>4. Total(f, V) = f[x] + Total(f, W)
    <3>1. IsFiniteSet(V) /\ IntegersOn(f, V)
      BY <1>0
    <3> HIDE DEF V, W
    <3>2. Total(f, V) = f[x] + Total(f, V \ {x})
      BY <2>2, <3>1, TotalTake
    <3> QED BY <2>2, <3>2
  <2>5. Total(f, U) \in Int /\ Total(f, W) \in Int /\ f[x] \in Int
    BY <1>0 DEF IntegersOn
  <2>6. Total(f, S) = Total(f, U) + Total(f, V)
    BY <2>2
  <2> HIDE DEF U, V
  <2>7. Total(f, S) = Total(f, T) + Total(f, W)
    BY <2>3, <2>4, <2>5, <2>6
  <2> QED BY <2>7
<1> HIDE DEF P
<1>3. SUBSET S \subseteq P
  BY <1>1, <1>2, Subsets
<1> QED BY <1>3 DEF P

------------------------------------------------------------------------------
(***************************************************************************)
(* Positions and their exposures.                                          *)
(***************************************************************************)

LEMMA BookMoves == [Next]_vars => Book!Next \/ UNCHANGED bookVars
BY DEF Next, vars, deskVars, bookVars

LEMMA OffersAreHeld == Offers \subseteq Held /\ Prices \subseteq Nat \ {0} /\ NoPrice \notin Prices /\ Largest \in Nat
<1>1. Book!OffersAssumption
  BY PartsAssumption
<1>2. \A offer \in Offers : offer \in Held
  <2> TAKE offer \in Offers
  <2>1. offer \in Book!Positions /\ Largest \in Nat
    BY <1>1 DEF Book!OffersAssumption
  <2>2. \A x \in -Largest..Largest : x \in Int
    BY <2>1
  <2> QED BY <2>1, <2>2 DEF Book!Positive, Book!Positions, Held
<1> QED BY <1>1, <1>2 DEF Book!OffersAssumption, Book!Positive

LEMMA BookStarts == ASSUME Init PROVE BookInv
<1>1. book = <<>> /\ repriced = {} /\ DOMAIN book = {}
  BY DEF Init, Book!Init
<1> QED BY <1>1, FS_EmptySet DEF BookInv, Book!RepricedPnLIsRight

LEMMA RepricedIs ==
  ASSUME NEW p \in Held, NEW price \in Prices
  PROVE  LET q == Book!Repriced(p, price)
         IN /\ q \in Held /\ q.current_price = price
            /\ q.unrealized_pnl = Book!PnL(q, price)
            /\ Book!Notional(q, price) = Book!Notional(p, price)
<1> DEFINE q == Book!Repriced(p, price)
<1>1. p.size \in Int /\ p.entry_price \in Int /\ price \in Int
  BY OffersAreHeld DEF Held
<1>2. Book!PnL(p, price) \in Int
  BY <1>1 DEF Book!PnL
<1>3. /\ q \in Held /\ q.current_price = price /\ q.unrealized_pnl = Book!PnL(p, price)
      /\ q.side = p.side /\ q.size = p.size /\ q.entry_price = p.entry_price
  BY <1>2 DEF Book!Repriced, Held
<1> HIDE DEF q
<1>4. Book!PnL(q, price) = Book!PnL(p, price) /\ Book!Notional(q, price) = Book!Notional(p, price)
  BY <1>3 DEF Book!PnL, Book!Notional
<1> QED BY <1>3, <1>4 DEF q

\* What happens to a position that is not repriced does not disturb what is shown of it.
LEMMA KeptPositions ==
  ASSUME BookInv, book' \in [DOMAIN book' -> Held], IsFiniteSet(DOMAIN book'),
         repriced' \subseteq repriced \cap DOMAIN book',
         \A s \in repriced' : \E levels : book'[s] = [book[s] EXCEPT !.levels = levels]
  PROVE  BookInv'
<1>1. ASSUME NEW s \in repriced'
      PROVE  /\ book'[s].current_price \in Prices
             /\ book'[s].unrealized_pnl = Book!PnL(book'[s], book'[s].current_price)
             /\ Book!Finite(Book!Notional(book'[s], book'[s].current_price))
  <2>1. s \in repriced /\ s \in DOMAIN book /\ book[s] \in Held /\ book[s].current_price \in Prices
    BY DEF BookInv
  <2>2. PICK levels : book'[s] = [book[s] EXCEPT !.levels = levels]
    OBVIOUS
  <2>3. /\ book'[s].current_price = book[s].current_price /\ book'[s].side = book[s].side
        /\ book'[s].size = book[s].size /\ book'[s].entry_price = book[s].entry_price
        /\ book'[s].unrealized_pnl = book[s].unrealized_pnl
    BY <2>1, <2>2 DEF Held
  <2>4. /\ book[s].unrealized_pnl = Book!PnL(book[s], book[s].current_price)
        /\ Book!Finite(Book!Notional(book[s], book[s].current_price))
    BY <2>1 DEF BookInv, Book!RepricedPnLIsRight
  <2> QED BY <2>1, <2>3, <2>4 DEF Book!PnL, Book!Notional
<1> QED BY <1>1 DEF BookInv, Book!RepricedPnLIsRight

LEMMA OpenManyKeepsBookInv ==
  ASSUME BookInv, NEW batch \in Book!Batches, Book!OpenMany(batch)
  PROVE  BookInv'
<1> DEFINE fresh == Book!SymbolsOf(batch)
           first(s) == CHOOSE i \in DOMAIN batch : batch[i].symbol = s
<1>1. PICK n \in 0..2 : batch \in [1..n -> Book!Items]
  BY DEF Book!Batches
<1>2. \A i \in DOMAIN batch : batch[i].position \in Offers
  BY <1>1 DEF Book!OpenMany, Book!Valid, Book!Items
<1>3. IsFiniteSet(fresh)
  <2> DEFINE f == [i \in 1..n |-> batch[i].symbol]
  <2>1. fresh = {batch[i].symbol : i \in 1..n}
    BY <1>1 DEF Book!SymbolsOf
  <2>2. f \in Surjection(1..n, fresh)
    BY <2>1 DEF Surjection
  <2>3. IsFiniteSet(1..n)
    BY FS_Interval
  <2> HIDE DEF f, fresh
  <2> QED BY <2>2, <2>3, FS_Surjection
<1>4. \A s \in fresh : first(s) \in DOMAIN batch /\ batch[first(s)].position \in Held
  <2> SUFFICES ASSUME NEW s \in fresh
               PROVE  first(s) \in DOMAIN batch /\ batch[first(s)].position \in Held
    OBVIOUS
  <2>1. \E i \in DOMAIN batch : batch[i].symbol = s
    BY DEF Book!SymbolsOf
  <2>2. first(s) \in DOMAIN batch
    BY <2>1
  <2> QED BY <1>2, <2>2, OffersAreHeld
<1>5. /\ book' = [s \in DOMAIN book \cup fresh |-> IF s \in DOMAIN book THEN book[s] ELSE batch[first(s)].position]
      /\ repriced' = repriced
  BY DEF Book!OpenMany, Book!Open
<1> HIDE DEF fresh, first
<1>6. DOMAIN book' = DOMAIN book \cup fresh /\ IsFiniteSet(DOMAIN book')
  BY <1>3, <1>5, FS_Union DEF BookInv
<1>7. book' \in [DOMAIN book' -> Held]
  BY <1>4, <1>5, <1>6 DEF BookInv
<1>8. ASSUME NEW s \in repriced'
      PROVE  \E levels : book'[s] = [book[s] EXCEPT !.levels = levels]
  <2>1. s \in DOMAIN book /\ book[s] \in Held
    BY <1>5 DEF BookInv
  <2>2. book'[s] = book[s]
    BY <1>5, <2>1
  <2>3. book[s] = [book[s] EXCEPT !.levels = book[s].levels]
    BY <2>1 DEF Held
  <2> QED BY <2>2, <2>3
<1> QED BY <1>5, <1>6, <1>7, <1>8, KeptPositions DEF BookInv

LEMMA CloseKeepsBookInv ==
  ASSUME BookInv, NEW symbol \in Symbols, Book!ClosePosition(symbol)
  PROVE  BookInv'
<1>1. book' = [s \in DOMAIN book \ {symbol} |-> book[s]] /\ repriced' = repriced \ {symbol}
  BY DEF Book!ClosePosition, Book!Open
<1>2. DOMAIN book' = DOMAIN book \ {symbol} /\ book' \in [DOMAIN book' -> Held] /\ IsFiniteSet(DOMAIN book')
  BY <1>1, FS_RemoveElement DEF BookInv
<1>3. ASSUME NEW s \in repriced'
      PROVE  \E levels : book'[s] = [book[s] EXCEPT !.levels = levels]
  <2>1. s \in DOMAIN book /\ book[s] \in Held /\ book'[s] = book[s]
    BY <1>1 DEF BookInv
  <2>3. book[s] = [book[s] EXCEPT !.levels = book[s].levels]
    BY <2>1 DEF Held
  <2> QED BY <2>1, <2>3
<1>4. repriced' \subseteq repriced \cap DOMAIN book'
  BY <1>1, <1>2 DEF BookInv
<1> QED BY <1>2, <1>3, <1>4, KeptPositions

LEMMA UpdateKeepsBookInv ==
  ASSUME BookInv, NEW known \in SUBSET Symbols, NEW prices \in [known -> Prices], Book!UpdatePrices(prices)
  PROVE  BookInv'
<1> DEFINE fits == known \subseteq DOMAIN book /\ \A s \in known : Book!Calculable(book[s], prices[s])
<1>1. /\ book' = IF fits THEN [s \in DOMAIN book |-> IF s \in known THEN Book!Repriced(book[s], prices[s]) ELSE book[s]]
                 ELSE book
      /\ repriced' = IF book' = book THEN repriced ELSE repriced \cup known
  BY DEF Book!UpdatePrices, Book!Updated
<1>2. CASE book' = book
  BY <1>1, <1>2 DEF BookInv, Book!RepricedPnLIsRight
<1>3. CASE book' # book
  <2>1. /\ fits /\ repriced' = repriced \cup known
        /\ book' = [s \in DOMAIN book |-> IF s \in known THEN Book!Repriced(book[s], prices[s]) ELSE book[s]]
    BY <1>1, <1>3
  <2>2. ASSUME NEW s \in known
        PROVE  /\ book'[s] \in Held /\ book'[s].current_price = prices[s] /\ prices[s] \in Prices
               /\ book'[s].unrealized_pnl = Book!PnL(book'[s], prices[s])
               /\ Book!Finite(Book!Notional(book'[s], prices[s]))
    <3>1. s \in DOMAIN book /\ book[s] \in Held /\ prices[s] \in Prices /\ Book!Calculable(book[s], prices[s])
      BY <2>1 DEF BookInv
    <3>2. book'[s] = Book!Repriced(book[s], prices[s])
      BY <2>1, <3>1
    <3> QED BY <3>1, <3>2, RepricedIs DEF Book!Calculable
  <2>3. \A s \in DOMAIN book \ known : book'[s] = book[s]
    BY <2>1
  <2>4. DOMAIN book' = DOMAIN book /\ book' \in [DOMAIN book -> Held] /\ repriced' \subseteq DOMAIN book
    <3>1. DOMAIN book' = DOMAIN book /\ repriced' \subseteq DOMAIN book
      BY <2>1 DEF BookInv
    <3>2. \A s \in DOMAIN book : book'[s] \in Held
      BY <2>2, <2>3 DEF BookInv
    <3>3. book' = [s \in DOMAIN book |-> book'[s]]
      BY <2>1
    <3> QED BY <3>1, <3>2, <3>3
  <2>5. ASSUME NEW s \in repriced'
        PROVE  /\ book'[s].current_price \in Prices
               /\ book'[s].unrealized_pnl = Book!PnL(book'[s], book'[s].current_price)
               /\ Book!Finite(Book!Notional(book'[s], book'[s].current_price))
    <3>1. CASE s \in known
      BY <2>2, <3>1
    <3>2. CASE s \notin known
      BY <2>1, <2>3, <3>2 DEF BookInv, Book!RepricedPnLIsRight
    <3> QED BY <3>1, <3>2
  <2> QED BY <2>4, <2>5 DEF BookInv, Book!RepricedPnLIsRight
<1> QED BY <1>2, <1>3

LEMMA LevelsKeepBookInv ==
  ASSUME BookInv, NEW symbol \in Symbols, NEW stop \in BOOLEAN, NEW target \in BOOLEAN,
         Book!UpdateRiskLevels(symbol, stop, target)
  PROVE  BookInv'
<1> DEFINE levels == [stop_loss |-> stop, take_profit |-> target]
<1>1. symbol \in DOMAIN book /\ book' = [book EXCEPT ![symbol].levels = levels] /\ repriced' = repriced
  BY DEF Book!UpdateRiskLevels, Book!Open
<1>2. levels \in [stop_loss : BOOLEAN, take_profit : BOOLEAN]
  OBVIOUS
<1> HIDE DEF levels
<1>3. /\ DOMAIN book' = DOMAIN book
      /\ \A s \in DOMAIN book : book'[s] = IF s = symbol THEN [book[s] EXCEPT !.levels = levels] ELSE book[s]
  BY <1>1 DEF BookInv
<1>4. \A s \in DOMAIN book : book[s] \in Held /\ book[s] = [book[s] EXCEPT !.levels = book[s].levels]
  BY DEF BookInv, Held
<1>5. \A s \in DOMAIN book : book'[s] \in Held
  BY <1>2, <1>3, <1>4 DEF Held
<1>6. book' \in [DOMAIN book' -> Held]
  <2>1. book' = [s \in DOMAIN book |-> book'[s]]
    BY <1>1 DEF BookInv
  <2> QED BY <1>5, <2>1
<1>7. ASSUME NEW s \in repriced'
      PROVE  \E l : book'[s] = [book[s] EXCEPT !.levels = l]
  BY <1>1, <1>3, <1>4 DEF BookInv
<1> QED BY <1>1, <1>3, <1>6, <1>7, KeptPositions DEF BookInv

LEMMA BookIsInvariant == Spec => []BookInv
<1>1. BookInv /\ [Next]_vars => BookInv'
  <2> SUFFICES ASSUME BookInv, [Next]_vars
               PROVE  BookInv'
    OBVIOUS
  <2>1. CASE Book!Next
    <3>1. ASSUME Book!Clear PROVE BookInv'
      <4>1. book' = <<>> /\ repriced' = {} /\ DOMAIN book' = {}
        BY <3>1 DEF Book!Clear
      <4> QED BY <4>1, FS_EmptySet DEF BookInv, Book!RepricedPnLIsRight
    <3> QED BY <2>1, <3>1, OpenManyKeepsBookInv, CloseKeepsBookInv, UpdateKeepsBookInv, LevelsKeepBookInv
      DEF Book!Next
  <2>2. CASE UNCHANGED bookVars
    BY <2>2 DEF BookInv, bookVars, Book!RepricedPnLIsRight
  <2> QED BY <2>1, <2>2, BookMoves
<1> QED BY <1>1, BookStarts, PTL DEF Spec

LEMMA BookSums == \A f : Book!SumOver(f) = Total(f, DOMAIN book)
BY DEF Book!SumOver, Book!Open, Book!MapThenSumSet, Book!MapThenFoldSet, Total

\* What one position adds to the sums.
LEMMA Exposure ==
  ASSUME NEW p \in Held
  PROVE  /\ Book!MarkPrice(p) \in Nat \ {0} /\ Book!Marked(p) \in Nat
         /\ Book!Signed(p, Book!Marked(p)) \in {Book!Marked(p), 0 - Book!Marked(p)}
         /\ Book!Signed(p, Book!Notional(p, p.entry_price)) \in Int
         /\ p.current_price \in Prices =>
              Book!PnL(p, p.current_price)
                = Book!Signed(p, Book!Marked(p)) - Book!Signed(p, Book!Notional(p, p.entry_price))
<1>1. p.size \in Nat \ {0} /\ p.entry_price \in Nat \ {0} /\ p.side \in {"BUY", "SELL"}
  BY DEF Held
<1>2. Book!MarkPrice(p) \in Nat \ {0} /\ (p.current_price \in Prices => Book!MarkPrice(p) = p.current_price)
  BY OffersAreHeld DEF Book!MarkPrice, Held
<1> DEFINE m == Book!MarkPrice(p)
           size == p.size
           entry == p.entry_price
<1>3. Book!Marked(p) = size * m /\ Book!Notional(p, entry) = size * entry
  BY DEF Book!Marked, Book!Notional
<1>4. Book!PnL(p, m) = size * (IF p.side = "BUY" THEN m - entry ELSE entry - m)
  BY DEF Book!PnL
<1>5. \A x : Book!Signed(p, x) = IF p.side = "BUY" THEN x ELSE 0 - x
  BY DEF Book!Signed
<1>6. m \in Nat \ {0} /\ size \in Nat \ {0} /\ entry \in Nat \ {0} /\ (p.current_price \in Prices => p.current_price = m)
  BY <1>1, <1>2
<1> HIDE DEF m, size, entry
<1>7. size * m \in Nat /\ size * entry \in Nat
  BY <1>6, Product
<1>8. size * (m - entry) = size * m - size * entry /\ size * (entry - m) = size * entry - size * m
  BY <1>6, SMT
<1>9. p.current_price \in Prices => Book!PnL(p, p.current_price) = Book!PnL(p, m)
  BY <1>6
<1>10. Book!PnL(p, m) = Book!Signed(p, Book!Marked(p)) - Book!Signed(p, Book!Notional(p, entry))
  <2>1. CASE p.side = "BUY"
    BY <1>3, <1>4, <1>5, <1>8, <2>1
  <2>2. CASE p.side # "BUY"
    <3>1. Book!PnL(p, m) = size * entry - size * m
      BY <1>4, <1>8, <2>2
    <3>2. /\ Book!Signed(p, Book!Marked(p)) = 0 - (size * m)
          /\ Book!Signed(p, Book!Notional(p, entry)) = 0 - (size * entry)
      BY <1>3, <1>5, <2>2
    <3> QED BY <1>7, <3>1, <3>2
  <2> QED BY <2>1, <2>2
<1> QED BY <1>2, <1>3, <1>5, <1>7, <1>9, <1>10 DEF entry

LEMMA ExposuresAgree == BookInv => Book!ExposuresAgree
<1> SUFFICES ASSUME BookInv
             PROVE  Book!ExposuresAgree
  OBVIOUS
<1> DEFINE open == DOMAIN book
           gross == Book!Exposures
           net == Book!NetExposures
           paid == [s \in open |-> Book!Signed(book[s], Book!Notional(book[s], book[s].entry_price))]
           shown == [s \in open |-> book[s].unrealized_pnl]
<1>0. IsFiniteSet(open)
  BY DEF BookInv
<1>1. /\ gross = [s \in open |-> Book!Marked(book[s])]
      /\ net = [s \in open |-> Book!Signed(book[s], gross[s])]
  BY DEF Book!Exposures, Book!NetExposures, Book!Open
<1>2. ASSUME NEW s \in open
      PROVE  /\ gross[s] = Book!Marked(book[s]) /\ net[s] = Book!Signed(book[s], Book!Marked(book[s]))
             /\ gross[s] \in Nat /\ net[s] \in {gross[s], 0 - gross[s]} /\ paid[s] \in Int
             /\ (s \in repriced => shown[s] = net[s] - paid[s])
  <2>1. book[s] \in Held
    BY DEF BookInv
  <2>2. gross[s] = Book!Marked(book[s]) /\ net[s] = Book!Signed(book[s], Book!Marked(book[s]))
    BY <1>1
  <2>3. gross[s] \in Nat /\ net[s] \in {gross[s], 0 - gross[s]} /\ paid[s] \in Int
    BY <2>1, <2>2, Exposure
  <2>4. s \in repriced => shown[s] = net[s] - paid[s]
    BY <2>1, <2>2, Exposure DEF BookInv, Book!RepricedPnLIsRight
  <2> QED BY <2>2, <2>3, <2>4
<1>3. /\ Book!GrossExposure = Total(gross, open) /\ Book!NetExposure = Total(net, open)
      /\ Book!TotalUnrealizedPnL = Total(shown, open)
      /\ Book!SumOver(gross) = Total(gross, open) /\ Book!SumOver(net) = Total(net, open)
      /\ Book!SumOver(paid) = Total(paid, open)
  BY BookSums DEF Book!GrossExposure, Book!NetExposure, Book!TotalUnrealizedPnL, Book!Open
<1> HIDE DEF gross, net, paid, shown
<1>4. IntegersOn(gross, open) /\ IntegersOn(net, open) /\ IntegersOn(paid, open)
  <2>1. \A s \in open : gross[s] \in Int /\ net[s] \in Int /\ paid[s] \in Int
    BY <1>2
  <2> QED BY <2>1 DEF IntegersOn
<1>5. \A s \in open : 0 - gross[s] <= net[s] /\ net[s] <= gross[s]
  BY <1>2
<1>6. /\ Total(gross, open) \in Int /\ Total(net, open) \in Int
      /\ 0 - Total(gross, open) <= Total(net, open) /\ Total(net, open) <= Total(gross, open)
  BY <1>0, <1>4, <1>5, TotalType, TotalBounds
<1>7. ASSUME Book!SumAnswers(gross)
      PROVE  Book!SumAnswers(net) /\ Book!NetExposure \in -Book!GrossExposure..Book!GrossExposure
  <2>1. Total(gross, open) \in -Largest..Largest /\ Largest \in Nat
    BY <1>3, <1>7, OffersAreHeld DEF Book!SumAnswers, Book!Finite
  <2>2. Total(net, open) \in -Largest..Largest /\ Total(net, open) \in (-Total(gross, open))..Total(gross, open)
    BY <1>6, <2>1
  <2>3. \A s \in open : net[s] \in -Largest..Largest
    <3> TAKE s \in open
    <3>1. gross[s] \in -Largest..Largest /\ gross[s] \in Nat /\ net[s] \in {gross[s], 0 - gross[s]}
      BY <1>2, <1>7 DEF Book!SumAnswers, Book!Finite, Book!Open
    <3> QED BY <2>1, <3>1
  <2> QED BY <1>3, <2>2, <2>3 DEF Book!SumAnswers, Book!Finite, Book!Open
<1>8. ASSUME open \subseteq repriced
      PROVE  Total(shown, open) = Total(net, open) - Total(paid, open)
  <2>1. \A s \in open : shown[s] = net[s] - paid[s]
    BY <1>2, <1>8
  <2> QED BY <1>0, <1>4, <2>1, TotalDifference
<1> QED BY <1>3, <1>7, <1>8 DEF Book!ExposuresAgree, Book!Open, gross, net, paid

\* The profit shown for a repriced position is that at the price shown beside it; the net
\* exposure lies within the gross one and gains what the profits say.
THEOREM AlwaysRepricedPnLIsRight == Spec => []RepricedPnLIsRight
<1>1. BookInv => RepricedPnLIsRight
  BY ExposuresAgree DEF BookInv, RepricedPnLIsRight
<1> QED BY <1>1, BookIsInvariant, PTL

------------------------------------------------------------------------------
(***************************************************************************)
(* Balances.                                                               *)
(***************************************************************************)

LEMMA AccountsMove == [Next]_vars => [Accounts!Next]_(Accounts!vars)
BY DEF Next, vars, otherVars, accountVars, Accounts!vars

LEMMA AccountsStart == ASSUME Init PROVE AccountsInv
<1>1. accounts = <<>> /\ outcome.method = "none" /\ outcome.refused = FALSE
  BY DEF Init, Accounts!Init, Accounts!Settled
<1>2. accounts \in AccountTables
  BY <1>1 DEF AccountTables, OncePerAsset
<1> QED BY <1>1, <1>2 DEF AccountsInv

LEMMA PutKeeps ==
  ASSUME NEW table \in AccountTables, NEW b \in Account
  PROVE  LET after == Accounts!Put(table, b)
         IN /\ after \in AccountTables /\ Has(after, b)
            /\ \A i \in DOMAIN table : table[i].asset # b.asset => Has(after, table[i])
<1> DEFINE after == Accounts!Put(table, b)
           n == Len(table)
<1>1. table \in Seq(Account) /\ OncePerAsset(table) /\ n \in Nat /\ DOMAIN table = 1..n
  BY DEF AccountTables
<1>2. CASE \E i \in DOMAIN table : table[i].asset = b.asset
  <2>1. after = [i \in 1..n |-> IF table[i].asset = b.asset THEN b ELSE table[i]]
    BY <1>1, <1>2 DEF Accounts!Put
  <2> HIDE DEF after, n
  <2>2. after \in [1..n -> Account]
    BY <1>1, <2>1
  <2>3. after \in Seq(Account) /\ DOMAIN after = 1..n
    BY <1>1, <2>2, SeqDef
  <2>4. \A i \in 1..n : after[i].asset = table[i].asset
    BY <2>1
  <2>5. OncePerAsset(after)
    BY <1>1, <2>3, <2>4 DEF OncePerAsset
  <2>6. Has(after, b)
    BY <1>1, <1>2, <2>1, <2>3 DEF Has
  <2>7. \A i \in DOMAIN table : table[i].asset # b.asset => Has(after, table[i])
    BY <1>1, <2>1, <2>3 DEF Has
  <2> QED BY <2>3, <2>5, <2>6, <2>7 DEF AccountTables, after
<1>3. CASE ~ \E i \in DOMAIN table : table[i].asset = b.asset
  <2>1. after = Append(table, b)
    BY <1>3 DEF Accounts!Put
  <2> HIDE DEF after, n
  <2>2. /\ after \in Seq(Account) /\ DOMAIN after = 1..(n + 1) /\ after[n + 1] = b
        /\ \A i \in 1..n : after[i] = table[i]
    BY <1>1, <2>1 DEF n
  <2>3. OncePerAsset(after)
    <3> SUFFICES ASSUME NEW i \in 1..(n + 1), NEW j \in 1..(n + 1), after[i].asset = after[j].asset
                 PROVE  i = j
      BY <2>2 DEF OncePerAsset
    <3>1. CASE i = n + 1 /\ j = n + 1
      BY <3>1
    <3>2. CASE i # n + 1 /\ j # n + 1
      <4>1. i \in 1..n /\ j \in 1..n
        BY <1>1, <3>2
      <4> QED BY <1>1, <2>2, <4>1 DEF OncePerAsset
    <3>3. CASE i = n + 1 /\ j # n + 1
      <4>1. j \in 1..n
        BY <1>1, <3>3
      <4> QED BY <1>1, <1>3, <2>2, <3>3, <4>1
    <3>4. CASE i # n + 1 /\ j = n + 1
      <4>1. i \in 1..n
        BY <1>1, <3>4
      <4> QED BY <1>1, <1>3, <2>2, <3>4, <4>1
    <3> QED BY <3>1, <3>2, <3>3, <3>4
  <2>4. Has(after, b)
    BY <1>1, <2>2 DEF Has
  <2>5. \A i \in DOMAIN table : Has(after, table[i])
    <3> TAKE i \in DOMAIN table
    <3>1. i \in 1..(n + 1)
      BY <1>1
    <3> QED BY <1>1, <2>2, <3>1 DEF Has
  <2> QED BY <2>2, <2>3, <2>4, <2>5 DEF AccountTables, after
<1> QED BY <1>2, <1>3

\* A batch that names every asset once is stored whole, and leaves the rest as it was.
LEMMA PutEachKeeps ==
  ASSUME NEW table \in AccountTables, NEW batch \in Seq(Account), OncePerAsset(batch)
  PROVE  LET end == Accounts!PutEach(table, batch)
         IN /\ end \in AccountTables
            /\ \A i \in DOMAIN batch : Has(end, batch[i])
            /\ \A i \in DOMAIN table : table[i].asset \notin AssetsOf(batch) => Has(end, table[i])
<1> DEFINE n == Len(batch)
           Then(r, i) == Accounts!Put(r, batch[i])
           Follows(f) == f = [i \in 0..n |-> IF i = 0 THEN table ELSE Then(f[i - 1], i)]
           step == [x \in Nat \X AccountTables |-> IF x[1] \in 1..n THEN Then(x[2], x[1]) ELSE x[2]]
           after == CHOOSE f : Follows(f)
<1>1. n \in Nat /\ DOMAIN batch = 1..n /\ \A i \in 1..n : batch[i] \in Account
  OBVIOUS
<1>2. \A r \in AccountTables, i \in 1..n : Then(r, i) \in AccountTables
  BY <1>1, PutKeeps
<1>3. Accounts!PutEach(table, batch) = after[n]
  BY DEF Accounts!PutEach
<1> HIDE DEF Then
<1>4. step \in Steps(AccountTables)
  BY <1>2 DEF Steps
<1> HIDE DEF n
<1>5. \E f : Follows(f)
  <2>1. PICK g \in [0..n -> AccountTables] : g[0] = table /\ \A i \in 1..n : g[i] = step[<<i, g[i - 1]>>]
    <3> HIDE DEF step
    <3>1. Iterates(n, AccountTables, table, step) # {}
      BY <1>1, <1>4, Recursion
    <3> QED BY <3>1 DEF Iterates
  <2>2. ASSUME NEW i \in 1..n
        PROVE  g[i] = Then(g[i - 1], i)
    <3>1. i \in Nat /\ i - 1 \in 0..n
      BY <1>1
    <3>2. <<i, g[i - 1]>> \in Nat \X AccountTables
      BY <2>1, <3>1
    <3>3. step[<<i, g[i - 1]>>] = Then(g[i - 1], i)
      BY <3>2
    <3> QED BY <2>1, <3>3
  <2>3. \A i \in 0..n : g[i] = IF i = 0 THEN table ELSE Then(g[i - 1], i)
    BY <1>1, <2>1, <2>2
  <2> HIDE DEF step
  <2>4. g = [i \in 0..n |-> IF i = 0 THEN table ELSE Then(g[i - 1], i)]
    BY <2>1, <2>3
  <2> QED BY <2>4
<1>6. Follows(after)
  BY <1>5
<1> HIDE DEF after
<1>7. after[0] = table /\ \A i \in 1..n : after[i] = Then(after[i - 1], i)
  BY <1>1, <1>6
<1> DEFINE Upto(i) == /\ after[i] \in AccountTables
                      /\ \A k \in 1..i : Has(after[i], batch[k])
                      /\ \A k \in DOMAIN table : table[k].asset \notin AssetsOf(batch) => Has(after[i], table[k])
           P == {i \in 0..n : Upto(i)}
<1>8. 0 \in P
  <2>1. \A k \in DOMAIN table : Has(table, table[k])
    BY DEF Has
  <2>2. Upto(0)
    BY <1>7, <2>1
  <2> QED BY <1>1, <2>2
<1>9. ASSUME NEW i \in 1..n, i - 1 \in P
      PROVE  i \in P
  <2> DEFINE r == after[i - 1]
             s == after[i]
             b == batch[i]
  <2>1. /\ r \in AccountTables /\ \A k \in 1..(i - 1) : Has(r, batch[k])
        /\ \A k \in DOMAIN table : table[k].asset \notin AssetsOf(batch) => Has(r, table[k])
    BY <1>9
  <2>2. b \in Account /\ s = Accounts!Put(r, b) /\ i \in 0..n
    BY <1>1, <1>7 DEF Then
  <2> HIDE DEF r, s, b
  <2>3. s \in AccountTables /\ Has(s, b) /\ \A k \in DOMAIN r : r[k].asset # b.asset => Has(s, r[k])
    BY <2>1, <2>2, PutKeeps
  <2>4. \A x : Has(r, x) /\ x.asset # b.asset => Has(s, x)
    BY <2>3 DEF Has
  <2>5. ASSUME NEW k \in 1..i
        PROVE  Has(s, batch[k])
    <3>1. CASE k = i
      BY <2>3, <3>1 DEF b
    <3>2. CASE k # i
      <4>1. k \in 1..(i - 1) /\ k \in 1..n /\ i \in 1..n
        BY <1>1, <3>2
      <4>2. batch[k].asset # b.asset
        BY <1>1, <3>2, <4>1 DEF OncePerAsset, b
      <4> QED BY <2>1, <2>4, <4>1, <4>2
    <3> QED BY <3>1, <3>2
  <2>6. ASSUME NEW k \in DOMAIN table, table[k].asset \notin AssetsOf(batch)
        PROVE  Has(s, table[k])
    <3>1. b.asset \in AssetsOf(batch)
      BY <1>1 DEF AssetsOf, b
    <3> QED BY <2>1, <2>4, <2>6, <3>1
  <2>7. Upto(i)
    BY <2>3, <2>5, <2>6 DEF s
  <2> QED BY <2>2, <2>7
<1>10. n \in P
  <2> HIDE DEF P
  <2> QED BY <1>1, <1>8, <1>9, UpTo
<1> QED BY <1>1, <1>3, <1>10

\* What a table holds of an asset is the balance it has of it.
LEMMA Lookup ==
  ASSUME NEW table, OncePerAsset(table), NEW b, Has(table, b)
  PROVE  table[CHOOSE i \in DOMAIN table : table[i].asset = b.asset] = b
<1>1. PICK i \in DOMAIN table : table[i] = b
  BY DEF Has
<1> DEFINE k == CHOOSE j \in DOMAIN table : table[j].asset = b.asset
<1>2. k \in DOMAIN table /\ table[k].asset = table[i].asset
  BY <1>1
<1>3. k = i
  BY <1>2 DEF OncePerAsset
<1> QED BY <1>1, <1>3

LEMMA GoodBatch ==
  ASSUME NEW batch \in Accounts!Batches, Accounts!ValidBatch(batch)
  PROVE  batch \in Seq(Account) /\ OncePerAsset(batch) /\ batch \in AccountTables
<1>1. Accounts!AmountsAssumption
  BY PartsAssumption
<1>2. PICK n \in 0..MaxBatch : batch \in [1..n -> Accounts!Balances]
  BY DEF Accounts!Batches
<1>3. n \in Nat
  BY <1>1, <1>2 DEF Accounts!AmountsAssumption
<1>4. ASSUME NEW i \in 1..n
      PROVE  batch[i] \in Account
  <2>1. batch[i] \in Accounts!Balances /\ Accounts!Valid(batch[i])
    BY <1>2 DEF Accounts!ValidBatch
  <2>2. batch[i].free \in Amounts /\ batch[i].locked \in Amounts
    BY <2>1 DEF Accounts!Balances, Accounts!Valid
  <2>3. batch[i].free \in Nat /\ batch[i].locked \in Nat
    <3>1. batch[i].free \in Int /\ batch[i].locked \in Int
      BY <1>1, <2>2 DEF Accounts!AmountsAssumption
    <3>2. batch[i].free >= 0 /\ batch[i].locked >= 0
      BY <2>1 DEF Accounts!Valid
    <3> QED BY <3>1, <3>2
  <2> QED BY <2>1, <2>3 DEF Account
<1>5. batch \in [1..n -> Account]
  BY <1>2, <1>4
<1>6. batch \in Seq(Account)
  BY <1>3, <1>5, SeqDef
<1>7. OncePerAsset(batch)
  BY DEF Accounts!ValidBatch, OncePerAsset
<1> QED BY <1>6, <1>7 DEF AccountTables

LEMMA BatchKeepsAccountsInv ==
  ASSUME AccountsInv, NEW batch \in Accounts!Batches,
         Accounts!UpdateMany(batch) \/ Accounts!ReplaceEvery(batch)
  PROVE  AccountsInv'
<1>1. accounts \in AccountTables
  BY DEF AccountsInv
<1>2. CASE ~Accounts!ValidBatch(batch)
  <2>1. accounts' = accounts /\ outcome'.refused /\ outcome'.before = accounts
    <3>1. CASE Accounts!UpdateMany(batch)
      BY <1>2, <3>1 DEF Accounts!UpdateMany, Accounts!Called
    <3>2. CASE Accounts!ReplaceEvery(batch)
      BY <1>2, <3>2 DEF Accounts!ReplaceEvery, Accounts!Called
    <3> QED BY <3>1, <3>2
  <2> QED BY <1>1, <2>1 DEF AccountsInv
<1>3. CASE Accounts!ValidBatch(batch) /\ Accounts!UpdateMany(batch)
  <2>1. /\ accounts' = Accounts!PutEach(accounts, batch) /\ outcome'.refused = FALSE
        /\ outcome'.before = accounts /\ outcome'.given = batch /\ outcome'.method = "update_many"
    BY <1>3 DEF Accounts!UpdateMany, Accounts!Called
  <2>2. batch \in Seq(Account) /\ OncePerAsset(batch)
    BY <1>3, GoodBatch
  <2>3. /\ accounts' \in AccountTables /\ \A i \in DOMAIN batch : Has(accounts', batch[i])
        /\ \A i \in DOMAIN accounts : accounts[i].asset \notin AssetsOf(batch) => Has(accounts', accounts[i])
    BY <1>1, <2>1, <2>2, PutEachKeeps
  <2> QED BY <2>1, <2>3 DEF AccountsInv
<1>4. CASE Accounts!ValidBatch(batch) /\ Accounts!ReplaceEvery(batch)
  <2>1. /\ accounts' = batch /\ outcome'.refused = FALSE /\ outcome'.given = batch
        /\ outcome'.method = "replace_all"
    BY <1>4 DEF Accounts!ReplaceEvery, Accounts!Called
  <2>2. batch \in AccountTables /\ \A i \in DOMAIN batch : Has(batch, batch[i])
    BY <1>4, GoodBatch DEF Has
  <2> QED BY <2>1, <2>2 DEF AccountsInv
<1> QED BY <1>2, <1>3, <1>4

LEMMA RemoveKeepsAccountsInv ==
  ASSUME AccountsInv, NEW asset \in Assets, Accounts!RemoveAsset(asset)
  PROVE  AccountsInv'
<1> DEFINE n == Len(accounts)
           m == CHOOSE i \in DOMAIN accounts : accounts[i].asset = asset
<1>1. accounts \in Seq(Account) /\ OncePerAsset(accounts) /\ n \in Nat /\ DOMAIN accounts = 1..n
  BY DEF AccountsInv, AccountTables
<1>2. outcome'.method = "remove" /\ outcome'.before = accounts /\ (outcome'.refused <=> asset \notin Accounts!Tracked)
  BY DEF Accounts!RemoveAsset, Accounts!Called
<1>3. CASE asset \notin Accounts!Tracked
  <2>1. accounts' = accounts
    BY <1>3 DEF Accounts!RemoveAsset
  <2> QED BY <1>2, <2>1 DEF AccountsInv
<1>4. CASE asset \in Accounts!Tracked
  <2>1. m \in 1..n
    BY <1>1, <1>4 DEF Accounts!Tracked
  <2>2. accounts' = SubSeq(accounts, 1, m - 1) \o SubSeq(accounts, m + 1, n)
    BY <1>4 DEF Accounts!RemoveAsset
  <2> HIDE DEF m, n
  <2> DEFINE a == SubSeq(accounts, 1, m - 1)
             b == SubSeq(accounts, m + 1, n)
  <2>3. a \in Seq(Account) /\ Len(a) = m - 1 /\ \A j \in 1..(m - 1) : a[j] = accounts[j]
    BY <1>1, <2>1 DEF n
  <2>4. b \in Seq(Account) /\ Len(b) = n - m /\ \A j \in 1..(n - m) : b[j] = accounts[j + m]
    <3>1. accounts \in Seq(Account) /\ m \in 1..Len(accounts) /\ n = Len(accounts)
      BY <1>1, <2>1 DEF n
    <3> QED BY <3>1
  <2> HIDE DEF a, b
  <2>5. /\ accounts' \in Seq(Account) /\ Len(accounts') = n - 1
        /\ \A j \in 1..(n - 1) : accounts'[j] = IF j < m THEN a[j] ELSE b[j - (m - 1)]
    <3>1. accounts' = a \o b
      BY <2>2 DEF a, b
    <3>2. a \in Seq(Account) /\ b \in Seq(Account)
      BY <2>3, <2>4
    <3>3. /\ accounts' \in Seq(Account) /\ Len(accounts') = Len(a) + Len(b)
          /\ \A j \in 1..(Len(a) + Len(b)) : accounts'[j] = IF j <= Len(a) THEN a[j] ELSE b[j - Len(a)]
      BY <3>1, <3>2, ConcatProperties
    <3>4. Len(a) + Len(b) = n - 1 /\ \A j \in 1..(n - 1) : (j <= m - 1 <=> j < m)
      BY <1>1, <2>1, <2>3, <2>4
    <3> QED BY <2>3, <3>3, <3>4
  <2>6. \A j \in 1..(n - 1) : accounts'[j] = accounts[IF j < m THEN j ELSE j + 1]
    <3> TAKE j \in 1..(n - 1)
    <3>1. CASE j < m
      <4>1. j \in 1..(m - 1)
        BY <1>1, <2>1, <3>1
      <4> QED BY <2>3, <2>5, <3>1, <4>1
    <3>2. CASE ~(j < m)
      <4>1. j - (m - 1) \in 1..(n - m) /\ (j - (m - 1)) + m = j + 1
        BY <1>1, <2>1, <3>2
      <4> QED BY <2>4, <2>5, <3>2, <4>1
    <3> QED BY <3>1, <3>2
  <2>7. OncePerAsset(accounts')
    <3>1. DOMAIN accounts' = 1..(n - 1)
      BY <2>5
    <3> SUFFICES ASSUME NEW i \in 1..(n - 1), NEW j \in 1..(n - 1), accounts'[i].asset = accounts'[j].asset
                 PROVE  i = j
      BY <3>1 DEF OncePerAsset
    <3> DEFINE i1 == IF i < m THEN i ELSE i + 1
               j1 == IF j < m THEN j ELSE j + 1
    <3>2. i1 \in 1..n /\ j1 \in 1..n /\ (i1 = j1 => i = j)
      BY <1>1, <2>1
    <3>3. accounts[i1].asset = accounts[j1].asset
      BY <2>6
    <3> HIDE DEF i1, j1
    <3> QED BY <1>1, <3>2, <3>3 DEF OncePerAsset
  <2> QED BY <1>2, <1>4, <2>5, <2>7 DEF AccountsInv, AccountTables
<1> QED BY <1>3, <1>4

LEMMA AccountsAreInvariant == Spec => []AccountsInv
<1>1. AccountsInv /\ [Next]_vars => AccountsInv'
  <2> SUFFICES ASSUME AccountsInv, [Next]_vars
               PROVE  AccountsInv'
    OBVIOUS
  <2>1. CASE Accounts!Next
    <3>1. ASSUME Accounts!Clear PROVE AccountsInv'
      <4>1. accounts' = <<>> /\ outcome'.method = "clear" /\ outcome'.refused = FALSE
        BY <3>1 DEF Accounts!Clear, Accounts!Called
      <4>2. accounts' \in AccountTables
        BY <4>1 DEF AccountTables, OncePerAsset
      <4> QED BY <4>1, <4>2 DEF AccountsInv
    <3>2. ASSUME Accounts!Settle PROVE AccountsInv'
      <4>1. accounts' = accounts /\ outcome'.method = "none" /\ outcome'.refused = FALSE
        BY <3>2 DEF Accounts!Settle, Accounts!Settled
      <4> QED BY <4>1 DEF AccountsInv
    <3> QED BY <2>1, <3>1, <3>2, BatchKeepsAccountsInv, RemoveKeepsAccountsInv DEF Accounts!Next
  <2>2. CASE UNCHANGED Accounts!vars
    BY <2>2 DEF AccountsInv, Accounts!vars
  <2> QED BY <2>1, <2>2, AccountsMove
<1> QED BY <1>1, AccountsStart, PTL DEF Spec

LEMMA AccountSums == \A f : Accounts!SumOf(f) = Total(f, DOMAIN f)
BY DEF Accounts!SumOf, Accounts!MapThenSumSet, Accounts!MapThenFoldSet, Total

\* The parts of a sum of balances make it up, and neither exceeds it.
LEMMA PartsMakeTheWhole ==
  ASSUME accounts \in Seq(Account)
  PROVE  /\ Accounts!TotalFree \in Int /\ Accounts!TotalLocked \in Int
         /\ Accounts!TotalFree + Accounts!TotalLocked = Accounts!TotalBalance
         /\ Accounts!TotalFree <= Accounts!TotalBalance /\ Accounts!TotalLocked <= Accounts!TotalBalance
<1> DEFINE D == DOMAIN accounts
           free == [i \in D |-> accounts[i].free]
           locked == [i \in D |-> accounts[i].locked]
           both == [i \in D |-> accounts[i].free + accounts[i].locked]
<1>1. IsFiniteSet(D)
  <2>1. D = 1..Len(accounts) /\ Len(accounts) \in Int
    OBVIOUS
  <2> QED BY <2>1, FS_Interval
<1>2. /\ Accounts!TotalFree = Total(free, D) /\ Accounts!TotalLocked = Total(locked, D)
      /\ Accounts!TotalBalance = Total(both, D)
  BY AccountSums DEF Accounts!TotalFree, Accounts!TotalLocked, Accounts!TotalBalance
<1>3. ASSUME NEW i \in D
      PROVE  /\ free[i] \in Nat /\ locked[i] \in Nat /\ both[i] = free[i] + locked[i]
             /\ free[i] = both[i] - locked[i] /\ both[i] \in Int
             /\ 0 - both[i] <= free[i] /\ free[i] <= both[i]
             /\ 0 - both[i] <= locked[i] /\ locked[i] <= both[i]
  <2>1. accounts[i].free \in Nat /\ accounts[i].locked \in Nat
    BY DEF Account
  <2> QED BY <2>1
<1> HIDE DEF D, free, locked, both
<1>4. IntegersOn(free, D) /\ IntegersOn(locked, D) /\ IntegersOn(both, D)
  BY <1>3 DEF IntegersOn
<1>5. /\ Total(free, D) \in Int /\ Total(locked, D) \in Int /\ Total(both, D) \in Int
  BY <1>1, <1>4, TotalType
<1>6. Total(free, D) = Total(both, D) - Total(locked, D)
  BY <1>1, <1>3, <1>4, TotalDifference
<1>7. Total(free, D) <= Total(both, D)
  BY <1>1, <1>3, <1>4, TotalBounds
<1>8. Total(locked, D) <= Total(both, D)
  BY <1>1, <1>3, <1>4, TotalBounds
<1> QED BY <1>2, <1>5, <1>6, <1>7, <1>8

\* Refused calls change nothing, accepted ones are stored whole, no asset is there twice,
\* and the parts of a finite sum make it up.
THEOREM AlwaysTotalsAgree == Spec => []TotalsAgree
<1>1. AccountsInv => TotalsAgree
  <2> SUFFICES ASSUME AccountsInv
               PROVE  Accounts!TotalsAgree
    BY DEF TotalsAgree
  <2>1. accounts \in Seq(Account) /\ OncePerAsset(accounts)
    BY DEF AccountsInv, AccountTables
  <2>2. \A b : Has(accounts, b) => Accounts!BalanceOf(b.asset) = b
    BY <2>1, Lookup DEF Accounts!BalanceOf
  <2>3. Accounts!Finite(Accounts!TotalBalance) =>
          /\ Accounts!Finite(Accounts!TotalFree) /\ Accounts!Finite(Accounts!TotalLocked)
          /\ Accounts!TotalFree + Accounts!TotalLocked = Accounts!TotalBalance
    <3>1. Largest \in Int
      BY PartsAssumption DEF Accounts!AmountsAssumption
    <3>2. Accounts!TotalFree \in Int /\ Accounts!TotalLocked \in Int /\ Accounts!TotalBalance \in Int
      BY <2>1, PartsMakeTheWhole
    <3> QED BY <2>1, <3>1, <3>2, PartsMakeTheWhole DEF Accounts!Finite
  <2>4. /\ \A i, j \in DOMAIN accounts : accounts[i].asset = accounts[j].asset => i = j
        /\ outcome.refused => accounts = outcome.before
    BY <2>1 DEF AccountsInv, OncePerAsset
  <2>5. ASSUME outcome.method \in {"update_many", "replace_all"}, ~outcome.refused
        PROVE  /\ \A i \in DOMAIN outcome.given : Accounts!BalanceOf(outcome.given[i].asset) = outcome.given[i]
               /\ outcome.method = "replace_all" => Accounts!Tracked = AssetsOf(outcome.given)
               /\ outcome.method = "update_many" =>
                    \A i \in DOMAIN outcome.before :
                      outcome.before[i].asset \notin AssetsOf(outcome.given) =>
                        Accounts!BalanceOf(outcome.before[i].asset) = outcome.before[i]
    BY <2>2, <2>5 DEF AccountsInv, Accounts!Tracked, AssetsOf
  <2> QED BY <2>3, <2>4, <2>5 DEF Accounts!TotalsAgree, AssetsOf
<1> QED BY <1>1, AccountsAreInvariant, PTL

------------------------------------------------------------------------------
(***************************************************************************)
(* Valuations.                                                             *)
(***************************************************************************)

LEMMA PortfolioMoves == [Next]_vars => [Portfolio!Next]_(Portfolio!vars)
BY DEF Next, vars, deskVars, portfolioVars, Portfolio!vars, Portfolio!tables

LEMMA PortfolioSums ==
  \A k, b, t, o : Portfolio!Value(k, b, t, o) = b + Total(Portfolio!Shares(k, t, o), Portfolio!Tracked(t))
BY DEF Portfolio!Value, Portfolio!MapThenSumSet, Portfolio!MapThenFoldSet, Total

LEMMA Shapes ==
  /\ IsFiniteSet(Symbols) /\ Prices \subseteq Nat \ {0} /\ Profits \subseteq Int /\ 0 \in Profits
  /\ EntryPrice \in [Objects -> Nat \ {0}] /\ Stake \in [Objects -> Nat \ {0}] /\ MaxBalance \in Nat
  /\ NoObject \notin Objects /\ "balance" \notin Objects /\ "positions" \notin Objects
<1>1. Portfolio!ShapesAssumption
  BY PartsAssumption
<1>2. IsFiniteSet(Symbols)
  BY <1>1 DEF Portfolio!ShapesAssumption, Portfolio!IsFiniteSet, IsFiniteSet
<1> QED BY <1>1, <1>2 DEF Portfolio!ShapesAssumption

\* What each position adds is a number.
LEMMA SharesAre ==
  ASSUME NEW k, NEW t \in Tables, NEW o \in [Objects -> LiveObjects]
  PROVE  /\ IsFiniteSet(Portfolio!Tracked(t)) /\ IntegersOn(Portfolio!Shares(k, t, o), Portfolio!Tracked(t))
         /\ \A s \in Portfolio!Tracked(t) :
              t[s] \in Objects /\ Portfolio!Shares(k, t, o)[s] = Portfolio!Share(o, k, t[s])
         /\ Total(Portfolio!Shares(k, t, o), Portfolio!Tracked(t)) \in Int
<1>1. IsFiniteSet(Portfolio!Tracked(t))
  BY Shapes, FS_Subset DEF Portfolio!Tracked
<1>2. ASSUME NEW s \in Portfolio!Tracked(t)
      PROVE  /\ t[s] \in Objects /\ Portfolio!Shares(k, t, o)[s] = Portfolio!Share(o, k, t[s])
             /\ Portfolio!Shares(k, t, o)[s] \in Int
  <2>1. t[s] \in Objects
    BY DEF Portfolio!Tracked, Tables
  <2> DEFINE x == o[t[s]]
             price == IF x.current_price = NoPrice THEN EntryPrice[t[s]] ELSE x.current_price
             stake == Stake[t[s]]
  <2>2. x \in LiveObjects /\ stake \in Int
    BY <2>1, Shapes
  <2>3. price \in Int /\ x.unrealized_pnl \in Int
    <3>1. EntryPrice[t[s]] \in Int
      BY <2>1, Shapes
    <3>2. x.current_price \in Prices \cup {NoPrice} /\ x.unrealized_pnl \in Int
      <4>1. x \in LiveObjects
        BY <2>2
      <4> HIDE DEF x
      <4> QED BY <4>1 DEF LiveObjects
    <3> HIDE DEF x
    <3>3. Prices \subseteq Int
      BY Shapes
    <3>4. (x.current_price = NoPrice \/ x.current_price \in Int) /\ x.unrealized_pnl \in Int
      BY <3>2, <3>3
    <3> QED BY <3>1, <3>4
  <2>4. Portfolio!Shares(k, t, o)[s] = IF k = "equity" THEN x.unrealized_pnl ELSE 0 - stake * price
    BY DEF Portfolio!Shares
  <2>5. Portfolio!Share(o, k, t[s]) = IF k = "equity" THEN x.unrealized_pnl ELSE 0 - stake * price
    BY DEF Portfolio!Share, Portfolio!MarkPrice
  <2> HIDE DEF x, price, stake
  <2>6. 0 - stake * price \in Int
    BY <2>2, <2>3
  <2> QED BY <2>1, <2>3, <2>4, <2>5, <2>6
<1>3. IntegersOn(Portfolio!Shares(k, t, o), Portfolio!Tracked(t))
  BY <1>2 DEF IntegersOn
<1> QED BY <1>1, <1>2, <1>3, TotalType

LEMMA PortfolioStarts == ASSUME Init PROVE PortfolioInv
<1>1. /\ balance \in 0..MaxBalance /\ shared = [s \in Symbols |-> NoObject]
      /\ live \in [Objects -> [symbol : Symbols, current_price : {NoPrice}, unrealized_pnl : {0}]]
      /\ valuing = [kind |-> "none", sum |-> 0, left |-> {}, locked |-> FALSE]
      /\ changed = {} /\ verdict = "none"
  BY DEF Init, Portfolio!Init, Portfolio!Idle
<1>2. balance \in Int /\ shared \in Tables
  BY <1>1, Shapes DEF Tables
<1>3. live \in [Objects -> LiveObjects]
  BY <1>1 DEF LiveObjects
<1> QED BY <1>1, <1>2, <1>3, FS_EmptySet DEF PortfolioInv

\* What a change adds to the histories.
LEMMA Changing ==
  ASSUME PortfolioInv, NEW what, Portfolio!Observed(what)
  PROVE  /\ valuing' = valuing /\ verdict' = verdict /\ IsFiniteSet(changed')
         /\ valuing.kind = "none" => changed' = changed
         /\ valuing.kind # "none" =>
              /\ changed' = changed \cup {what}
              /\ seen' = seen \cup {balance' + Total(SharesNow', Filed')}
<1>1. /\ valuing' = valuing /\ verdict' = verdict
      /\ IF valuing.kind # "none"
         THEN /\ changed' = changed \cup {what}
              /\ seen' = seen \cup {Portfolio!Value(valuing.kind, balance', shared', live')}
         ELSE changed' = changed
  BY DEF Portfolio!Observed, Portfolio!Busy
<1>2. Portfolio!Value(valuing.kind, balance', shared', live') = balance' + Total(SharesNow', Filed')
  <2>1. SharesNow' = Portfolio!Shares(valuing.kind, shared', live') /\ Filed' = Portfolio!Tracked(shared')
    BY <1>1 DEF SharesNow, Filed, Portfolio!Shares, Portfolio!Tracked
  <2> QED BY <2>1, PortfolioSums
<1>3. IsFiniteSet(changed')
  BY <1>1, FS_AddElement DEF PortfolioInv
<1> QED BY <1>1, <1>2, <1>3

LEMMA BalanceKeepsPortfolioInv ==
  ASSUME PortfolioInv, NEW amount \in Int, Portfolio!SetBalance(amount) \/ Portfolio!AdjustBalance(amount)
  PROVE  PortfolioInv'
<1>1. ~valuing.locked /\ shared' = shared /\ live' = live /\ Portfolio!Observed("balance")
  BY DEF Portfolio!SetBalance, Portfolio!AdjustBalance, Portfolio!Unlocked
<1>2. balance' \in Int
  <2>1. balance \in Int
    BY DEF PortfolioInv
  <2> QED BY <2>1 DEF Portfolio!SetBalance, Portfolio!AdjustBalance
<1>3. /\ valuing' = valuing /\ verdict' = verdict /\ IsFiniteSet(changed')
      /\ valuing.kind = "none" => changed' = changed
      /\ valuing.kind # "none" => changed' = changed \cup {"balance"} /\ seen \subseteq seen'
  BY <1>1, Changing
<1>4. SharesNow' = SharesNow /\ Filed' = Filed
  BY <1>1, <1>3 DEF SharesNow, Filed, Portfolio!Shares, Portfolio!Tracked
<1>5. valuing.kind # "none" => BeforeLock'
  <2> SUFFICES ASSUME valuing.kind # "none"
               PROVE  BeforeLock'
    OBVIOUS
  <2>1. BeforeLock
    BY <1>1 DEF PortfolioInv
  <2>2. Single(changed') => Single(changed)
    BY <1>3 DEF Single
  <2> QED BY <1>3, <1>4, <2>1, <2>2 DEF BeforeLock
<1> QED BY <1>1, <1>2, <1>3, <1>5 DEF PortfolioInv

\* Anything else that changes while the lock is free.
LEMMA FreeChangeKeepsPortfolioInv ==
  ASSUME PortfolioInv, NEW what, what # "balance", ~valuing.locked, Portfolio!Observed(what),
         balance' = balance, shared' \in Tables, live' \in [Objects -> LiveObjects]
  PROVE  PortfolioInv'
<1>1. /\ valuing' = valuing /\ verdict' = verdict /\ IsFiniteSet(changed')
      /\ valuing.kind = "none" => changed' = changed
      /\ valuing.kind # "none" => /\ changed' = changed \cup {what}
                                  /\ balance + Total(SharesNow', Filed') \in seen'
  BY Changing
<1>2. valuing.kind # "none" => BeforeLock'
  <2> SUFFICES ASSUME valuing.kind # "none"
               PROVE  BeforeLock'
    OBVIOUS
  <2>1. BeforeLock
    BY DEF PortfolioInv
  <2>2. "balance" \notin changed' => valuing.sum = balance
    BY <1>1, <2>1 DEF BeforeLock
  <2>3. Single(changed') => "balance" \notin changed'
    BY <1>1 DEF Single
  <2> QED BY <1>1, <2>2, <2>3 DEF BeforeLock
<1> QED BY <1>1, <1>2 DEF PortfolioInv

LEMMA TableKeepsPortfolioInv ==
  ASSUME PortfolioInv, NEW batch \in SUBSET Objects, NEW symbol \in Symbols,
         Portfolio!AddPositions(batch) \/ Portfolio!ReplacePositions(batch) \/ Portfolio!RemovePosition(symbol)
  PROVE  PortfolioInv'
<1>1. ~valuing.locked /\ balance' = balance /\ live' = live /\ Portfolio!Observed("positions")
  BY DEF Portfolio!AddPositions, Portfolio!ReplacePositions, Portfolio!RemovePosition, Portfolio!Unlocked
<1>2. \A s \in Symbols : Portfolio!Keyed(s, batch) # {} =>
        (CHOOSE o \in Portfolio!Keyed(s, batch) : TRUE) \in Objects
  BY DEF Portfolio!Keyed
<1>3. shared' \in Tables
  <2>1. CASE Portfolio!AddPositions(batch)
    BY <1>2, <2>1 DEF Portfolio!AddPositions, PortfolioInv, Tables
  <2>2. CASE Portfolio!ReplacePositions(batch)
    BY <1>2, <2>2 DEF Portfolio!ReplacePositions, Tables
  <2>3. CASE Portfolio!RemovePosition(symbol)
    BY <2>3 DEF Portfolio!RemovePosition, PortfolioInv, Tables
  <2> QED BY <2>1, <2>2, <2>3
<1> QED BY <1>1, <1>3, FreeChangeKeepsPortfolioInv DEF PortfolioInv

\* A holder writes while the sum is made: the positions left that are not that object's are
\* worth what they were, and if one is, none of those already added is.
LEMMA HolderKeepsPortfolioInv ==
  ASSUME PortfolioInv, NEW o \in Objects, Portfolio!HolderWrites(o)
  PROVE  PortfolioInv'
<1>1. /\ balance' = balance /\ shared' = shared /\ Portfolio!Observed(o) /\ o # "balance"
      /\ shared \in Tables /\ live \in [Objects -> LiveObjects]
  BY Shapes DEF Portfolio!HolderWrites, PortfolioInv
<1>2. live' \in [Objects -> LiveObjects] /\ \A p \in Objects : p # o => live'[p] = live[p]
  <2>1. CASE \E price \in Prices : live' = [live EXCEPT ![o].current_price = price]
    <3>1. PICK price \in Prices : live' = [live EXCEPT ![o] = [live[o] EXCEPT !.current_price = price]]
      BY <1>1, <2>1
    <3>2. [live[o] EXCEPT !.current_price = price] \in LiveObjects
      BY <1>1 DEF LiveObjects
    <3> QED BY <1>1, <3>1, <3>2
  <2>2. CASE \E profit \in Profits : live' = [live EXCEPT ![o].unrealized_pnl = profit]
    <3>1. PICK profit \in Profits : live' = [live EXCEPT ![o] = [live[o] EXCEPT !.unrealized_pnl = profit]]
      BY <1>1, <2>2
    <3>2. [live[o] EXCEPT !.unrealized_pnl = profit] \in LiveObjects
      BY <1>1, Shapes DEF LiveObjects
    <3> QED BY <1>1, <3>1, <3>2
  <2>3. CASE \E symbol \in Symbols : live' = [live EXCEPT ![o].symbol = symbol]
    <3>1. PICK symbol \in Symbols : live' = [live EXCEPT ![o] = [live[o] EXCEPT !.symbol = symbol]]
      BY <1>1, <2>3
    <3>2. [live[o] EXCEPT !.symbol = symbol] \in LiveObjects
      BY <1>1 DEF LiveObjects
    <3> QED BY <1>1, <3>1, <3>2
  <2> QED BY <2>1, <2>2, <2>3 DEF Portfolio!HolderWrites
<1>3. CASE ~valuing.locked
  BY <1>1, <1>2, <1>3, FreeChangeKeepsPortfolioInv
<1>4. CASE valuing.locked
  <2> DEFINE done == Filed \ valuing.left
             left == valuing.left
             old == SharesNow
             new == SharesNow'
  <2>1. /\ valuing.kind # "none" /\ UnderLock /\ left \subseteq Filed /\ valuing.sum \in Int /\ balance \in Int
    BY <1>4 DEF PortfolioInv
  <2>2. /\ valuing' = valuing /\ verdict' = verdict /\ IsFiniteSet(changed')
        /\ changed' = changed \cup {o} /\ seen' = seen \cup {balance + Total(new, Filed')}
    BY <1>1, <2>1, Changing
  <2>3. Filed' = Filed
    BY <1>1 DEF Filed, Portfolio!Tracked
  <2>4. /\ IsFiniteSet(Filed) /\ IntegersOn(old, Filed) /\ IntegersOn(new, Filed)
        /\ \A s \in Filed : shared[s] \in Objects
        /\ \A s \in Filed : shared[s] # o => new[s] = old[s]
    <3>1. /\ IsFiniteSet(Filed) /\ IntegersOn(old, Filed)
          /\ \A s \in Filed : shared[s] \in Objects /\ old[s] = Portfolio!Share(live, valuing.kind, shared[s])
      BY <1>1, SharesAre DEF SharesNow, Filed
    <3>2. new = Portfolio!Shares(valuing.kind, shared, live')
      BY <1>1, <2>2 DEF SharesNow, Portfolio!Shares, Portfolio!Tracked
    <3>3. /\ IntegersOn(new, Filed)
          /\ \A s \in Filed : new[s] = Portfolio!Share(live', valuing.kind, shared[s])
      BY <1>1, <1>2, <3>2, SharesAre DEF Filed
    <3>4. \A p \in Objects : p # o => Portfolio!Share(live', valuing.kind, p) = Portfolio!Share(live, valuing.kind, p)
      BY <1>2 DEF Portfolio!Share
    <3> QED BY <3>1, <3>3, <3>4
  <2> HIDE DEF old, new
  <2>5. ASSUME NEW T \in SUBSET Filed
        PROVE  IsFiniteSet(T) /\ IntegersOn(old, T) /\ IntegersOn(new, T) /\ Total(new, T) \in Int
    <3>1. IsFiniteSet(T) /\ IntegersOn(old, T) /\ IntegersOn(new, T)
      BY <2>4, FS_Subset DEF IntegersOn
    <3> QED BY <3>1, TotalType
  <2>6. ASSUME NEW T \in SUBSET Filed, \A s \in T : shared[s] # o
        PROVE  Total(new, T) = Total(old, T)
    <3>1. \A s \in T : new[s] = old[s]
      BY <2>4, <2>6
    <3> QED BY <2>5, <3>1, TotalSame
  <2>7. /\ done \in SUBSET Filed /\ left \in SUBSET Filed
        /\ Total(new, Filed) = Total(new, left) + Total(new, done)
    <3>1. left \in SUBSET Filed
      BY <2>1
    <3> QED BY <2>4, <3>1, TotalSplit
  <2>8. ASSUME "balance" \notin changed', \A s \in done : shared[s] \notin changed'
        PROVE  valuing.sum = balance + Total(new, done)
    <3>1. valuing.sum = balance + Total(old, done)
      BY <2>1, <2>2, <2>8 DEF UnderLock, old
    <3>2. \A s \in done : shared[s] # o
      BY <2>2, <2>8
    <3> QED BY <2>6, <2>7, <3>1, <3>2
  <2>9. ASSUME Single(changed'), FiledOnce'
        PROVE  valuing.sum + Total(new, left) \in seen'
    <3>1. changed' = {o} /\ Single(changed) /\ FiledOnce
      BY <1>1, <2>2, <2>9 DEF Single, FiledOnce
    <3>2. CASE \E s \in left : shared[s] = o
      <4>1. PICK s \in left : shared[s] = o
        BY <3>2
      <4>2. \A r \in done : shared[r] # o
        <5> SUFFICES ASSUME NEW r \in done, shared[r] = o
                     PROVE  FALSE
          OBVIOUS
        <5>1. s \in Symbols /\ r \in Symbols /\ o \in changed' \cap Objects
          BY <2>7, <3>1 DEF Filed, Portfolio!Tracked
        <5>2. s = r
          BY <1>1, <2>9, <4>1, <5>1 DEF FiledOnce
        <5> QED BY <5>2
      <4>3. valuing.sum = balance + Total(new, done)
        BY <1>1, <2>8, <3>1, <4>2
      <4>4. valuing.sum + Total(new, left) = balance + Total(new, Filed)
        <5>1. Total(new, done) \in Int /\ Total(new, left) \in Int
          BY <2>5, <2>7
        <5> HIDE DEF done, left
        <5> QED BY <2>1, <2>7, <4>3, <5>1
      <4> QED BY <2>2, <2>3, <4>4
    <3>3. CASE ~ \E s \in left : shared[s] = o
      <4>1. Total(new, left) = Total(old, left)
        BY <2>6, <2>7, <3>3
      <4>2. valuing.sum + Total(old, left) \in seen
        BY <2>1, <3>1 DEF UnderLock, old
      <4> QED BY <2>2, <4>1, <4>2
    <3> QED BY <3>2, <3>3
  <2>10. UnderLock'
    BY <1>1, <2>2, <2>3, <2>8, <2>9 DEF UnderLock, new
  <2> QED BY <1>1, <1>2, <1>4, <2>1, <2>2, <2>3, <2>10 DEF PortfolioInv
<1> QED BY <1>3, <1>4

LEMMA ReadKeepsPortfolioInv ==
  ASSUME PortfolioInv, NEW k \in Portfolio!Kinds, Portfolio!ReadBalance(k)
  PROVE  PortfolioInv'
<1>1. /\ valuing.kind = "none" /\ changed = {} /\ balance \in Int
  BY DEF PortfolioInv, Portfolio!ReadBalance, Portfolio!Busy
<1>2. /\ valuing' = [kind |-> k, sum |-> balance, left |-> {}, locked |-> FALSE]
      /\ seen' = {Portfolio!Value(k, balance, shared, live)}
      /\ UNCHANGED <<balance, shared, live, changed>> /\ verdict' = "none"
  BY DEF Portfolio!ReadBalance, Portfolio!tables, Portfolio!Idle
<1>3. k \in {"equity", "available_balance"}
  BY DEF Portfolio!Kinds
<1>4. SharesNow' = Portfolio!Shares(k, shared, live) /\ Filed' = Portfolio!Tracked(shared)
  BY <1>2 DEF SharesNow, Filed, Portfolio!Shares, Portfolio!Tracked
<1>5. valuing'.sum = balance /\ balance + Total(SharesNow', Filed') \in seen'
  BY <1>2, <1>4, PortfolioSums
<1>6. BeforeLock'
  BY <1>2, <1>5 DEF BeforeLock
<1> QED BY <1>1, <1>2, <1>3, <1>6 DEF PortfolioInv

LEMMA LockKeepsPortfolioInv == ASSUME PortfolioInv, Portfolio!TakeLockAgain PROVE PortfolioInv'
<1>1. /\ valuing.kind # "none" /\ ~valuing.locked /\ BeforeLock
      /\ valuing \in [kind : {"equity", "available_balance", "none"}, sum : Int, left : SUBSET Symbols,
                      locked : BOOLEAN]
      /\ balance \in Int
  BY DEF PortfolioInv, Portfolio!TakeLockAgain, Portfolio!Busy, Portfolio!Unlocked
<1>2. valuing' = [valuing EXCEPT !.left = Filed, !.locked = TRUE]
  BY DEF Portfolio!TakeLockAgain, Filed
<1>3. UNCHANGED <<balance, shared, live, seen, changed, verdict>>
  BY DEF Portfolio!TakeLockAgain, Portfolio!tables
<1>4. Filed \subseteq Symbols
  BY DEF Filed, Portfolio!Tracked
<1>5. /\ valuing'.kind = valuing.kind /\ valuing'.sum = valuing.sum /\ valuing'.left = Filed /\ valuing'.locked
      /\ valuing' \in [kind : {"equity", "available_balance", "none"}, sum : Int, left : SUBSET Symbols,
                       locked : BOOLEAN]
  BY <1>1, <1>2, <1>4
<1>6. SharesNow' = SharesNow /\ Filed' = Filed /\ Filed \ Filed = {}
  BY <1>3, <1>5 DEF SharesNow, Filed, Portfolio!Shares, Portfolio!Tracked
<1>7. "balance" \notin changed => valuing.sum = balance + Total(SharesNow, {})
  BY <1>1, TotalEmpty DEF BeforeLock
<1>8. UnderLock'
  BY <1>1, <1>3, <1>5, <1>6, <1>7 DEF UnderLock, BeforeLock
<1> QED BY <1>1, <1>3, <1>5, <1>6, <1>8 DEF PortfolioInv, Filed

LEMMA AddKeepsPortfolioInv ==
  ASSUME PortfolioInv, NEW s \in Symbols, Portfolio!AddOne(s)
  PROVE  PortfolioInv'
<1> DEFINE sh == SharesNow
           left == valuing.left
           done == Filed \ left
           left2 == left \ {s}
           done2 == Filed \ left2
           x == Portfolio!Share(live, valuing.kind, shared[s])
<1>1. /\ valuing.locked /\ s \in left /\ valuing.kind # "none" /\ UnderLock /\ left \subseteq Filed
      /\ valuing \in [kind : {"equity", "available_balance", "none"}, sum : Int, left : SUBSET Symbols,
                      locked : BOOLEAN]
      /\ balance \in Int /\ shared \in Tables /\ live \in [Objects -> LiveObjects]
  BY DEF PortfolioInv, Portfolio!AddOne
<1>2. /\ valuing' = [valuing EXCEPT !.sum = valuing.sum + x, !.left = left2]
      /\ UNCHANGED <<balance, shared, live, seen, changed, verdict>>
  BY DEF Portfolio!AddOne, Portfolio!tables
<1>3. /\ IsFiniteSet(Filed) /\ IntegersOn(sh, Filed) /\ \A r \in Filed : sh[r] \in Int
      /\ s \in Filed /\ sh[s] = x
  <2>1. /\ IsFiniteSet(Filed) /\ IntegersOn(sh, Filed)
        /\ \A r \in Filed : sh[r] = Portfolio!Share(live, valuing.kind, shared[r])
    BY <1>1, SharesAre DEF SharesNow, Filed
  <2>2. s \in Filed
    BY <1>1
  <2> HIDE DEF sh
  <2> QED BY <2>1, <2>2 DEF IntegersOn
<1> HIDE DEF sh, x
<1>4. /\ valuing'.kind = valuing.kind /\ valuing'.sum = valuing.sum + sh[s] /\ valuing'.left = left2
      /\ valuing'.locked /\ valuing.sum \in Int /\ sh[s] \in Int
      /\ valuing' \in [kind : {"equity", "available_balance", "none"}, sum : Int, left : SUBSET Symbols,
                       locked : BOOLEAN]
  <2>1. valuing.sum \in Int /\ sh[s] \in Int /\ valuing.sum + sh[s] \in Int /\ left2 \in SUBSET Symbols
    BY <1>1, <1>3
  <2>2. valuing' = [valuing EXCEPT !.sum = valuing.sum + sh[s], !.left = left2]
    BY <1>2, <1>3
  <2> HIDE DEF left2
  <2> QED BY <1>1, <2>1, <2>2
<1>5. SharesNow' = sh /\ Filed' = Filed
  BY <1>2, <1>4 DEF SharesNow, Filed, Portfolio!Shares, Portfolio!Tracked, sh
<1>6. ASSUME NEW T \in SUBSET Filed
      PROVE  IsFiniteSet(T) /\ IntegersOn(sh, T) /\ Total(sh, T) \in Int
  <2>1. IsFiniteSet(T) /\ IntegersOn(sh, T)
    BY <1>3, FS_Subset DEF IntegersOn
  <2> QED BY <2>1, TotalType
<1>7. Total(sh, left) = sh[s] + Total(sh, left2) /\ Total(sh, left2) \in Int /\ Total(sh, left) \in Int
  BY <1>1, <1>6, TotalTake
<1>8. /\ Total(sh, done2) = sh[s] + Total(sh, done) /\ Total(sh, done) \in Int /\ s \in done2
      /\ done \subseteq done2
  <2>1. done2 \in SUBSET Filed /\ done \in SUBSET Filed /\ s \in done2 /\ done2 \ {s} = done
    BY <1>1, <1>3
  <2>2. IsFiniteSet(done2) /\ IntegersOn(sh, done2) /\ Total(sh, done) \in Int
    BY <1>6, <2>1
  <2> HIDE DEF done, done2
  <2>3. Total(sh, done2) = sh[s] + Total(sh, done2 \ {s})
    BY <2>1, <2>2, TotalTake
  <2> QED BY <2>1, <2>2, <2>3
<1>9. ASSUME "balance" \notin changed, \A r \in done2 : shared[r] \notin changed
      PROVE  valuing.sum + sh[s] = balance + Total(sh, done2)
  <2>1. valuing.sum = balance + Total(sh, done)
    BY <1>1, <1>8, <1>9 DEF UnderLock, sh
  <2> HIDE DEF done, done2
  <2> QED BY <1>1, <1>4, <1>8, <2>1
<1>10. ASSUME Single(changed), FiledOnce
       PROVE  (valuing.sum + sh[s]) + Total(sh, left2) \in seen
  <2>1. valuing.sum + Total(sh, left) \in seen
    BY <1>1, <1>10 DEF UnderLock, sh
  <2>2. (valuing.sum + sh[s]) + Total(sh, left2) = valuing.sum + Total(sh, left)
    <3> HIDE DEF left, left2
    <3> QED BY <1>4, <1>7
  <2> QED BY <2>1, <2>2
<1>11. UnderLock'
  <2>1. FiledOnce' <=> FiledOnce
    BY <1>2 DEF FiledOnce
  <2> QED BY <1>2, <1>4, <1>5, <1>9, <1>10, <2>1 DEF UnderLock
<1> QED BY <1>1, <1>2, <1>4, <1>5, <1>11 DEF PortfolioInv

LEMMA TwoElements ==
  ASSUME NEW T, IsFiniteSet(T), ~(Cardinality(T) > 1)
  PROVE  Single(T)
<1> SUFFICES ASSUME NEW a \in T, NEW b \in T, a # b
             PROVE  FALSE
  BY DEF Single
<1>1. IsFiniteSet(T \ {a}) /\ Cardinality(T \ {a}) = Cardinality(T) - 1 /\ b \in T \ {a}
  BY FS_RemoveElement
<1>2. Cardinality(T) \in Nat /\ Cardinality(T \ {a}) \in Nat /\ Cardinality(T \ {a}) # 0
  BY <1>1, FS_CardinalityType, FS_EmptySet
<1> QED BY <1>1, <1>2

LEMMA PortfolioCardinality == \A set : Portfolio!Cardinality(set) = Cardinality(set)
BY DEF Portfolio!Cardinality, Cardinality

LEMMA ReturnKeepsPortfolioInv == ASSUME PortfolioInv, Portfolio!Return PROVE PortfolioInv'
<1>1. /\ valuing.locked /\ valuing.left = {} /\ valuing.kind # "none" /\ UnderLock /\ IsFiniteSet(changed)
      /\ valuing.sum \in Int
  BY DEF PortfolioInv, Portfolio!Return
<1>2. /\ verdict' = IF valuing.sum \in seen THEN "true" ELSE IF Portfolio!Excused THEN "excused" ELSE "torn"
      /\ valuing' = [kind |-> "none", sum |-> 0, left |-> {}, locked |-> FALSE]
      /\ changed' = {} /\ UNCHANGED <<balance, shared, live>>
  BY DEF Portfolio!Return, Portfolio!Idle, Portfolio!tables
<1>3. ~Portfolio!Excused => valuing.sum \in seen
  <2> SUFFICES ASSUME ~Portfolio!Excused
               PROVE  valuing.sum \in seen
    OBVIOUS
  <2>1. ~(Cardinality(changed) > 1) /\ \A o \in changed \cap Objects : ~Portfolio!FiledTwice(o)
    BY PortfolioCardinality DEF Portfolio!Excused
  <2>2. Single(changed)
    BY <1>1, <2>1, TwoElements
  <2>3. FiledOnce
    <3> SUFFICES ASSUME NEW o \in changed \cap Objects
                 PROVE  \A s, r \in Symbols : shared[s] = o /\ shared[r] = o => s = r
      BY DEF FiledOnce
    <3> DEFINE F == {s \in Symbols : shared[s] = o}
    <3>1. IsFiniteSet(F) /\ ~(Cardinality(F) > 1)
      BY <2>1, Shapes, FS_Subset, PortfolioCardinality DEF Portfolio!FiledTwice
    <3>2. Single(F)
      BY <3>1, TwoElements
    <3> QED BY <3>2 DEF Single
  <2>4. valuing.sum + Total(SharesNow, {}) \in seen
    BY <1>1, <2>2, <2>3 DEF UnderLock
  <2> QED BY <1>1, <2>4, TotalEmpty
<1>4. verdict' # "torn"
  BY <1>2, <1>3
<1> QED BY <1>2, <1>4, FS_EmptySet DEF PortfolioInv

LEMMA PortfolioIsInvariant == Spec => []PortfolioInv
<1>1. PortfolioInv /\ [Next]_vars => PortfolioInv'
  <2> SUFFICES ASSUME PortfolioInv, [Next]_vars
               PROVE  PortfolioInv'
    OBVIOUS
  <2>1. CASE Portfolio!Next
    <3>1. ASSUME NEW amount \in 0..MaxBalance, Portfolio!SetBalance(amount)
          PROVE  PortfolioInv'
      BY <3>1, Shapes, BalanceKeepsPortfolioInv
    <3>2. ASSUME NEW amount \in -MaxBalance..MaxBalance \ {0}, Portfolio!AdjustBalance(amount)
          PROVE  PortfolioInv'
      BY <3>2, Shapes, BalanceKeepsPortfolioInv
    <3>3. ASSUME NEW batch \in SUBSET Objects, Portfolio!AddPositions(batch) \/ Portfolio!ReplacePositions(batch)
          PROVE  PortfolioInv'
      <4>1. CASE Symbols # {}
        BY <3>3, <4>1, TableKeepsPortfolioInv
      <4>2. CASE Symbols = {}
        <5>1. /\ ~valuing.locked /\ balance' = balance /\ live' = live /\ Portfolio!Observed("positions")
              /\ shared' \in Tables
          BY <3>3, <4>2 DEF Portfolio!AddPositions, Portfolio!ReplacePositions, Portfolio!Unlocked, Tables
        <5> QED BY <5>1, FreeChangeKeepsPortfolioInv DEF PortfolioInv
      <4> QED BY <4>1, <4>2
    <3>4. ASSUME NEW s \in Symbols, Portfolio!RemovePosition(s)
          PROVE  PortfolioInv'
      <4>1. {} \in SUBSET Objects
        OBVIOUS
      <4> QED BY <3>4, <4>1, TableKeepsPortfolioInv
    <3> QED
      BY <2>1, <3>1, <3>2, <3>3, <3>4, HolderKeepsPortfolioInv, ReadKeepsPortfolioInv,
         LockKeepsPortfolioInv, AddKeepsPortfolioInv, ReturnKeepsPortfolioInv DEF Portfolio!Next
  <2>2. CASE UNCHANGED Portfolio!vars
    <3>1. UNCHANGED <<balance, shared, live, valuing, seen, changed, verdict>>
      BY <2>2 DEF Portfolio!vars, Portfolio!tables
    <3>2. SharesNow' = SharesNow /\ Filed' = Filed
      BY <3>1 DEF SharesNow, Filed, Portfolio!Shares, Portfolio!Tracked
    <3>3. (UnderLock' <=> UnderLock) /\ (BeforeLock' <=> BeforeLock)
      BY <3>1, <3>2 DEF UnderLock, BeforeLock, FiledOnce
    <3> QED BY <3>1, <3>2, <3>3 DEF PortfolioInv
  <2> QED BY <2>1, <2>2, PortfolioMoves
<1> QED BY <1>1, PortfolioStarts, PTL DEF Spec

\* A valuation was true at some instant of the call unless two things changed during it, or
\* an object that is filed twice.
THEOREM AlwaysTornOnlyByTwoChanges == Spec => []TornOnlyByTwoChanges
<1>1. PortfolioInv => TornOnlyByTwoChanges
  BY DEF PortfolioInv, TornOnlyByTwoChanges, Portfolio!TornOnlyByTwoChanges
<1> QED BY <1>1, PortfolioIsInvariant, PTL

-----------------------------------------------------------------------------
(***************************************************************************)
(* The loops of backtesting.                                               *)
(***************************************************************************)
LEMMA Quotient ==
  ASSUME NEW b \in Nat \ {0}, NEW q \in Int, NEW r \in 0..(b - 1)
  PROVE  (q * b + r) \div b = q /\ (q * b + r) % b = r
OBVIOUS

LEMMA Cancel ==
  ASSUME NEW x \in Int, NEW y \in Int, NEW u \in Nat \ {0}
  PROVE  (x * u <= y * u <=> x <= y) /\ (x * u < y * u <=> x < y)
OBVIOUS

LEMMA Distribute ==
  ASSUME NEW x \in Int, NEW u \in Int
  PROVE  (x + 1) * u = x * u + u /\ (x - 1) * u = x * u - u /\ x * u \in Int
OBVIOUS

LEMMA Multiply ==
  ASSUME NEW x \in Nat, NEW u \in Nat
  PROVE  x * u \in Nat
OBVIOUS

LEMMA Rates == Replays!RatesAssumption
BY PartsAssumption

LEMMA ShareType == ASSUME NEW total \in Nat, NEW t \in 1..10 PROVE Replays!Share(total, t) \in Nat \ {0}
<1>1. total * t \in Nat
  BY Multiply
<1>2. (total * t) \div 10 \in Nat
  BY <1>1, Division
<1> QED BY <1>2 DEF Replays!Share, Replays!Larger

LEMMA WalkStarts ==
  ASSUME NEW total \in 0..MaxData, NEW train, NEW test, NEW step, Replays!StartWalk(total, train, test, step)
  PROVE  JobInv'
<1>1. CASE ~ Replays!WalkValid(train, test, step)
  BY <1>1 DEF Replays!StartWalk, JobInv, Refused
<1>2. CASE Replays!WalkValid(train, test, step)
  <2> DEFINE a == Replays!Share(total, train)
             b == Replays!Share(total, test)
             c == Replays!Share(total, step)
             s == IF total = 0 THEN "done" ELSE "running"
  <2>1. total \in Nat /\ total <= MaxData /\ {train, test, step} \subseteq 1..10
    BY <1>2, Rates DEF Replays!WalkValid, Replays!RatesAssumption
  <2>2. a \in Nat \ {0} /\ b \in Nat \ {0} /\ c \in Nat \ {0}
    BY <2>1, ShareType
  <2>3. job' = [kind |-> "windows", step |-> s, total |-> total, train |-> a, test |-> b, stride |-> c,
                start |-> 0, windows |-> <<>>]
    BY <1>2 DEF Replays!StartWalk
  <2>4. s \in {"running", "done"} /\ (s = "done" => total = 0)
    OBVIOUS
  <2> HIDE DEF a, b, c, s
  <2>5. job' \in Walks
    BY <2>1, <2>2, <2>3, <2>4 DEF Walks
  <2>6. Len(job'.windows) * job'.stride = 0 /\ job'.start = 0 /\ DOMAIN job'.windows = {}
    BY <2>2, <2>3
  <2>7. job'.step = "done" => ~ Replays!Fits(job')
    BY <2>2, <2>3, <2>4 DEF Replays!Fits
  <2>8. Walked(job')
    BY <2>1, <2>3, <2>5, <2>6, <2>7 DEF Walked
  <2> QED BY <2>8 DEF JobInv
<1> QED BY <1>1, <1>2

LEMMA Advance == ASSUME JobInv, Replays!NextWindow PROVE JobInv'
<1> DEFINE n == Len(job.windows)
           w == [train_start |-> job.start, test_start |-> job.start + job.train,
                 test_end |-> job.start + job.train + job.test]
<1>1. Walked(job) /\ job.step = "running"
  BY DEF JobInv, Replays!NextWindow, Replays!Idle, Faithful, SignalRuns, Drawn, Bootstraps, Searched, Searches, Refused
<1>2. job \in Walks /\ n \in Nat /\ job.windows \in Seq([train_start : Nat, test_start : Nat, test_end : Nat])
  BY <1>1 DEF Walked, Walks
<1>3. CASE Replays!Fits(job)
  <2>1. job' = [job EXCEPT !.windows = Append(@, w), !.start = @ + job.stride]
    BY <1>3 DEF Replays!NextWindow
  <2>2. w \in [train_start : Nat, test_start : Nat, test_end : Nat] /\ job.start + job.stride \in Nat
    BY <1>2 DEF Walks
  <2>3. /\ Append(job.windows, w) \in Seq([train_start : Nat, test_start : Nat, test_end : Nat])
        /\ Len(Append(job.windows, w)) = n + 1
        /\ \A i \in 1..(n + 1) : Append(job.windows, w)[i] = IF i = n + 1 THEN w ELSE job.windows[i]
    BY <1>2, <2>2
  <2>4. w = Window(job, n + 1)
    <3>1. job.start = n * job.stride /\ (n + 1) - 1 = n
      BY <1>1, <1>2 DEF Walked
    <3> QED BY <3>1 DEF Window
  <2>5. w.test_end <= job.total
    BY <1>3 DEF Replays!Fits
  <2>6. n * job.stride + job.stride = (n + 1) * job.stride
    BY <1>2, Distribute DEF Walks
  <2> DEFINE more == Append(job.windows, w)
  <2> HIDE DEF w, n, more
  <2>7. /\ job' \in Walks /\ job'.windows = more /\ job'.start = job.start + job.stride
        /\ job'.stride = job.stride /\ job'.train = job.train /\ job'.test = job.test
        /\ job'.total = job.total /\ job'.step = "running"
    <3>1. job' = [job EXCEPT !.windows = more, !.start = @ + job.stride]
      BY <2>1 DEF more
    <3>2. more \in Seq([train_start : Nat, test_start : Nat, test_end : Nat])
      BY <2>3 DEF more
    <3> QED BY <1>1, <1>2, <2>2, <3>1, <3>2 DEF Walks
  <2>8. \A i \in DOMAIN more : more[i] = Window(job', i) /\ more[i].test_end <= job'.total
    <3>0. DOMAIN more = 1..(n + 1) /\ \A i : Window(job', i) = Window(job, i)
      BY <1>2, <2>3, <2>7 DEF Window, more, n
    <3> SUFFICES ASSUME NEW i \in 1..(n + 1)
                 PROVE  more[i] = Window(job, i) /\ more[i].test_end <= job.total
      BY <2>7, <3>0
    <3>1. CASE i = n + 1
      BY <2>3, <2>4, <2>5, <3>1 DEF more
    <3>2. CASE i # n + 1
      <4>1. i \in DOMAIN job.windows
        BY <1>2, <3>2 DEF n
      <4> QED BY <1>1, <2>3, <3>2, <4>1 DEF Walked, more
    <3> QED BY <3>1, <3>2
  <2>9. Walked(job')
    BY <1>1, <2>3, <2>6, <2>7, <2>8 DEF Walked, more, n
  <2> QED BY <2>9 DEF JobInv
<1>4. CASE ~ Replays!Fits(job)
  <2>1. job' = [job EXCEPT !.step = "done"]
    BY <1>4 DEF Replays!NextWindow
  <2>2. Walked(job')
    BY <1>1, <1>2, <1>4, <2>1 DEF Walked, Walks, Window, Replays!Fits
  <2> QED BY <2>2 DEF JobInv
<1> QED BY <1>3, <1>4

LEMMA WindowFields ==
  ASSUME NEW walk, NEW i
  PROVE  /\ Window(walk, i).train_start = (i - 1) * walk.stride
         /\ Window(walk, i).test_start = (i - 1) * walk.stride + walk.train
         /\ Window(walk, i).test_end = (i - 1) * walk.stride + walk.train + walk.test
BY DEF Window

\* The multiples of the stride that leave room for a window are those of the walk.
LEMMA WindowsComplete == ASSUME JobInv PROVE Replays!WindowsAreComplete
<1> SUFFICES ASSUME Replays!Ended("windows")
             PROVE  /\ \A i \in DOMAIN job.windows : job.windows[i].train_start = (i - 1) * job.stride
                    /\ {w.train_start : w \in Replays!Range(job.windows)} =
                         {n \in 0..job.total : n % job.stride = 0 /\ n + job.train + job.test <= job.total}
                    /\ job.stride <= job.test =>
                         \A i \in 1..(Len(job.windows) - 1) : job.windows[i + 1].test_start <= job.windows[i].test_end
  BY DEF Replays!WindowsAreComplete
<1> DEFINE c == job.stride
           last == Len(job.windows)
<1>1. Walked(job) /\ job.step = "done"
  BY DEF Replays!Ended, JobInv, Replays!Idle, Faithful, SignalRuns, Drawn, Bootstraps, Searched, Searches, Refused
<1>2. /\ job \in Walks /\ c \in Nat \ {0} /\ last \in Nat /\ DOMAIN job.windows = 1..last
      /\ job.train \in Nat \ {0} /\ job.test \in Nat \ {0} /\ job.total \in Nat
  BY <1>1 DEF Walked, Walks
<1>3. \A i \in 1..last : /\ job.windows[i] = Window(job, i)
                         /\ job.windows[i].test_end <= job.total
  BY <1>1, <1>2 DEF Walked
<1>4. last * c + job.train + job.test > job.total
  BY <1>1, <1>2 DEF Walked, Replays!Fits
<1>5. \A i \in DOMAIN job.windows : job.windows[i].train_start = (i - 1) * c
  <2> TAKE i \in DOMAIN job.windows
  <2>1. job.windows[i] = Window(job, i)
    BY <1>2, <1>3
  <2> QED BY <2>1, WindowFields
<1>6. ASSUME NEW i \in 1..last
      PROVE  job.windows[i].train_start \in {n \in 0..job.total : n % c = 0 /\ n + job.train + job.test <= job.total}
  <2> DEFINE n == (i - 1) * c
  <2>1. i - 1 \in Nat
    OBVIOUS
  <2>2. n \in Nat
    BY <1>2, <2>1, Multiply
  <2>3. n % c = 0
    <3>1. n = (i - 1) * c + 0 /\ 0 \in 0..(c - 1) /\ i - 1 \in Int
      BY <1>2, <2>2
    <3> HIDE DEF n, c
    <3> QED BY <1>2, <3>1, Quotient
  <2>4. job.windows[i].train_start = n /\ job.windows[i].test_end = n + job.train + job.test
    <3>1. job.windows[i] = Window(job, i)
      BY <1>3
    <3> QED BY <3>1, WindowFields
  <2> HIDE DEF n
  <2>5. n + job.train + job.test <= job.total
    BY <1>3, <2>4
  <2> QED BY <1>2, <2>2, <2>3, <2>4, <2>5
<1>7. ASSUME NEW n \in 0..job.total, n % c = 0, n + job.train + job.test <= job.total
      PROVE  \E i \in 1..last : job.windows[i].train_start = n
  <2> DEFINE k == n \div c
  <2>1. n \in Nat /\ k \in Nat /\ n = k * c
    <3>1. n \in Nat
      BY <1>2
    <3>2. k \in Nat /\ n = k * c + (n % c)
      BY <1>2, <3>1, Division
    <3>3. k * c \in Nat
      BY <1>2, <3>2, Multiply
    <3> QED BY <1>7, <3>1, <3>2, <3>3
  <2> HIDE DEF k
  <2>2. k * c < last * c
    <3>1. last * c \in Nat
      BY <1>2, Multiply
    <3>2. n < last * c
      <4> DEFINE full == last * c
      <4>1. full \in Nat /\ full + job.train + job.test > job.total
        BY <1>4, <3>1
      <4> HIDE DEF full
      <4>2. n < full
        BY <1>2, <1>7, <4>1
      <4> QED BY <4>2 DEF full
    <3> QED BY <2>1, <3>2
  <2>3. k < last
    BY <1>2, <2>1, <2>2, Cancel
  <2>4. k + 1 \in 1..last /\ (k + 1) - 1 = k
    BY <1>2, <2>1, <2>3
  <2> QED BY <1>2, <1>5, <2>1, <2>4
<1>8. {w.train_start : w \in Replays!Range(job.windows)} =
        {n \in 0..job.total : n % c = 0 /\ n + job.train + job.test <= job.total}
  <2>1. {w.train_start : w \in Replays!Range(job.windows)} = {job.windows[i].train_start : i \in 1..last}
    BY <1>2 DEF Replays!Range
  <2> HIDE DEF c, last
  <2> QED BY <1>6, <1>7, <2>1
<1>9. ASSUME c <= job.test, NEW i \in 1..(last - 1)
      PROVE  job.windows[i + 1].test_start <= job.windows[i].test_end
  <2>1. i \in 1..last /\ i + 1 \in 1..last /\ (i + 1) - 1 = i
    BY <1>2
  <2>2. i * c = (i - 1) * c + c
    <3>1. (i - 1) * c = i * c - c /\ i * c \in Int
      BY <1>2, <2>1, Distribute
    <3> QED BY <1>2, <3>1
  <2>3. /\ job.windows[i + 1].test_start = i * c + job.train
        /\ job.windows[i].test_end = (i - 1) * c + job.train + job.test
    <3>1. job.windows[i] = Window(job, i) /\ job.windows[i + 1] = Window(job, i + 1)
      BY <1>3, <2>1
    <3>2. job.windows[i + 1].test_start = ((i + 1) - 1) * c + job.train
      BY <3>1, WindowFields
    <3> QED BY <2>1, <3>1, <3>2, WindowFields
  <2>4. (i - 1) * c \in Nat
    BY <1>2, Multiply
  <2> DEFINE m == (i - 1) * c
             d == i * c
  <2>5. d = m + c /\ m \in Nat
    BY <2>2, <2>4
  <2> HIDE DEF m, d
  <2>6. d + job.train <= m + job.train + job.test
    BY <1>2, <1>9, <2>5
  <2> QED BY <2>3, <2>6 DEF m, d
<1> QED BY <1>2, <1>5, <1>8, <1>9

-----------------------------------------------------------------------------
LEMMA SearchStarts ==
  ASSUME NEW a \in 0..MaxValues, NEW b \in 0..MaxValues, Replays!StartSearch(<<a, b>>)
  PROVE  JobInv'
<1>1. a \in Nat /\ b \in Nat
  BY Rates DEF Replays!RatesAssumption
<1>2. CASE 0 \in {a, b}
  <2>1. job'.step = "raised" /\ job'.kind = "search"
    BY <1>2 DEF Replays!StartSearch
  <2> QED BY <2>1 DEF JobInv, Refused
<1>3. CASE 0 \notin {a, b}
  <2>1. job' = [kind |-> "search", step |-> "running", sizes |-> <<a, b>>, scores |-> <<>>, best |-> <<>>, top |-> Bad]
    BY <1>3 DEF Replays!StartSearch
  <2>2. a * b \in Nat
    BY <1>1, Multiply
  <2>3. job' \in Searches
    BY <1>1, <1>3, <2>1 DEF Searches
  <2>4. job'.sizes[1] * job'.sizes[2] = a * b /\ Len(job'.scores) = 0 /\ job'.scores = <<>> /\ job'.top = Bad
        /\ job'.step = "running"
    BY <2>1
  <2>5. Searched(job')
    BY <2>2, <2>3, <2>4 DEF Searched
  <2> QED BY <2>5 DEF JobInv
<1> QED BY <1>2, <1>3

LEMMA CombinationType ==
  ASSUME NEW sizes \in (Nat \ {0}) \X (Nat \ {0}), NEW k \in Nat \ {0}
  PROVE  Replays!Combination(sizes, k) \in Nat \X Nat
<1>1. k - 1 \in Nat /\ sizes[2] \in Nat \ {0}
  OBVIOUS
<1>2. (k - 1) \div sizes[2] \in Nat /\ (k - 1) % sizes[2] \in Nat
  <2> DEFINE a == k - 1
             b == sizes[2]
  <2>1. a \in Nat /\ b \in Nat \ {0}
    BY <1>1
  <2> HIDE DEF a, b
  <2>2. a \div b \in Nat /\ a % b \in Nat
    <3>1. a \div b \in Nat /\ (a % b) \in 0..(b - 1)
      BY <2>1, Division, Zenon
    <3>2. \A r \in 0..(b - 1) : r \in Nat
      BY <2>1
    <3> QED BY <3>1, <3>2, Zenon
  <2> QED BY <2>2 DEF a, b
<1> QED BY <1>2 DEF Replays!Combination

LEMMA Score ==
  ASSUME JobInv, Replays!NextCombination
  PROVE  JobInv'
<1> DEFINE n == Len(job.scores)
           total == job.sizes[1] * job.sizes[2]
<1>1. Searched(job) /\ job.step = "running"
  <2>1. job.kind = "search" /\ job.step = "running"
    BY DEF Replays!NextCombination
  <2> QED BY <2>1 DEF JobInv, Replays!Idle, Faithful, SignalRuns, Drawn, Bootstraps, Walked, Walks, Refused
<1>2. /\ job \in Searches /\ n \in Nat /\ job.scores \in Seq(Scores) /\ DOMAIN job.scores = 1..n
      /\ n <= total /\ job.sizes \in (Nat \ {0}) \X (Nat \ {0})
  BY <1>1 DEF Searched, Searches
<1>3. total \in Nat
  BY <1>2, Multiply
<1>4. CASE n = total
  <2>1. job' = [job EXCEPT !.step = "done"]
    BY <1>4 DEF Replays!NextCombination
  <2>2. /\ job' \in Searches /\ job'.scores = job.scores /\ job'.sizes = job.sizes /\ job'.top = job.top
        /\ job'.best = job.best
    BY <1>2, <2>1 DEF Searches
  <2>3. Searched(job')
    BY <1>1, <1>2, <1>4, <2>2 DEF Searched, First
  <2> QED BY <2>3 DEF JobInv
<1>5. CASE n # total
  <2>1. PICK score \in Scores \cup {Bad} :
          job' = IF score = Bad THEN [job EXCEPT !.step = "raised", !.best = <<>>, !.top = Bad]
                 ELSE IF Replays!Beats(score, job.top)
                 THEN [job EXCEPT !.scores = Append(@, score), !.top = score,
                                  !.best = Replays!Combination(job.sizes, n + 1)]
                 ELSE [job EXCEPT !.scores = Append(@, score)]
    BY <1>5 DEF Replays!NextCombination
  <2>2. CASE score = Bad
    <3>1. job' = [job EXCEPT !.step = "raised", !.best = <<>>, !.top = Bad]
      BY <2>1, <2>2
    <3>2. job'.step = "raised" /\ job'.kind = "search"
      BY <1>2, <3>1 DEF Searches
    <3> QED BY <3>2 DEF JobInv, Refused
  <2>3. CASE score # Bad
    <3> DEFINE more == Append(job.scores, score)
               k1 == n + 1
    <3>1. score \in Scores /\ Bad \notin Scores /\ Scores \subseteq Int
      BY <2>3, Rates DEF Replays!RatesAssumption
    <3>2. /\ more \in Seq(Scores) /\ Len(more) = n + 1 /\ DOMAIN more = 1..(n + 1) /\ more # <<>>
          /\ more[n + 1] = score /\ \A i \in 1..n : more[i] = job.scores[i]
      BY <1>2, <3>1
    <3>3. n + 1 <= total
      BY <1>2, <1>3, <1>5
    <3>4. Replays!Combination(job.sizes, n + 1) \in Nat \X Nat
      BY <1>2, CombinationType
    <3>5. CASE Replays!Beats(score, job.top)
      <4>1. job' = [job EXCEPT !.scores = more, !.top = score, !.best = Replays!Combination(job.sizes, n + 1)]
        BY <2>1, <2>3, <3>5
      <4> HIDE DEF n, total, more
      <4>2. /\ job' \in Searches /\ job'.scores = more /\ job'.sizes = job.sizes /\ job'.top = score
            /\ job'.best = Replays!Combination(job.sizes, n + 1) /\ job'.step = "running"
        BY <1>1, <1>2, <3>1, <3>2, <3>4, <4>1 DEF Searches
      <4>3. \A l \in 1..n : job.scores[l] < score
        <5> SUFFICES ASSUME NEW l \in 1..n
                     PROVE  job.scores[l] < score
          OBVIOUS
        <5>1. job.scores # <<>>
          BY <1>2 DEF n
        <5>2. PICK k \in DOMAIN job.scores : First(job, k)
          BY <1>1, <5>1 DEF Searched
        <5>3. job.top = job.scores[k] /\ job.scores[l] <= job.scores[k] /\ job.scores[k] \in Scores
          BY <1>2, <5>2 DEF First
        <5>4. score > job.top
          BY <3>1, <3>5, <5>3 DEF Replays!Beats
        <5>5. job.scores[l] \in Scores
          BY <1>2
        <5>6. job.scores[l] \in Int /\ job.scores[k] \in Int /\ score \in Int
          BY <3>1, <5>3, <5>5
        <5> QED BY <3>1, <5>3, <5>4, <5>6
      <4>4. First(job', n + 1)
        <5>1. ASSUME NEW l \in 1..(n + 1)
              PROVE  more[l] <= score
          <6>1. CASE l = n + 1
            <7>1. more[l] = score /\ score \in Int
              BY <3>1, <3>2, <6>1
            <7> QED BY <7>1
          <6>2. CASE l # n + 1
            <7>1. l \in 1..n
              BY <1>2, <6>2
            <7>2. more[l] = job.scores[l] /\ job.scores[l] < score /\ job.scores[l] \in Scores
              BY <1>2, <3>2, <4>3, <6>2, <7>1
            <7>3. job.scores[l] \in Int /\ score \in Int
              BY <3>1, <7>2
            <7> QED BY <7>2, <7>3
          <6> QED BY <6>1, <6>2
        <5>2. ASSUME NEW l \in 1..((n + 1) - 1)
              PROVE  more[l] < score
          <6>1. l \in 1..n /\ l # n + 1 /\ l \in 1..(n + 1)
            BY <1>2
          <6> QED BY <3>2, <4>3, <6>1
        <5> QED BY <3>2, <4>2, <5>1, <5>2 DEF First
      <4>5. Searched(job')
        BY <1>2, <3>2, <3>3, <4>2, <4>4 DEF Searched, total
      <4> QED BY <4>5 DEF JobInv
    <3>6. CASE ~ Replays!Beats(score, job.top)
      <4>1. job' = [job EXCEPT !.scores = more]
        BY <2>1, <2>3, <3>6
      <4>2. job.top # Bad /\ job.scores # <<>>
        BY <1>1, <3>6 DEF Replays!Beats, Searched
      <4> HIDE DEF n, total, more
      <4>3. /\ job' \in Searches /\ job'.scores = more /\ job'.sizes = job.sizes /\ job'.top = job.top
            /\ job'.best = job.best /\ job'.step = "running"
        BY <1>1, <1>2, <3>2, <4>1 DEF Searches
      <4>4. PICK k \in DOMAIN job.scores : First(job, k)
        BY <1>1, <4>2 DEF Searched
      <4>5. k \in 1..n /\ job.scores[k] \in Scores /\ job.top = job.scores[k] /\ more[k] = job.scores[k]
        BY <1>2, <3>2, <4>4 DEF First
      <4>6. score <= job.scores[k]
        BY <3>1, <3>6, <4>2, <4>5 DEF Replays!Beats
      <4>7. First(job', k)
        <5>1. \A l \in 1..(n + 1) : more[l] <= more[k]
          <6> SUFFICES ASSUME NEW l \in 1..(n + 1)
                       PROVE  more[l] <= more[k]
            OBVIOUS
          <6>1. CASE l = n + 1
            BY <3>2, <4>5, <4>6, <6>1
          <6>2. CASE l # n + 1
            <7>1. l \in 1..n
              BY <1>2, <6>2
            <7> QED BY <1>2, <3>2, <4>4, <4>5, <7>1 DEF First
          <6> QED BY <6>1, <6>2
        <5>2. \A l \in 1..(k - 1) : more[l] < more[k]
          <6> SUFFICES ASSUME NEW l \in 1..(k - 1)
                       PROVE  more[l] < more[k]
            OBVIOUS
          <6>1. l \in 1..n
            BY <1>2, <4>5
          <6> QED BY <3>2, <4>4, <4>5, <6>1 DEF First
        <5> QED BY <3>2, <4>3, <4>4, <4>5, <5>1, <5>2 DEF First
      <4>8. k \in DOMAIN more
        BY <1>2, <3>2, <4>5
      <4>9. Searched(job')
        BY <1>2, <3>2, <3>3, <4>3, <4>7, <4>8 DEF Searched, total
      <4> QED BY <4>9 DEF JobInv
    <3> QED BY <3>5, <3>6
  <2> QED BY <2>2, <2>3
<1> QED BY <1>4, <1>5

LEMMA SearchComplete == ASSUME JobInv PROVE Replays!SearchFindsTheFirstBest
<1> SUFFICES ASSUME Replays!Ended("search")
             PROVE  /\ Len(job.scores) = job.sizes[1] * job.sizes[2]
                    /\ {Replays!Combination(job.sizes, k) : k \in DOMAIN job.scores}
                         = (1..job.sizes[1]) \X (1..job.sizes[2])
                    /\ \E k \in DOMAIN job.scores :
                         /\ job.best = Replays!Combination(job.sizes, k)
                         /\ \A l \in DOMAIN job.scores : job.scores[l] <= job.scores[k]
                         /\ \A l \in 1..(k - 1) : job.scores[l] < job.scores[k]
  BY DEF Replays!SearchFindsTheFirstBest
<1> DEFINE a == job.sizes[1]
           b == job.sizes[2]
           n == Len(job.scores)
<1>1. Searched(job) /\ job.step = "done"
  BY DEF Replays!Ended, JobInv, Replays!Idle, Faithful, SignalRuns, Drawn, Bootstraps, Walked, Walks, Refused
<1>2. /\ a \in Nat \ {0} /\ b \in Nat \ {0} /\ job.scores \in Seq(Scores) /\ n \in Nat /\ DOMAIN job.scores = 1..n
      /\ n = a * b
  BY <1>1 DEF Searched, Searches
<1> HIDE DEF a, b, n
<1>3. ASSUME NEW k \in 1..n
      PROVE  Replays!Combination(job.sizes, k) \in (1..a) \X (1..b)
  <2> DEFINE q == (k - 1) \div b
             r == (k - 1) % b
  <2>1. k - 1 \in Nat
    BY <1>2
  <2>2. q \in Nat /\ r \in 0..(b - 1) /\ k - 1 = q * b + r
    BY <1>2, <2>1, Division
  <2>3. q * b < a * b
    <3> HIDE DEF q, r
    <3>1. q * b \in Nat
      BY <1>2, <2>2, Multiply
    <3>2. k - 1 < n
      BY <1>2
    <3> QED BY <1>2, <2>2, <3>1, <3>2
  <2>4. Replays!Combination(job.sizes, k) = <<1 + q, 1 + r>>
    BY DEF Replays!Combination, b
  <2> HIDE DEF q, r
  <2>5. q < a
    BY <1>2, <2>2, <2>3, Cancel
  <2>6. 1 + q \in 1..a /\ 1 + r \in 1..b
    BY <1>2, <2>2, <2>5
  <2> QED BY <2>4, <2>6
<1>4. ASSUME NEW p \in 1..a, NEW v \in 1..b
      PROVE  \E k \in 1..n : Replays!Combination(job.sizes, k) = <<p, v>>
  <2>1. PICK x \in Nat, y \in 0..(b - 1) : x = p - 1 /\ y = v - 1
    BY <1>2
  <2>2. x * b \in Nat /\ x <= a - 1 /\ a - 1 \in Int
    BY <1>2, <2>1, Multiply
  <2> DEFINE m == x * b
             k == m + v
  <2>3. k - 1 = x * b + y
    BY <1>2, <2>1, <2>2
  <2>4. (k - 1) \div b = x /\ (k - 1) % b = y
    <3>1. (x * b + y) \div b = x /\ (x * b + y) % b = y
      <4>1. x \in Int
        BY <2>1
      <4> QED BY <1>2, <2>1, <4>1, Quotient, Zenon
    <3> HIDE DEF k
    <3> QED BY <2>3, <3>1, Zenon
  <2>5. k \in 1..n
    <3>1. m <= (a - 1) * b
      BY <1>2, <2>2, Cancel
    <3>2. (a - 1) * b = a * b - b /\ a * b \in Int
      BY <1>2, Distribute
    <3>3. m <= n - b
      BY <1>2, <3>1, <3>2
    <3> HIDE DEF m
    <3> QED BY <1>2, <2>2, <3>3 DEF m
  <2>6. Replays!Combination(job.sizes, k) = <<1 + x, 1 + y>>
    BY <2>4 DEF Replays!Combination, b
  <2> HIDE DEF k
  <2>7. 1 + x = p /\ 1 + y = v
    BY <1>2, <2>1
  <2> QED BY <2>5, <2>6, <2>7
<1>5. {Replays!Combination(job.sizes, k) : k \in DOMAIN job.scores} = (1..a) \X (1..b)
  <2> DEFINE C == {Replays!Combination(job.sizes, k) : k \in DOMAIN job.scores}
  <2>1. C \subseteq (1..a) \X (1..b)
    BY <1>2, <1>3
  <2>2. ASSUME NEW z \in (1..a) \X (1..b)
        PROVE  z \in C
    <3>1. PICK p \in 1..a, v \in 1..b : z = <<p, v>>
      OBVIOUS
    <3> QED BY <1>2, <1>4, <3>1
  <2> HIDE DEF C
  <2>3. C = (1..a) \X (1..b)
    BY <2>1, <2>2
  <2> QED BY <2>3 DEF C
<1>6. n >= 1 /\ job.scores # <<>>
  <2>1. 1 * b <= a * b /\ 1 * b = b
    BY <1>2
  <2> QED BY <1>2, <2>1
<1>7. PICK k \in DOMAIN job.scores : First(job, k)
  BY <1>1, <1>6 DEF Searched
<1> QED BY <1>2, <1>5, <1>7 DEF First, a, b, n

-----------------------------------------------------------------------------
\* Rounding is off by half a unit at most.
Within(e, w) == 0 - w <= 2 * e /\ 2 * e <= w

LEMMA RoundedNear ==
  ASSUME NEW n \in Int, NEW u \in Nat \ {0}
  PROVE  /\ Replays!Rounded(n, u) \in Int /\ (n >= 0 => Replays!Rounded(n, u) >= 0)
         /\ Within(Replays!Rounded(n, u) * u - n, u)
<1> DEFINE m == Replays!Magnitude(n)
           q == m \div u
           r == m % u
           z == IF 2 * r > u \/ (2 * r = u /\ q % 2 = 1) THEN q + 1 ELSE q
<1>1. m \in Nat /\ m = IF n < 0 THEN 0 - n ELSE n
  BY DEF Replays!Magnitude
<1>2. q \in Nat /\ r \in 0..(u - 1) /\ m = q * u + r
  <2> HIDE DEF m
  <2> QED BY <1>1, Division
<1>3. Replays!Rounded(n, u) = IF n < 0 THEN 0 - z ELSE z
  BY DEF Replays!Rounded
<1> HIDE DEF m, q, r
<1>4. q * u \in Nat /\ (q + 1) * u = q * u + u
  BY <1>2, Multiply, Distribute
<1> DEFINE base == q * u
<1>5. z \in Nat /\ z * u \in Nat /\ Within(z * u - m, u)
  <2>1. CASE z = q + 1 /\ 2 * r >= u
    <3>1. z * u = base + u /\ m = base + r /\ base \in Nat
      BY <1>2, <1>4, <2>1
    <3> HIDE DEF base, z
    <3> QED BY <1>2, <2>1, <3>1 DEF Within
  <2>2. CASE z = q /\ 2 * r <= u
    <3>1. z * u = base /\ m = base + r /\ base \in Nat
      BY <1>2, <1>4, <2>2
    <3> HIDE DEF base, z
    <3> QED BY <1>2, <2>2, <3>1 DEF Within
  <2>3. (z = q + 1 /\ 2 * r >= u) \/ (z = q /\ 2 * r <= u)
    <3> HIDE DEF base
    <3>1. CASE 2 * r > u
      BY <1>2, <3>1
    <3>2. CASE 2 * r = u
      BY <1>2, <3>2
    <3>3. CASE 2 * r < u
      BY <1>2, <3>3
    <3> QED BY <1>2, <3>1, <3>2, <3>3
  <2> QED BY <2>1, <2>2, <2>3
<1> HIDE DEF z
<1>6. CASE n < 0
  <2>1. Replays!Rounded(n, u) = 0 - z /\ m = 0 - n
    BY <1>1, <1>3, <1>6
  <2>2. (0 - z) * u = 0 - z * u
    BY <1>5
  <2> DEFINE y == z * u
  <2>3. y \in Nat /\ Within(y - m, u) /\ (0 - z) * u = 0 - y
    BY <1>5, <2>2
  <2> HIDE DEF y
  <2>4. Within((0 - y) - n, u)
    BY <1>1, <2>1, <2>3 DEF Within
  <2> QED BY <1>5, <1>6, <2>1, <2>3, <2>4
<1>7. CASE ~(n < 0)
  BY <1>1, <1>3, <1>5, <1>7
<1> QED BY <1>6, <1>7

LEMMA AverageNear ==
  ASSUME NEW c \in Int, NEW n \in Nat, n = 0 => c = 0
  PROVE  /\ Replays!Average(c, n) \in Int /\ (c >= 0 => Replays!Average(c, n) >= 0)
         /\ Within(Replays!Average(c, n) * n - c, n)
<1>1. CASE n = 0
  BY <1>1 DEF Replays!Average, Within
<1>2. CASE n # 0
  <2>1. Replays!Average(c, n) = Replays!Rounded(c, n) /\ n \in Nat \ {0}
    BY <1>2 DEF Replays!Average
  <2> QED BY <2>1, RoundedNear
<1> QED BY <1>1, <1>2

Near(x, c, n) == Within(x * n - Replays!Whole * c, n)

LEMMA WholeType == Replays!Whole \in Nat \ {0}
BY DEF Replays!Whole

LEMMA RateIs ==
  ASSUME NEW n \in Nat, NEW c \in 0..n
  PROVE  /\ Replays!Rate(c, n) \in 0..Replays!Whole /\ Replays!Rate(c, n) \in Int
         /\ n > 0 => Near(Replays!Rate(c, n), c, n)
<1>1. CASE n = 0
  BY <1>1, WholeType DEF Replays!Rate
<1>2. CASE n # 0
  <2> DEFINE x == Replays!Rate(c, n)
             W == Replays!Whole
             part == W * c
             whole == W * n
             y == x * n
  <2>1. n \in Nat \ {0} /\ c \in Nat /\ c <= n /\ W \in Nat \ {0}
    BY <1>2, WholeType
  <2>2. part \in Nat /\ whole \in Nat
    BY <2>1, Multiply
  <2>3. part <= whole
    <3>1. c * W <= n * W
      BY <2>1, Cancel
    <3>2. c * W = W * c /\ n * W = W * n
      BY <2>1
    <3> QED BY <3>1, <3>2
  <2>4. x = Replays!Rounded(part, n)
    BY <1>2 DEF Replays!Rate
  <2> HIDE DEF x, W, part, whole
  <2>5. x \in Int /\ x >= 0 /\ Within(x * n - part, n)
    <3>1. part \in Int /\ part >= 0
      BY <2>2
    <3> QED BY <2>1, <2>4, <3>1, RoundedNear
  <2>6. y \in Int /\ Within(y - part, n)
    BY <2>1, <2>5
  <2>7. x <= W
    <3> SUFFICES ASSUME W + 1 <= x
                 PROVE  FALSE
      BY <2>1, <2>5
    <3>1. (W + 1) * n <= x * n /\ (W + 1) * n = W * n + n
      BY <2>1, <2>5, Cancel, Distribute
    <3>2. whole + n <= y
      BY <3>1 DEF whole
    <3> HIDE DEF y
    <3> QED BY <2>1, <2>2, <2>3, <2>6, <3>2 DEF Within
  <2>8. x \in 0..W
    BY <2>1, <2>5, <2>7
  <2>9. Near(x, c, n)
    BY <2>5 DEF Near, part, W
  <2> QED BY <2>5, <2>8, <2>9 DEF x, W
<1> QED BY <1>1, <1>2

LEMMA WithinTimes ==
  ASSUME NEW e \in Int, NEW w \in Nat, NEW m \in Nat, Within(e, w)
  PROVE  Within(e * m, w * m)
<1>1. (0 - w) * m <= (2 * e) * m /\ (2 * e) * m <= w * m
  BY DEF Within
<1>2. (0 - w) * m = 0 - w * m /\ (2 * e) * m = 2 * (e * m)
  OBVIOUS
<1> QED BY <1>1, <1>2 DEF Within

LEMMA Polynomial ==
  ASSUME NEW r1 \in Int, NEW r2 \in Int, NEW r3 \in Int, NEW cent \in Int, NEW g \in Int, NEW t \in Int,
         NEW cn \in Int, NEW cd \in Int, NEW sn \in Int, NEW sd \in Int
  PROVE  (r1 - r2 - r3) * cent * (cd * sd) - (g * (cd * sd) - t * (cn * sd + sn * cd))
           = (r1 * cent - g) * (cd * sd) - (r2 * (cd * cent) - t * cn) * sd - (r3 * (sd * cent) - t * sn) * cd
OBVIOUS

\* Three roundings, of the gross profit, the commission and the slippage.
LEMMA SimulateNear ==
  ASSUME NEW s \in Replays!Signals
  PROVE  /\ Replays!Simulate(s) \in Int /\ Replays!NetTimes(s) \in Int
         /\ Replays!WithinRounding(Replays!Simulate(s), s)
<1> DEFINE cn == Commission.num
           cd == Commission.den
           sn == Slippage.num
           sd == Slippage.den
           g == Replays!Gross(s)
           t == Replays!Turnover(s)
           r1 == Replays!RoundMoney(g, 1)
           r2 == Replays!RoundMoney(t * cn, cd)
           r3 == Replays!RoundMoney(t * sn, sd)
<1>1. /\ Cent \in Nat \ {0} /\ cd \in Nat \ {0} /\ sd \in Nat \ {0} /\ cn \in Nat /\ sn \in Nat
  BY Rates DEF Replays!RatesAssumption
<1>2. s.entry \in Nat /\ s.exit \in Nat /\ s.quantity \in Nat
  BY Rates DEF Replays!RatesAssumption, Replays!Signals
<1>3. g \in Int /\ t \in Int
  BY <1>2 DEF Replays!Gross, Replays!Turnover
<1>4. Replays!Simulate(s) = r1 - r2 - r3
  BY DEF Replays!Simulate
<1>5. Replays!NetTimes(s) = g * (cd * sd) - t * (cn * sd + sn * cd)
  BY DEF Replays!NetTimes, Replays!Scale
<1> HIDE DEF cn, cd, sn, sd, g, t, r1, r2, r3
<1>6. r1 \in Int /\ Within(r1 * Cent - g, Cent)
  <2>1. r1 = Replays!Rounded(g, Cent)
    BY <1>1 DEF r1, Replays!RoundMoney
  <2> QED BY <1>1, <1>3, <2>1, RoundedNear
<1>7. r2 \in Int /\ Within(r2 * (cd * Cent) - t * cn, cd * Cent) /\ cd * Cent \in Nat
  <2>1. cd * Cent \in Nat \ {0} /\ t * cn \in Int
    BY <1>1, <1>3
  <2> QED BY <2>1, RoundedNear DEF r2, Replays!RoundMoney
<1>8. r3 \in Int /\ Within(r3 * (sd * Cent) - t * sn, sd * Cent) /\ sd * Cent \in Nat
  <2>1. sd * Cent \in Nat \ {0} /\ t * sn \in Int
    BY <1>1, <1>3
  <2> QED BY <2>1, RoundedNear DEF r3, Replays!RoundMoney
<1> DEFINE e1 == r1 * Cent - g
           e2 == r2 * (cd * Cent) - t * cn
           e3 == r3 * (sd * Cent) - t * sn
           scale == cd * sd
           w == Cent * scale
<1>9. e1 \in Int /\ e2 \in Int /\ e3 \in Int /\ scale \in Nat /\ w \in Nat
  <2>1. r1 * Cent \in Int /\ r2 * (cd * Cent) \in Int /\ r3 * (sd * Cent) \in Int /\ t * cn \in Int /\ t * sn \in Int
    BY <1>1, <1>3, <1>6, <1>7, <1>8
  <2>2. scale \in Nat
    BY <1>1, Multiply
  <2>3. w \in Nat
    BY <1>1, <2>2, Multiply
  <2> QED BY <1>3, <2>1, <2>2, <2>3
<1>10. Replays!Simulate(s) * Cent * (cd * sd) - Replays!NetTimes(s) = e1 * scale - e2 * sd - e3 * cd
  BY <1>1, <1>3, <1>4, <1>5, <1>6, <1>7, <1>8, Polynomial
<1>11. (cd * Cent) * sd = w /\ (sd * Cent) * cd = w
  BY <1>1
<1> HIDE DEF e1, e2, e3, scale
<1>12. Within(e1 * scale, w) /\ Within(e2 * sd, w) /\ Within(e3 * cd, w)
  <2>1. Within(e1 * scale, Cent * scale)
    BY <1>1, <1>6, <1>9, WithinTimes DEF e1
  <2>2. Within(e2 * sd, (cd * Cent) * sd)
    BY <1>1, <1>7, <1>9, WithinTimes DEF e2
  <2>3. Within(e3 * cd, (sd * Cent) * cd)
    BY <1>1, <1>8, <1>9, WithinTimes DEF e3
  <2> QED BY <1>11, <2>1, <2>2, <2>3
<1> DEFINE f1 == e1 * scale
           f2 == e2 * sd
           f3 == e3 * cd
<1>13. f1 \in Int /\ f2 \in Int /\ f3 \in Int
  BY <1>1, <1>9
<1> HIDE DEF f1, f2, f3, w
<1>14. 2 * Replays!Magnitude(f1 - f2 - f3) <= 3 * w
  BY <1>9, <1>12, <1>13 DEF Within, Replays!Magnitude, f1, f2, f3
<1>15. 3 * w = 3 * Cent * (cd * sd)
  BY <1>1, <1>9 DEF w, scale
<1>16. Replays!Simulate(s) \in Int /\ Replays!NetTimes(s) \in Int
  BY <1>1, <1>3, <1>4, <1>5, <1>6, <1>7, <1>8
<1>17. Replays!Scale = cd * sd
  BY DEF Replays!Scale, cd, sd
<1>18. 2 * Replays!Magnitude(Replays!Simulate(s) * Cent * (cd * sd) - Replays!NetTimes(s)) <= 3 * Cent * (cd * sd)
  BY <1>10, <1>14, <1>15, Zenon DEF f1, f2, f3
<1> QED BY <1>16, <1>17, <1>18, Zenon DEF Replays!WithinRounding

-----------------------------------------------------------------------------
\* The equity after each result, and the pass over it with its peaks and falls, exist.
LEMMA EquityIs ==
  ASSUME NEW p \in Seq(Int)
  PROVE  /\ Replays!Equity(p) \in [0..Len(p) -> Int] /\ Replays!Equity(p)[0] = 0
         /\ \A i \in 1..Len(p) : Replays!Equity(p)[i] = Replays!Equity(p)[i - 1] + p[i]
<1> DEFINE n == Len(p)
           step == [x \in Nat \X Int |-> IF x[1] \in 1..n THEN x[2] + p[x[1]] ELSE 0]
           Follows(e) == e = [i \in 0..n |-> IF i = 0 THEN 0 ELSE e[i - 1] + p[i]]
           equity == Replays!Equity(p)
<1>1. n \in Nat /\ \A i \in 1..n : p[i] \in Int
  OBVIOUS
<1>2. step \in Steps(Int)
  BY <1>1 DEF Steps
<1>3. \E e : Follows(e)
  <2>1. PICK e \in [0..n -> Int] : e[0] = 0 /\ \A i \in 1..n : e[i] = step[<<i, e[i - 1]>>]
    <3> HIDE DEF step, n
    <3>1. Iterates(n, Int, 0, step) # {}
      BY <1>1, <1>2, Recursion
    <3> QED BY <3>1 DEF Iterates
  <2>2. ASSUME NEW i \in 1..n
        PROVE  e[i] = e[i - 1] + p[i]
    <3>1. i \in Nat /\ i - 1 \in 0..n
      BY <1>1
    <3>2. <<i, e[i - 1]>> \in Nat \X Int
      BY <2>1, <3>1
    <3> QED BY <2>1, <3>2
  <2> HIDE DEF n
  <2>3. e = [i \in 0..n |-> IF i = 0 THEN 0 ELSE e[i - 1] + p[i]]
    BY <2>1, <2>2
  <2> QED BY <2>3
<1>4. equity = CHOOSE e : Follows(e)
  BY DEF Replays!Equity
<1>5. Follows(equity)
  BY <1>3, <1>4
<1> HIDE DEF equity, n
<1>6. equity[0] = 0 /\ \A i \in 1..n : equity[i] = equity[i - 1] + p[i]
  BY <1>1, <1>5
<1> DEFINE P == {i \in 0..n : equity[i] \in Int}
<1>7. 0 \in P /\ \A i \in 1..n : i - 1 \in P => i \in P
  BY <1>1, <1>6
<1> HIDE DEF P
<1>8. 0..n \subseteq P
  BY <1>1, <1>7, UpTo
<1>9. equity \in [0..n -> Int]
  BY <1>5, <1>8 DEF P
<1> QED BY <1>6, <1>9 DEF equity, n

\* The total of a stretch is the difference of the equity at its ends.
LEMMA Stretch ==
  ASSUME NEW p \in Seq(Int), NEW i \in 1..Len(p), NEW j \in 1..Len(p)
  PROVE  Replays!TotalOf(SubSeq(p, i, j)) = IF i <= j THEN Replays!Equity(p)[j] - Replays!Equity(p)[i - 1] ELSE 0
<1> DEFINE q == SubSeq(p, i, j)
           e == Replays!Equity(p)
           f == Replays!Equity(q)
<1>1. q \in Seq(Int) /\ Len(p) \in Nat
  OBVIOUS
<1>2. e \in [0..Len(p) -> Int] /\ \A k \in 1..Len(p) : e[k] = e[k - 1] + p[k]
  BY EquityIs
<1>3. f \in [0..Len(q) -> Int] /\ f[0] = 0 /\ \A k \in 1..Len(q) : f[k] = f[k - 1] + q[k]
  <2> HIDE DEF q
  <2> QED BY <1>1, EquityIs
<1>4. Replays!TotalOf(q) = f[Len(q)]
  BY DEF Replays!TotalOf
<1>5. CASE ~(i <= j)
  <2>1. Len(q) = 0
    BY <1>5
  <2>2. Replays!TotalOf(q) = 0
    <3> HIDE DEF q, f
    <3> QED BY <1>3, <1>4, <2>1
  <2> QED BY <1>5, <2>2
<1>6. CASE i <= j
  <2> DEFINE m == j - i + 1
  <2>1. m \in Nat /\ Len(q) = m /\ \A k \in 1..m : q[k] = p[i + k - 1] /\ i + k - 1 \in 1..Len(p)
    <3>1. m \in Nat /\ Len(q) = m
      BY <1>6
    <3>2. ASSUME NEW k \in 1..m
          PROVE  q[k] = p[i + k - 1] /\ i + k - 1 \in 1..Len(p)
      <4>1. q[k] = p[i + k - 1]
        BY <1>6
      <4>2. i + k - 1 \in 1..Len(p)
        BY <1>6
      <4> QED BY <4>1, <4>2
    <3> QED BY <3>1, <3>2
  <2> DEFINE P == {k \in 0..m : f[k] = e[i - 1 + k] - e[i - 1]}
  <2> HIDE DEF e, f, q, m
  <2>2. 0 \in P
    <3>1. i - 1 + 0 = i - 1 /\ i - 1 \in 0..Len(p) /\ 0 \in 0..m
      BY <1>1, <2>1
    <3>2. e[i - 1] \in Int
      BY <1>2, <3>1
    <3>3. f[0] = e[i - 1] - e[i - 1]
      BY <1>3, <3>2
    <3> QED BY <3>1, <3>3
  <2>3. ASSUME NEW k \in 1..m, k - 1 \in P
        PROVE  k \in P
    <3> DEFINE h == i + k - 1
    <3>1. k - 1 \in 0..m /\ f[k] = f[k - 1] + q[k] /\ f[k - 1] = e[i - 1 + (k - 1)] - e[i - 1]
      BY <1>3, <2>1, <2>3
    <3>2. q[k] = p[h] /\ h \in 1..Len(p)
      BY <2>1
    <3>3. k \in Int /\ k \in 0..m /\ i - 1 \in 0..Len(p)
      BY <1>1, <2>1
    <3>4. i - 1 + (k - 1) = h - 1 /\ i - 1 + k = h
      BY <3>3
    <3> HIDE DEF h
    <3>5. h - 1 \in 0..Len(p) /\ e[h] = e[h - 1] + p[h]
      BY <1>1, <1>2, <3>2
    <3>6. e[h - 1] \in Int /\ e[i - 1] \in Int /\ p[h] \in Int
      <4>1. e[h - 1] \in Int /\ e[i - 1] \in Int
        BY <1>2, <3>3, <3>5
      <4>2. p[h] \in Int
        BY <1>1, <3>2
      <4> QED BY <4>1, <4>2
    <3>7. f[k] = e[h] - e[i - 1]
      <4>1. f[k - 1] = e[h - 1] - e[i - 1]
        BY <3>1, <3>4, Zenon
      <4>2. f[k] = (e[h - 1] - e[i - 1]) + p[h]
        BY <3>1, <3>2, <4>1, Zenon
      <4> HIDE DEF e, f, q, m, P
      <4> QED BY SMTT(30), <3>5, <3>6, <4>2
    <3> QED BY <3>3, <3>4, <3>7
  <2> HIDE DEF P
  <2>4. 0..m \subseteq P
    BY <2>1, <2>2, <2>3, UpTo
  <2>5. m \in 0..m /\ i - 1 + m = j
    BY <1>6, <2>1 DEF m
  <2>6. f[m] = e[i - 1 + m] - e[i - 1]
    BY <2>4, <2>5 DEF P
  <2> QED BY <1>4, <1>6, <2>1, <2>5, <2>6 DEF e, q
<1> QED BY <1>5, <1>6

\* What the pass knows after k results: the highest equity, and the deepest fall from an
\* earlier to a later one.
Highest(e, k, peak) == (\E i \in 0..k : peak = e[i]) /\ \A i \in 0..k : e[i] <= peak
Deepest(e, k, fall) ==
  /\ \E i, j \in 0..k : i <= j /\ fall = e[i] - e[j]
  /\ \A i, j \in 0..k : i <= j => e[i] - e[j] <= fall

LEMMA DeepestNext ==
  ASSUME NEW n \in Nat, NEW e \in [0..n -> Int], NEW k \in 1..n, NEW peak \in Int, NEW fall \in Int,
         Highest(e, k - 1, peak), Deepest(e, k - 1, fall)
  PROVE  /\ Highest(e, k, Replays!Larger(peak, e[k]))
         /\ Deepest(e, k, Replays!Larger(fall, Replays!Larger(peak, e[k]) - e[k]))
<1> DEFINE top == Replays!Larger(peak, e[k])
           low == Replays!Larger(fall, top - e[k])
<1>1. k \in Nat /\ k - 1 \in Nat /\ k \in 0..k /\ k \in 0..n /\ e[k] \in Int
      /\ \A i \in 0..k : (i \in 0..(k - 1) \/ i = k) /\ i \in 0..n /\ e[i] \in Int
  OBVIOUS
<1>2. \A i \in 0..(k - 1) : i \in 0..k
  OBVIOUS
<1>3. top \in Int /\ top >= peak /\ top >= e[k] /\ top \in {peak, e[k]}
  BY <1>1 DEF Replays!Larger
<1> HIDE DEF top
<1>4. low \in Int /\ low >= fall /\ low >= top - e[k] /\ low \in {fall, top - e[k]}
  BY <1>1, <1>3 DEF Replays!Larger
<1> HIDE DEF low
<1>5. Highest(e, k, top)
  BY <1>1, <1>2, <1>3 DEF Highest
<1>6. \E i, j \in 0..k : i <= j /\ low = e[i] - e[j]
  <2>1. CASE low = fall
    BY <1>2, <2>1 DEF Deepest
  <2>2. CASE low = top - e[k]
    <3>1. PICK i \in 0..k : top = e[i]
      BY <1>5 DEF Highest
    <3> QED BY <1>1, <2>2, <3>1
  <2> QED BY <1>4, <2>1, <2>2
<1>7. ASSUME NEW i \in 0..k, NEW j \in 0..k, i <= j
      PROVE  e[i] - e[j] <= low
  <2>1. e[i] \in Int /\ e[j] \in Int
    BY <1>1
  <2>2. CASE j = k
    <3>1. e[i] <= top
      BY <1>5 DEF Highest
    <3> QED BY <1>3, <1>4, <2>1, <2>2, <3>1
  <2>3. CASE j # k
    <3>1. j \in 0..(k - 1) /\ i \in 0..(k - 1)
      BY <1>7, <2>3
    <3>2. e[i] - e[j] <= fall
      BY <1>7, <3>1 DEF Deepest
    <3> QED BY <1>4, <2>1, <3>2
  <2> QED BY <2>2, <2>3
<1>8. Deepest(e, k, low)
  BY <1>6, <1>7 DEF Deepest
<1> QED BY <1>5, <1>8 DEF top, low

LEMMA PassIsRight ==
  ASSUME NEW p \in Seq(Int)
  PROVE  Replays!MaximumDrawdown(p) \in Int /\ Deepest(Replays!Equity(p), Len(p), Replays!MaximumDrawdown(p))
<1> DEFINE n == Len(p)
           e == Replays!Equity(p)
           V == [peak : Int, fall : Int]
           Then(x, i) == [peak |-> Replays!Larger(x.peak, e[i]),
                          fall |-> Replays!Larger(x.fall, Replays!Larger(x.peak, e[i]) - e[i])]
           base == [peak |-> 0, fall |-> 0]
           step == [x \in Nat \X V |-> IF x[1] \in 1..n THEN Then(x[2], x[1]) ELSE base]
           Follows(f) == f = [i \in 0..n |-> IF i = 0 THEN base ELSE Then(f[i - 1], i)]
           pass == CHOOSE f : Follows(f)
<1>1. n \in Nat /\ e \in [0..n -> Int] /\ e[0] = 0
  BY EquityIs
<1>2. \A x \in V, i \in 1..n : Then(x, i) \in V
  <2> HIDE DEF e, n
  <2> QED BY <1>1 DEF Replays!Larger
<1>3. step \in Steps(V)
  <2> HIDE DEF Then, n
  <2> QED BY <1>2 DEF Steps
<1>4. \E f : Follows(f)
  <2>1. PICK f \in [0..n -> V] : f[0] = base /\ \A i \in 1..n : f[i] = step[<<i, f[i - 1]>>]
    <3>0. base \in V
      OBVIOUS
    <3> HIDE DEF step, V, n, base
    <3>1. Iterates(n, V, base, step) # {}
      BY <1>1, <1>3, <3>0, Recursion
    <3> QED BY <3>1 DEF Iterates
  <2> HIDE DEF V, Then, n, base
  <2>2. ASSUME NEW i \in 1..n
        PROVE  f[i] = Then(f[i - 1], i)
    <3>1. i \in Nat /\ i - 1 \in 0..n
      BY <1>1
    <3>2. <<i, f[i - 1]>> \in Nat \X V
      BY <2>1, <3>1
    <3> QED BY <2>1, <3>2
  <2>3. f = [i \in 0..n |-> IF i = 0 THEN base ELSE Then(f[i - 1], i)]
    BY <2>1, <2>2
  <2> QED BY <2>3
<1>5. Follows(pass)
  BY <1>4
<1>6. Replays!MaximumDrawdown(p) = pass[n].fall
  BY DEF Replays!MaximumDrawdown, Replays!DeepestFall
<1> HIDE DEF pass, V, Then, n, e, base
<1>7. pass[0] = base /\ \A i \in 1..n : pass[i] = Then(pass[i - 1], i)
  BY <1>1, <1>5
<1> DEFINE P == {i \in 0..n : pass[i] \in V /\ Highest(e, i, pass[i].peak) /\ Deepest(e, i, pass[i].fall)}
<1>8. 0 \in P
  <2>1. base \in V /\ base.peak = 0 /\ base.fall = 0
    BY DEF base, V
  <2>2. Highest(e, 0, 0) /\ Deepest(e, 0, 0)
    BY <1>1 DEF Highest, Deepest
  <2> QED BY <1>1, <1>7, <2>1, <2>2
<1>9. ASSUME NEW i \in 1..n, i - 1 \in P
      PROVE  i \in P
  <2> DEFINE x == pass[i - 1]
  <2>1. x \in V /\ Highest(e, i - 1, x.peak) /\ Deepest(e, i - 1, x.fall)
    BY <1>9
  <2> HIDE DEF x
  <2>2. x.peak \in Int /\ x.fall \in Int
    BY <2>1 DEF V
  <2>3. pass[i] = Then(x, i)
    BY <1>7 DEF x
  <2>4. Then(x, i) \in V
    BY <1>2, <2>1
  <2>5. /\ Highest(e, i, Replays!Larger(x.peak, e[i]))
        /\ Deepest(e, i, Replays!Larger(x.fall, Replays!Larger(x.peak, e[i]) - e[i]))
    BY <1>1, <2>1, <2>2, DeepestNext
  <2>6. /\ Then(x, i).peak = Replays!Larger(x.peak, e[i])
        /\ Then(x, i).fall = Replays!Larger(x.fall, Replays!Larger(x.peak, e[i]) - e[i])
    BY DEF Then
  <2> HIDE DEF P
  <2>7. i \in 0..n
    BY <1>1
  <2> QED BY <2>3, <2>4, <2>5, <2>6, <2>7 DEF P
<1> HIDE DEF P
<1>10. 0..n \subseteq P
  BY <1>1, <1>8, <1>9, UpTo
<1>11. n \in P
  BY <1>1, <1>10
<1> QED BY <1>6, <1>11 DEF P, V, n, e

LEMMA TotalOfType == ASSUME NEW p \in Seq(Int) PROVE Replays!TotalOf(p) \in Int
<1>1. Len(p) \in Nat /\ Replays!Equity(p) \in [0..Len(p) -> Int]
  BY EquityIs
<1> QED BY <1>1 DEF Replays!TotalOf

LEMMA DrawdownType == ASSUME NEW p \in Seq(Int) PROVE Replays!MaximumDrawdown(p) \in Nat
<1> DEFINE e == Replays!Equity(p)
           d == Replays!MaximumDrawdown(p)
<1>1. Len(p) \in Nat /\ e \in [0..Len(p) -> Int]
  BY EquityIs
<1>2. d \in Int /\ Deepest(e, Len(p), d)
  BY PassIsRight
<1> HIDE DEF e, d
<1>3. 0 \in 0..Len(p) /\ 0 <= 0 /\ e[0] \in Int
  BY <1>1
<1>4. e[0] - e[0] <= d
  <2>1. \A i, j \in 0..Len(p) : i <= j => e[i] - e[j] <= d
    BY <1>2 DEF Deepest
  <2> QED BY <1>3, <2>1
<1>5. d \in Nat
  BY <1>2, <1>3, <1>4
<1> QED BY <1>5 DEF d

\* The pass finds the largest loss over any stretch of the results.
LEMMA DrawdownIsLargestLoss ==
  ASSUME NEW p \in Seq(Int)
  PROVE  Replays!MaximumDrawdown(p) = Replays!LargestLoss(p)
<1> DEFINE n == Len(p)
           e == Replays!Equity(p)
           d == Replays!MaximumDrawdown(p)
           L == {0 - Replays!TotalOf(SubSeq(p, i, j)) : i, j \in DOMAIN p}
           S == {0} \cup L
<1>1. n \in Nat /\ DOMAIN p = 1..n /\ e \in [0..n -> Int]
  BY EquityIs
<1>2. d \in Int /\ Deepest(e, n, d)
  BY PassIsRight
<1>3. \A i, j \in 1..n : Replays!TotalOf(SubSeq(p, i, j)) = IF i <= j THEN e[j] - e[i - 1] ELSE 0
  BY Stretch
<1>4. \A x \in L : \E i, j \in 1..n : x = 0 - Replays!TotalOf(SubSeq(p, i, j))
  BY <1>1
<1>5. \A i, j \in 1..n : 0 - Replays!TotalOf(SubSeq(p, i, j)) \in L
  BY <1>1
<1>6. d \in Nat /\ d >= 0
  BY DrawdownType
<1> HIDE DEF n, e, d, L
<1>7. d \in S
  <2>1. PICK i, j \in 0..n : i <= j /\ d = e[i] - e[j]
    BY <1>2 DEF Deepest
  <2>2. e[i] \in Int /\ e[j] \in Int
    BY <1>1
  <2>3. CASE i = j
    BY <2>1, <2>2, <2>3
  <2>4. CASE i # j
    <3>1. i + 1 \in 1..n /\ j \in 1..n /\ i + 1 <= j /\ (i + 1) - 1 = i
      BY <1>1, <2>1, <2>4
    <3>2. Replays!TotalOf(SubSeq(p, i + 1, j)) = e[j] - e[(i + 1) - 1]
      BY <1>3, <3>1
    <3>3. d = 0 - Replays!TotalOf(SubSeq(p, i + 1, j))
      BY <2>1, <2>2, <3>1, <3>2
    <3> QED BY <1>5, <3>1, <3>3
  <2> QED BY <2>3, <2>4
<1>8. \A x \in S : x \in Int /\ d >= x
  <2> SUFFICES ASSUME NEW x \in L
               PROVE  x \in Int /\ d >= x
    BY <1>2, <1>6
  <2>1. PICK i, j \in 1..n : x = 0 - Replays!TotalOf(SubSeq(p, i, j))
    BY <1>4
  <2>2. CASE i <= j
    <3>1. i - 1 \in 0..n /\ j \in 0..n /\ i - 1 <= j
      BY <1>1, <2>2
    <3>2. e[i - 1] - e[j] <= d /\ e[i - 1] \in Int /\ e[j] \in Int
      BY <1>1, <1>2, <3>1 DEF Deepest
    <3>3. x = 0 - (e[j] - e[i - 1])
      BY <1>3, <2>1, <2>2
    <3> QED BY <1>2, <3>2, <3>3
  <2>3. CASE ~(i <= j)
    <3>1. x = 0
      BY <1>3, <2>1, <2>3
    <3> QED BY <1>2, <1>6, <3>1
  <2> QED BY <2>2, <2>3
<1>9. d = Replays!Max(S)
  <2>1. Replays!Max(S) = CHOOSE x \in S : \A y \in S : x >= y
    BY DEF Replays!Max
  <2> HIDE DEF S
  <2>2. \A x \in S : (\A y \in S : x >= y) => x = d
    BY <1>2, <1>7, <1>8
  <2> QED BY <1>7, <1>8, <2>1, <2>2
<1> QED BY <1>9 DEF Replays!LargestLoss, d, S, L

-----------------------------------------------------------------------------
\* Adding results one by one is adding them at once.
LEMMA TotalOfIs == ASSUME NEW p \in Seq(Int) PROVE Replays!TotalOf(p) = Total(p, DOMAIN p)
<1> DEFINE n == Len(p)
           e == Replays!Equity(p)
           P == {k \in 0..n : e[k] = Total(p, 1..k)}
<1>1. /\ n \in Nat /\ DOMAIN p = 1..n /\ e[0] = 0 /\ \A k \in 1..n : p[k] \in Int /\ e[k] = e[k - 1] + p[k]
  BY EquityIs
<1> HIDE DEF n, e
<1>2. 0 \in P
  <2>1. 1..0 = {}
    OBVIOUS
  <2> QED BY <1>1, <2>1, TotalEmpty
<1>3. ASSUME NEW k \in 1..n, k - 1 \in P
      PROVE  k \in P
  <2>1. /\ k \in Nat /\ k \in 1..k /\ (1..k) \ {k} = 1..(k - 1) /\ k \in 0..n /\ k - 1 \in Nat
        /\ \A x \in 1..k : p[x] \in Int
    BY <1>1
  <2>2. IsFiniteSet(1..k) /\ IsFiniteSet(1..(k - 1))
    BY <2>1, FS_Interval
  <2>3. IntegersOn(p, 1..k) /\ IntegersOn(p, 1..(k - 1))
    BY <2>1 DEF IntegersOn
  <2>4. Total(p, 1..k) = p[k] + Total(p, 1..(k - 1))
    <3> DEFINE I == 1..k
    <3>1. IsFiniteSet(I) /\ IntegersOn(p, I) /\ k \in I /\ I \ {k} = 1..(k - 1)
      BY <2>1, <2>2, <2>3
    <3> HIDE DEF I
    <3>2. Total(p, I) = p[k] + Total(p, I \ {k})
      BY <3>1, TotalTake
    <3> QED BY <3>1, <3>2, Zenon DEF I
  <2>5. Total(p, 1..(k - 1)) \in Int
    BY <2>2, <2>3, TotalType
  <2>6. e[k - 1] = Total(p, 1..(k - 1)) /\ e[k] = e[k - 1] + p[k] /\ p[k] \in Int
    BY <1>1, <1>3
  <2>7. e[k] = Total(p, 1..k)
    BY <2>4, <2>5, <2>6
  <2> QED BY <2>1, <2>7
<1> HIDE DEF P
<1>4. 0..n \subseteq P
  BY <1>1, <1>2, <1>3, UpTo
<1>5. n \in P
  BY <1>1, <1>4
<1> QED BY <1>1, <1>5 DEF P, Replays!TotalOf, n, e

LEMMA SumAtIs == \A p, places : Replays!SumAt(p, places) = Total(p, places)
BY DEF Replays!SumAt, Replays!MapThenSumSet, Replays!MapThenFoldSet, Total

\* A sum of positive terms, of terms at some places and zero at the others, and of what is
\* won and lost.
LEMMA TotalNotNegative ==
  ASSUME NEW S, IsFiniteSet(S), NEW f, \A x \in S : f[x] \in Int /\ f[x] >= 0
  PROVE  Total(f, S) \in Int /\ Total(f, S) >= 0
<1>1. IntegersOn(f, S)
  BY DEF IntegersOn
<1>2. Total(f, S) \in Int
  BY <1>1, TotalType
<1>3. 0 - Total(f, S) <= Total(f, S)
  <2>1. \A x \in S : 0 - f[x] <= f[x] /\ f[x] <= f[x]
    OBVIOUS
  <2> QED BY <1>1, <2>1, TotalBounds
<1> QED BY <1>2, <1>3

LEMMA TotalWhere ==
  ASSUME NEW S, IsFiniteSet(S), NEW f, IntegersOn(f, S), NEW A \in SUBSET S, NEW g,
         \A x \in A : g[x] = f[x], \A x \in S \ A : f[x] = 0
  PROVE  Total(f, S) = Total(g, A) /\ Total(g, A) \in Int
<1>1. IsFiniteSet(A) /\ IsFiniteSet(S \ A) /\ IntegersOn(f, A) /\ IntegersOn(f, S \ A)
  BY FS_Subset, FS_Difference DEF IntegersOn
<1>2. Total(f, S) = Total(f, A) + Total(f, S \ A)
  BY TotalSplit
<1>3. Total(f, S \ A) = 0
  <2>1. \A x \in S \ A : f[x] = f[x] - f[x]
    BY <1>1 DEF IntegersOn
  <2>2. Total(f, S \ A) = Total(f, S \ A) - Total(f, S \ A)
    BY <1>1, <2>1, TotalDifference
  <2>3. Total(f, S \ A) \in Int
    BY <1>1, TotalType
  <2> QED BY <2>2, <2>3
<1>4. Total(f, A) \in Int
  BY <1>1, TotalType
<1>5. Total(g, A) = Total(f, A)
  BY <1>1, TotalSame
<1> QED BY <1>2, <1>3, <1>4, <1>5

LEMMA TotalNegative ==
  ASSUME NEW S, IsFiniteSet(S), NEW f, IntegersOn(f, S), NEW g, \A x \in S : g[x] = 0 - f[x]
  PROVE  Total(g, S) = 0 - Total(f, S) /\ Total(f, S) \in Int
<1> DEFINE zero == [x \in S |-> 0]
<1>1. IntegersOn(zero, S) /\ \A x \in S : zero[x] = zero[x] - zero[x] /\ g[x] = zero[x] - f[x]
  BY DEF IntegersOn
<1> HIDE DEF zero
<1>2. Total(zero, S) = Total(zero, S) - Total(zero, S)
  BY <1>1, TotalDifference
<1>3. Total(g, S) = Total(zero, S) - Total(f, S)
  BY <1>1, TotalDifference
<1>4. Total(zero, S) \in Int /\ Total(f, S) \in Int
  BY <1>1, TotalType
<1> QED BY <1>2, <1>3, <1>4

\* The wins and losses of a run: how many there are, what they add up to, and that both
\* ways of adding them agree.
LEMMA WinsAndLosses ==
  ASSUME NEW p \in Seq(Int)
  PROVE  LET w == Cardinality(Replays!Wins(p))
             l == Cardinality(Replays!Losses(p))
             gain == Replays!SumAt(p, Replays!Wins(p))
             loss == 0 - Replays!SumAt(p, Replays!Losses(p))
         IN  /\ w \in Nat /\ l \in Nat /\ w + l <= Len(p)
             /\ gain \in Nat /\ loss \in Nat /\ (w = 0 => gain = 0) /\ (l = 0 => loss = 0)
             /\ gain - loss = Replays!TotalOf(p) /\ (Len(p) = 0 => gain - loss = 0)
             /\ Replays!TotalOf([i \in DOMAIN p |-> Replays!Larger(p[i], 0)]) = gain
             /\ Replays!TotalOf([i \in DOMAIN p |-> Replays!Larger(0 - p[i], 0)]) = loss
<1> DEFINE n == Len(p)
           D == DOMAIN p
           A == Replays!Wins(p)
           B == Replays!Losses(p)
           w == Cardinality(A)
           l == Cardinality(B)
           gain == Replays!SumAt(p, A)
           loss == 0 - Replays!SumAt(p, B)
           above == [i \in D |-> Replays!Larger(p[i], 0)]
           below == [i \in D |-> Replays!Larger(0 - p[i], 0)]
           neg == [i \in D |-> 0 - p[i]]
<1>1. n \in Nat /\ D = 1..n /\ \A i \in D : p[i] \in Int
  OBVIOUS
<1>2. /\ A = {i \in D : p[i] > 0} /\ B = {i \in D : p[i] < 0}
      /\ A \in SUBSET D /\ B \in SUBSET D /\ A \cap B = {}
  BY <1>1 DEF Replays!Wins, Replays!Losses
<1>3. above \in Seq(Int) /\ DOMAIN above = D /\ below \in Seq(Int) /\ DOMAIN below = D
  <2>1. \A i \in 1..n : Replays!Larger(p[i], 0) \in Int /\ Replays!Larger(0 - p[i], 0) \in Int
    BY <1>1 DEF Replays!Larger
  <2>2. above \in [1..n -> Int] /\ below \in [1..n -> Int]
    BY <1>1, <2>1
  <2> HIDE DEF above, below, D, n
  <2> QED BY <1>1, <2>2, SeqDef
<1>4. /\ \A i \in A : above[i] = p[i] /\ p[i] >= 0
      /\ \A i \in D \ A : above[i] = 0
      /\ \A i \in B : below[i] = neg[i] /\ neg[i] >= 0 /\ neg[i] = 0 - p[i] /\ neg[i] \in Int
      /\ \A i \in D \ B : below[i] = 0
      /\ \A i \in (D \ A) \ B : p[i] = 0
      /\ IntegersOn(above, D) /\ IntegersOn(below, D) /\ IntegersOn(p, D) /\ IntegersOn(p, A) /\ IntegersOn(p, B)
      /\ IntegersOn(p, D \ A)
  BY <1>1, <1>2 DEF Replays!Larger, IntegersOn
<1>5. gain = Total(p, A) /\ loss = 0 - Total(p, B)
  BY SumAtIs
<1>6. Replays!TotalOf(p) = Total(p, D) /\ Replays!TotalOf(above) = Total(above, D) /\ Replays!TotalOf(below) = Total(below, D)
  <2> HIDE DEF above, below, D
  <2> QED BY <1>3, TotalOfIs DEF D
<1> HIDE DEF n, D, A, B, above, below, neg, gain, loss
<1>7. IsFiniteSet(D) /\ Cardinality(D) = n
  BY <1>1, FS_Interval
<1>8. IsFiniteSet(A) /\ IsFiniteSet(B) /\ IsFiniteSet(D \ A) /\ B \in SUBSET (D \ A) /\ (D \ A) \in SUBSET D
  BY <1>2, <1>7, FS_Subset, FS_Difference
<1>9. w \in Nat /\ l \in Nat /\ w + l <= n
  <2>1. w \in Nat /\ l \in Nat
    BY <1>8, FS_CardinalityType
  <2>2. Cardinality(A \cup B) = w + l - Cardinality(A \cap B) /\ Cardinality(A \cap B) = 0
    BY <1>2, <1>8, FS_Union, FS_EmptySet
  <2>3. Cardinality(A \cup B) <= Cardinality(D)
    BY <1>2, <1>7, FS_Subset
  <2> QED BY <1>7, <2>1, <2>2, <2>3
<1>10. Total(above, D) = Total(p, A) /\ Total(p, A) \in Int
  BY <1>2, <1>4, <1>7, TotalWhere
<1>11. Total(below, D) = Total(neg, B)
  BY <1>2, <1>4, <1>7, TotalWhere
<1>12. Total(neg, B) = 0 - Total(p, B) /\ Total(p, B) \in Int
  BY <1>4, <1>8, TotalNegative
<1>13. Total(p, A) >= 0 /\ Total(neg, B) >= 0
  <2>1. \A i \in A : p[i] \in Int /\ p[i] >= 0
    BY <1>4 DEF IntegersOn
  <2> QED BY <1>4, <1>8, <2>1, TotalNotNegative
<1>14. Total(p, D) = Total(p, A) + Total(p, B)
  <2>1. Total(p, D) = Total(p, A) + Total(p, D \ A)
    BY <1>2, <1>4, <1>7, TotalSplit
  <2>2. Total(p, D \ A) = Total(p, B)
    BY <1>4, <1>8, TotalWhere
  <2> QED BY <2>1, <2>2
<1>15. (w = 0 => gain = 0) /\ (l = 0 => loss = 0) /\ (n = 0 => Total(p, D) = 0)
  <2>1. (w = 0 => A = {}) /\ (l = 0 => B = {}) /\ (n = 0 => D = {})
    BY <1>7, <1>8, FS_EmptySet
  <2>2. Total(p, {}) = 0
    BY TotalEmpty
  <2>3. ASSUME w = 0 PROVE gain = 0
    BY <1>5, <2>1, <2>2, <2>3
  <2>4. ASSUME l = 0 PROVE loss = 0
    <3>1. Total(p, B) = 0
      BY <2>1, <2>2, <2>4
    <3> QED BY <1>5, <3>1
  <2>5. ASSUME n = 0 PROVE Total(p, D) = 0
    BY <2>1, <2>2, <2>5
  <2> QED BY <2>3, <2>4, <2>5
<1>16. gain \in Nat /\ loss \in Nat /\ gain - loss = Total(p, D)
  BY <1>5, <1>10, <1>12, <1>13, <1>14
<1>17. Replays!TotalOf(above) = gain /\ Replays!TotalOf(below) = loss
  BY <1>5, <1>6, <1>10, <1>11, <1>12
<1> QED BY <1>6, <1>9, <1>15, <1>16, <1>17 DEF n, D, A, B, gain, loss, above, below

LEMMA RatesAddUp ==
  ASSUME NEW n \in Nat \ {0}, NEW a \in Nat, NEW b \in Nat, NEW c \in Nat, a + b + c = n,
         NEW x \in Int, NEW y \in Int, NEW z \in Int,
         Near(x, a, n), Near(y, b, n), Near(z, c, n)
  PROVE  Replays!Magnitude(x + y + z - Replays!Whole) <= 1
<1> DEFINE W == Replays!Whole
           t == x + y + z - W
           xn == x * n
           yn == y * n
           zn == z * n
           tn == t * n
<1>0. W \in Nat
  BY WholeType
<1> HIDE DEF W
<1>1. xn \in Int /\ yn \in Int /\ zn \in Int /\ t \in Int /\ tn \in Int
  BY <1>0
<1>2. tn = xn + yn + zn - W * n /\ W * n = W * a + W * b + W * c
      /\ W * a \in Int /\ W * b \in Int /\ W * c \in Int
  BY <1>0
<1>3. Within(xn - W * a, n) /\ Within(yn - W * b, n) /\ Within(zn - W * c, n)
  BY DEF Near, W
<1> HIDE DEF xn, yn, zn, tn
<1>4. 0 - 3 * n <= 2 * tn /\ 2 * tn <= 3 * n
  BY <1>1, <1>2, <1>3 DEF Within
<1> HIDE DEF t
<1>5. t <= 1
  <2> SUFFICES ASSUME t >= 2
               PROVE  FALSE
    BY <1>1
  <2>1. 2 * n <= t * n
    BY <1>1, Cancel
  <2> QED BY <1>1, <1>4, <2>1 DEF tn
<1>6. t >= -1
  <2> SUFFICES ASSUME t <= -2
               PROVE  FALSE
    BY <1>1
  <2>1. t * n <= (-2) * n
    BY <1>1, Cancel
  <2> QED BY <1>1, <1>4, <2>1 DEF tn
<1> QED BY <1>1, <1>5, <1>6 DEF Replays!Magnitude, t, W

LEMMA SameCount == \A S : Replays!Cardinality(S) = Cardinality(S)
BY DEF Replays!Cardinality, Cardinality

\* What both engines make of any results is accepted, agrees, and is within its rounding.
LEMMA StatisticsRight ==
  ASSUME NEW p \in Seq(Int)
  PROVE  /\ Replays!FiguresAreRight(p)
         /\ Replays!Statistics(p).wins = Replays!Cardinality(Replays!Wins(p))
<1> DEFINE n == Len(p)
           w == Replays!Cardinality(Replays!Wins(p))
           l == Replays!Cardinality(Replays!Losses(p))
           b == n - w - l
           gain == Replays!SumAt(p, Replays!Wins(p))
           loss == 0 - Replays!SumAt(p, Replays!Losses(p))
           net == gain - loss
           won == Replays!Rate(w, n)
           losses == Replays!Rate(l, n)
           flats == Replays!Rate(b, n)
           win == Replays!Average(gain, w)
           lose == Replays!Average(loss, l)
           factor == IF loss = 0 THEN 0 ELSE Replays!Rounded(100 * gain, loss)
           mean == Replays!Average(net, n)
           fall == Replays!MaximumDrawdown(p)
           s == Replays!Statistics(p)
           e == Replays!Evaluation(p)
<1>0. w = Cardinality(Replays!Wins(p)) /\ l = Cardinality(Replays!Losses(p))
  BY SameCount
<1>1. /\ n \in Nat /\ w \in Nat /\ l \in Nat /\ w + l <= n
      /\ gain \in Nat /\ loss \in Nat /\ (w = 0 => gain = 0) /\ (l = 0 => loss = 0)
      /\ net = Replays!TotalOf(p) /\ (n = 0 => net = 0)
  <2>1. Len(p) \in Nat
    OBVIOUS
  <2>2. /\ Cardinality(Replays!Wins(p)) \in Nat /\ Cardinality(Replays!Losses(p)) \in Nat
        /\ Cardinality(Replays!Wins(p)) + Cardinality(Replays!Losses(p)) <= Len(p)
        /\ gain \in Nat /\ loss \in Nat /\ (Cardinality(Replays!Wins(p)) = 0 => gain = 0)
        /\ (Cardinality(Replays!Losses(p)) = 0 => loss = 0)
        /\ net = Replays!TotalOf(p) /\ (n = 0 => net = 0)
    BY WinsAndLosses, Zenon
  <2> HIDE DEF w, l, gain, loss, net
  <2> QED BY <1>0, <2>1, <2>2
<1>2. /\ Replays!TotalOf([i \in DOMAIN p |-> Replays!Larger(p[i], 0)]) = gain
      /\ Replays!TotalOf([i \in DOMAIN p |-> Replays!Larger(0 - p[i], 0)]) = loss
  BY WinsAndLosses
<1>3. s = [total |-> n, wins |-> w, losses |-> l, breakevens |-> b, win_rate |-> won,
           gross_profit |-> gain, gross_loss |-> loss, net_profit |-> net,
           average_win |-> win, average_loss |-> lose, profit_factor |-> factor,
           expectancy |-> mean, max_drawdown |-> fall]
  BY DEF Replays!Statistics
<1>4. e = [total |-> n, wins |-> w, losses |-> l, breakevens |-> b, win_rate |-> won,
           loss_rate |-> losses, breakeven_rate |-> flats,
           gross_profit |-> gain, gross_loss |-> loss, net_profit |-> net]
  BY <1>2 DEF Replays!Evaluation
<1>5. won = Replays!Rate(w, n) /\ losses = Replays!Rate(l, n) /\ flats = Replays!Rate(b, n)
      /\ win = Replays!Average(gain, w) /\ lose = Replays!Average(loss, l) /\ mean = Replays!Average(net, n)
      /\ factor = (IF loss = 0 THEN 0 ELSE Replays!Rounded(100 * gain, loss))
      /\ w = Replays!Cardinality(Replays!Wins(p))
  OBVIOUS
<1>23. b = n - w - l /\ net = gain - loss
  OBVIOUS
<1> HIDE DEF n, w, l, b, gain, loss, net, won, losses, flats, win, lose, factor, mean, fall, s, e
<1>6. net \in Int /\ w \in 0..n /\ l \in 0..n /\ b \in 0..n /\ b >= 0 /\ w + l + b = n
  BY <1>1, <1>23
<1>7. /\ won \in 0..Replays!Whole /\ won \in Int
      /\ n > 0 => Near(won, w, n)
  <2>1. n \in Nat /\ w \in 0..n
    BY <1>1, <1>6
  <2> QED BY <2>1, RateIs DEF won
<1>21. /\ losses \in 0..Replays!Whole /\ losses \in Int
       /\ n > 0 => Near(losses, l, n)
  <2>1. n \in Nat /\ l \in 0..n
    BY <1>1, <1>6
  <2> QED BY <2>1, RateIs DEF losses
<1>22. /\ flats \in 0..Replays!Whole /\ flats \in Int
       /\ n > 0 => Near(flats, b, n)
  <2>1. n \in Nat /\ b \in 0..n
    BY <1>1, <1>6
  <2> QED BY <2>1, RateIs DEF flats
<1>8. win >= 0 /\ lose >= 0
  <2>1. gain \in Int /\ loss \in Int /\ gain >= 0 /\ loss >= 0
    BY <1>1
  <2> QED BY <1>1, <1>5, <2>1, AverageNear
<1>9. mean \in Int /\ Within(mean * n - net, n)
  BY <1>1, <1>5, <1>6, AverageNear
<1>10. factor >= 0
  <2>1. CASE loss = 0
    BY <1>5, <2>1
  <2>2. CASE loss # 0
    <3>1. loss \in Nat \ {0} /\ 100 * gain \in Int /\ 100 * gain >= 0
      BY <1>1, <2>2
    <3> QED BY <1>5, <2>2, <3>1, RoundedNear
  <2> QED BY <2>1, <2>2
<1>11. fall \in Nat /\ fall = Replays!LargestLoss(p)
  BY DrawdownType, DrawdownIsLargestLoss DEF fall
<1>12. 2 * Replays!Magnitude(mean * n - net) <= n
  <2> DEFINE off == mean * n - net
  <2>1. off \in Int
    BY <1>1, <1>6, <1>9
  <2>2. Within(off, n)
    BY <1>9
  <2> HIDE DEF off
  <2>3. 2 * Replays!Magnitude(off) <= n
    BY <1>1, <2>1, <2>2 DEF Within, Replays!Magnitude
  <2> QED BY <2>3 DEF off
<1>13. n > 0 => Replays!Magnitude(won + losses + flats - Replays!Whole) <= 1
  <2> SUFFICES ASSUME n > 0
               PROVE  Replays!Magnitude(won + losses + flats - Replays!Whole) <= 1
    OBVIOUS
  <2>1. n \in Nat \ {0} /\ w \in Nat /\ l \in Nat /\ b \in Nat /\ w + l + b = n
    BY <1>1, <1>6
  <2> QED
    <3>1. Near(won, w, n) /\ Near(losses, l, n) /\ Near(flats, b, n) /\ won \in Int /\ losses \in Int /\ flats \in Int
      BY <1>7, <1>21, <1>22, Zenon
    <3> QED BY <2>1, <3>1, RatesAddUp
<1>14. Replays!StatisticsValid(s)
  <2>1. s.wins + s.losses + s.breakevens = s.total /\ s.net_profit = s.gross_profit - s.gross_loss
    BY <1>3, <1>6, <1>23
  <2>2. \A f \in {"wins", "losses", "breakevens", "gross_profit", "gross_loss", "average_win",
                  "average_loss", "profit_factor", "max_drawdown"} : s[f] >= 0
    BY <1>1, <1>3, <1>6, <1>8, <1>10, <1>11
  <2>3. s.win_rate \in 0..Replays!Whole /\ s.win_rate = Replays!Rate(s.wins, s.total)
    <3>1. s.win_rate = won /\ s.wins = w /\ s.total = n
      BY <1>3
    <3> QED BY <1>5, <1>7, <3>1
  <2>4. /\ s.average_win = Replays!Average(s.gross_profit, s.wins)
        /\ s.average_loss = Replays!Average(s.gross_loss, s.losses)
        /\ s.expectancy = Replays!Average(s.net_profit, s.total)
    BY <1>3, <1>5
  <2>5. s.profit_factor = IF s.gross_loss = 0 THEN 0 ELSE Replays!Rounded(100 * s.gross_profit, s.gross_loss)
    BY <1>3, <1>5
  <2> QED BY <2>1, <2>2, <2>3, <2>4, <2>5 DEF Replays!StatisticsValid
<1>15. Replays!EvaluationValid(e)
  <2>1. e.wins + e.losses + e.breakevens = e.total /\ e.net_profit = e.gross_profit - e.gross_loss
    BY <1>4, <1>6, <1>23
  <2>2. \A f \in {"wins", "losses", "breakevens", "gross_profit", "gross_loss"} : e[f] >= 0
    BY <1>1, <1>4, <1>6
  <2>3. \A f \in {"win_rate", "loss_rate", "breakeven_rate"} : e[f] \in 0..Replays!Whole
    <3>1. e.win_rate = won /\ e.loss_rate = losses /\ e.breakeven_rate = flats
      BY <1>4
    <3>2. e.win_rate \in 0..Replays!Whole
      BY <1>7, <3>1
    <3>3. e.loss_rate \in 0..Replays!Whole
      BY <1>21, <3>1
    <3>4. e.breakeven_rate \in 0..Replays!Whole
      BY <1>22, <3>1
    <3> QED BY <3>2, <3>3, <3>4
  <2>4. /\ e.win_rate = Replays!Rate(e.wins, e.total) /\ e.loss_rate = Replays!Rate(e.losses, e.total)
        /\ e.breakeven_rate = Replays!Rate(e.breakevens, e.total)
    BY <1>4, <1>5
  <2> QED BY <2>1, <2>2, <2>3, <2>4 DEF Replays!EvaluationValid
<1>16. \A f \in DOMAIN s \cap DOMAIN e : s[f] = e[f]
  BY <1>3, <1>4
<1>17. /\ s.wins = w /\ s.net_profit = net /\ s.max_drawdown = fall /\ s.expectancy = mean /\ s.total = n
       /\ e.win_rate = won /\ e.loss_rate = losses /\ e.breakeven_rate = flats
  BY <1>3, <1>4
<1>18. /\ s.wins = Replays!Cardinality(Replays!Wins(p)) /\ s.net_profit = Replays!TotalOf(p)
       /\ s.max_drawdown = Replays!LargestLoss(p)
       /\ 2 * Replays!Magnitude(s.expectancy * s.total - s.net_profit) <= s.total
       /\ s.total > 0 => Replays!Magnitude(e.win_rate + e.loss_rate + e.breakeven_rate - Replays!Whole) <= 1
  <2>1. s.wins = Replays!Cardinality(Replays!Wins(p)) /\ s.net_profit = Replays!TotalOf(p)
    BY <1>1, <1>5, <1>17
  <2>2. s.max_drawdown = Replays!LargestLoss(p)
    BY <1>11, <1>17
  <2>3. 2 * Replays!Magnitude(s.expectancy * s.total - s.net_profit) <= s.total
    BY <1>12, <1>17, Zenon
  <2>4. s.total > 0 => Replays!Magnitude(e.win_rate + e.loss_rate + e.breakeven_rate - Replays!Whole) <= 1
    BY <1>13, <1>17, Zenon
  <2> QED BY <2>1, <2>2, <2>3, <2>4
<1>19. Replays!FiguresAreRight(p)
  BY <1>14, <1>15, <1>16, <1>18 DEF Replays!FiguresAreRight, s, e
<1> QED BY <1>18, <1>19 DEF s

-----------------------------------------------------------------------------
\* Order statistics.  Rounding is odd, keeps the order and keeps zero.
\* Rounding keeps the order, of amounts in any two units: only a tie could be rounded past
\* another, and ties go to even numbers.
LEMMA RoundedTie ==
  ASSUME NEW n \in Int, NEW u \in Nat \ {0},
         2 * (Replays!Rounded(n, u) * u - n) = u \/ 2 * (n - Replays!Rounded(n, u) * u) = u
  PROVE  \E k \in Int : Replays!Rounded(n, u) = 2 * k
<1> DEFINE m == Replays!Magnitude(n)
           q == m \div u
           r == m % u
           z == IF 2 * r > u \/ (2 * r = u /\ q % 2 = 1) THEN q + 1 ELSE q
           x == Replays!Rounded(n, u)
<1>1. m \in Nat /\ m = IF n < 0 THEN 0 - n ELSE n
  BY DEF Replays!Magnitude
<1>2. q \in Nat /\ r \in 0..(u - 1) /\ m = q * u + r
  <2> HIDE DEF m
  <2> QED BY <1>1, Division
<1>3. x = IF n < 0 THEN 0 - z ELSE z
  BY DEF Replays!Rounded
<1>4. x \in Int /\ (2 * (x * u - n) = u \/ 2 * (n - x * u) = u)
  BY RoundedNear
<1> HIDE DEF m, q, r, x
<1> DEFINE base == q * u
           zu == z * u
<1>5. base \in Nat /\ m = base + r /\ (q + 1) * u = base + u
  BY <1>2, Multiply, Distribute
<1>6. z \in Nat /\ zu \in Int
  <2>1. z \in Nat
    BY <1>2
  <2> HIDE DEF z
  <2> QED BY <2>1
<1>7. 2 * (zu - m) = u \/ 2 * (m - zu) = u
  <2> HIDE DEF z
  <2>1. CASE n < 0
    <3>1. x = 0 - z /\ x * u = 0 - zu /\ m = 0 - n
      BY <1>1, <1>3, <1>6, <2>1
    <3> DEFINE xu == x * u
    <3>2. xu = 0 - zu /\ (2 * (xu - n) = u \/ 2 * (n - xu) = u)
      BY <1>4, <3>1
    <3> HIDE DEF xu, zu
    <3> QED BY <1>1, <1>6, <3>1, <3>2
  <2>2. CASE ~(n < 0)
    <3>1. x = z /\ m = n
      BY <1>1, <1>3, <2>2
    <3> QED BY <1>4, <3>1
  <2> QED BY <2>1, <2>2
<1>8. \E k \in Int : z = 2 * k
  <2>1. CASE z = q + 1 /\ 2 * r = u /\ q % 2 = 1
    <3>1. z % 2 = 0
      BY <1>2, <2>1
    <3> QED BY <1>6, <3>1
  <2>2. CASE z = q /\ 2 * r = u /\ q % 2 # 1
    <3>1. z % 2 = 0
      BY <1>2, <2>2
    <3> QED BY <1>6, <3>1
  <2>3. CASE z = q /\ 2 * r < u
    <3>1. zu = base
      BY <2>3
    <3> HIDE DEF zu, base, z
    <3> QED BY <1>2, <1>5, <1>7, <2>3, <3>1
  <2>4. CASE z = q + 1 /\ 2 * r > u
    <3>1. zu = base + u
      BY <1>5, <2>4
    <3> HIDE DEF zu, base, z
    <3> QED BY <1>2, <1>5, <1>7, <2>4, <3>1
  <2>5. 2 * r < u \/ 2 * r = u \/ 2 * r > u
    BY <1>2
  <2> HIDE DEF base, zu
  <2> QED BY <2>1, <2>2, <2>3, <2>4, <2>5
<1> HIDE DEF z, base, zu
<1>9. PICK k \in Int : z = 2 * k
  BY <1>8
<1>10. x = 2 * k \/ x = 2 * (0 - k)
  BY <1>3, <1>6, <1>9
<1>11. 0 - k \in Int
  OBVIOUS
<1> QED BY <1>9, <1>10, <1>11 DEF x

LEMMA RoundedOrder ==
  ASSUME NEW a \in Int, NEW u \in Nat \ {0}, NEW b \in Int, NEW v \in Nat \ {0}, a * v <= b * u
  PROVE  Replays!Rounded(a, u) <= Replays!Rounded(b, v)
<1> DEFINE x == Replays!Rounded(a, u)
           y == Replays!Rounded(b, v)
<1>1. x \in Int /\ Within(x * u - a, u) /\ y \in Int /\ Within(y * v - b, v)
  BY RoundedNear
<1>2. 2 * (x * u - a) = u => \E k \in Int : x = 2 * k
  BY RoundedTie
<1>3. 2 * (b - y * v) = v => \E k \in Int : y = 2 * k
  BY RoundedTie
<1> HIDE DEF x, y
<1> SUFFICES ASSUME x > y
             PROVE  FALSE
  BY <1>1 DEF x, y
<1> DEFINE xu == x * u
           yv == y * v
           low == 2 * x - 1
           high == 2 * y + 1
           w == u * v
<1>4. xu \in Int /\ yv \in Int /\ w \in Nat \ {0} /\ low \in Int /\ high \in Int
  <2>1. xu \in Int /\ yv \in Int
    BY <1>1
  <2>2. w \in Nat /\ w # 0
    OBVIOUS
  <2> QED BY <1>1, <2>1, <2>2
<1>5. low * u <= 2 * a /\ (low * u = 2 * a => 2 * (xu - a) = u)
  <2>1. low * u = 2 * xu - u
    BY <1>1
  <2>2. 2 * (xu - a) <= u
    BY <1>1 DEF Within
  <2> HIDE DEF xu
  <2>3. 2 * xu - u <= 2 * a /\ (2 * xu - u = 2 * a => 2 * (xu - a) = u)
    BY <1>4, <2>2
  <2> QED BY <2>1, <2>3
<1>6. 2 * b <= high * v /\ (2 * b = high * v => 2 * (b - yv) = v)
  <2>1. high * v = 2 * yv + v
    BY <1>1
  <2>2. 0 - v <= 2 * (yv - b)
    BY <1>1 DEF Within
  <2> HIDE DEF yv
  <2>3. 2 * b <= 2 * yv + v /\ (2 * b = 2 * yv + v => 2 * (b - yv) = v)
    BY <1>4, <2>2
  <2> QED BY <2>1, <2>3
<1> HIDE DEF low, high, w
<1>7. (low * u) * v <= (2 * a) * v /\ (2 * b) * u <= (high * v) * u
  <2>1. low * u \in Int /\ high * v \in Int /\ 2 * a \in Int /\ 2 * b \in Int
    BY <1>4
  <2> QED BY <1>5, <1>6, <2>1, Cancel
<1>8. /\ (low * u) * v = low * w /\ (high * v) * u = high * w
      /\ (2 * a) * v = 2 * (a * v) /\ (2 * b) * u = 2 * (b * u)
      /\ a * v \in Int /\ b * u \in Int /\ low * w \in Int /\ high * w \in Int
  BY <1>4 DEF w
<1> DEFINE av == a * v
           bu == b * u
           lw == low * w
           hw == high * w
<1>9. lw <= 2 * av /\ av <= bu /\ 2 * bu <= hw /\ av \in Int /\ bu \in Int /\ lw \in Int /\ hw \in Int
  BY <1>7, <1>8
<1>10. low <= high
  <2>1. lw <= hw
    <3> HIDE DEF av, bu, lw, hw
    <3> QED BY <1>9
  <2> QED BY <1>4, <2>1, Cancel
<1>11. x = y + 1 /\ low = high
  BY <1>1, <1>10 DEF low, high
<1>12. lw = 2 * av /\ 2 * bu = hw
  <2>1. lw = hw
    BY <1>11
  <2> HIDE DEF av, bu, lw, hw
  <2> QED BY <1>9, <2>1
<1>13. low * u = 2 * a
  <2>1. (low * u) * v = (2 * a) * v
    BY <1>8, <1>12
  <2>2. low * u \in Int /\ 2 * a \in Int
    BY <1>4
  <2> DEFINE lu == low * u
             aa == 2 * a
  <2>3. lu * v = aa * v /\ lu \in Int /\ aa \in Int
    BY <2>1, <2>2
  <2> HIDE DEF lu, aa
  <2>4. lu * v <= aa * v /\ aa * v <= lu * v
    BY <2>3
  <2>5. lu <= aa /\ aa <= lu
    BY <2>3, <2>4, Cancel
  <2>6. lu = aa
    BY <2>3, <2>5
  <2> QED BY <2>6 DEF lu, aa
<1>14. 2 * b = high * v
  <2>1. (high * v) * u = (2 * b) * u
    BY <1>8, <1>12
  <2>2. high * v \in Int /\ 2 * b \in Int
    BY <1>4
  <2> DEFINE hv == high * v
             bb == 2 * b
  <2>3. hv * u = bb * u /\ hv \in Int /\ bb \in Int
    BY <2>1, <2>2
  <2> HIDE DEF hv, bb
  <2>4. hv * u <= bb * u /\ bb * u <= hv * u
    BY <2>3
  <2>5. hv <= bb /\ bb <= hv
    BY <2>3, <2>4, Cancel
  <2>6. hv = bb
    BY <2>3, <2>5
  <2> QED BY <2>6 DEF hv, bb
<1>15. (\E k \in Int : x = 2 * k) /\ (\E k \in Int : y = 2 * k)
  BY <1>2, <1>3, <1>5, <1>6, <1>13, <1>14 DEF xu, yv
<1>16. PICK k, l \in Int : x = 2 * k /\ y = 2 * l
  BY <1>15
<1> QED BY <1>11, <1>16

\* Zero is rounded to zero, and the opposite of an amount to the opposite.
LEMMA RoundedZero == ASSUME NEW u \in Nat \ {0} PROVE Replays!Rounded(0, u) = 0
<1> DEFINE x == Replays!Rounded(0, u)
<1>1. x \in Int /\ x >= 0 /\ Within(x * u - 0, u)
  BY RoundedNear
<1> HIDE DEF x
<1> SUFFICES ASSUME x >= 1
             PROVE  FALSE
  BY <1>1 DEF x
<1>2. 1 * u <= x * u /\ x * u \in Int
  BY <1>1, Cancel
<1> DEFINE y == x * u
<1>3. u <= y /\ y \in Int /\ Within(y - 0, u)
  BY <1>1, <1>2
<1> HIDE DEF y
<1> QED BY <1>3 DEF Within

LEMMA RoundedOpposite ==
  ASSUME NEW a \in Int, NEW u \in Nat \ {0}
  PROVE  Replays!Rounded(0 - a, u) = 0 - Replays!Rounded(a, u)
<1> DEFINE m == Replays!Magnitude(a)
           z == IF 2 * (m % u) > u \/ (2 * (m % u) = u /\ (m \div u) % 2 = 1) THEN (m \div u) + 1 ELSE m \div u
<1>1. Replays!Magnitude(0 - a) = m /\ (a < 0 => ~(0 - a < 0)) /\ (a > 0 => 0 - a < 0)
  BY DEF Replays!Magnitude
<1>2. Replays!Rounded(a, u) = IF a < 0 THEN 0 - z ELSE z
  BY DEF Replays!Rounded
<1>3. Replays!Rounded(0 - a, u) = IF 0 - a < 0 THEN 0 - z ELSE z
  BY <1>1 DEF Replays!Rounded
<1>4. Replays!Rounded(a, u) \in Int /\ Replays!Rounded(0 - a, u) \in Int
  BY RoundedNear
<1> HIDE DEF m, z
<1>5. CASE a = 0
  <2>1. 0 - a = 0 /\ Replays!Rounded(0, u) = 0
    BY <1>5, RoundedZero
  <2> QED BY <1>5, <2>1
<1>6. CASE a < 0
  BY <1>1, <1>2, <1>3, <1>4, <1>6
<1>7. CASE a > 0
  BY <1>1, <1>2, <1>3, <1>4, <1>7
<1> QED BY <1>5, <1>6, <1>7

-----------------------------------------------------------------------------
\* Among finitely many places one has the least value and one the greatest.
LEMMA LeastPlace ==
  ASSUME NEW S, IsFiniteSet(S), NEW f, IntegersOn(f, S), NEW T \in SUBSET S, T # {}
  PROVE  \E x \in T : \A y \in T : f[x] <= f[y]
<1> DEFINE P == {U \in SUBSET S : U # {} => \E x \in U : \A y \in U : f[x] <= f[y]}
<1>1. {} \in P
  OBVIOUS
<1>2. ASSUME NEW U \in SUBSET S, U # {}, \A x \in U : U \ {x} \in P
      PROVE  U \in P
  <2>1. PICK x \in U : TRUE
    BY <1>2
  <2>2. f[x] \in Int /\ \A y \in U : f[y] \in Int
    BY DEF IntegersOn
  <2>3. CASE U \ {x} = {}
    <3>1. \A y \in U : y = x
      BY <2>3
    <3> QED BY <2>2, <3>1
  <2>4. CASE U \ {x} # {}
    <3>1. PICK m \in U \ {x} : \A y \in U \ {x} : f[m] <= f[y]
      BY <1>2, <2>4
    <3>2. CASE f[x] <= f[m]
      <4>1. \A y \in U : f[x] <= f[y]
        BY <2>2, <3>1, <3>2
      <4> QED BY <4>1
    <3>3. CASE ~(f[x] <= f[m])
      <4>1. \A y \in U : f[m] <= f[y]
        BY <2>2, <3>1, <3>3
      <4> QED BY <4>1
    <3> QED BY <3>2, <3>3
  <2> QED BY <2>3, <2>4
<1> HIDE DEF P
<1>3. SUBSET S \subseteq P
  BY <1>1, <1>2, Subsets
<1> QED BY <1>3 DEF P

LEMMA GreatestPlace ==
  ASSUME NEW S, IsFiniteSet(S), NEW f, IntegersOn(f, S), NEW T \in SUBSET S, T # {}
  PROVE  \E x \in T : \A y \in T : f[y] <= f[x]
<1> DEFINE g == [x \in S |-> 0 - f[x]]
<1>1. \A x \in S : f[x] \in Int /\ g[x] = 0 - f[x] /\ g[x] \in Int
  BY DEF IntegersOn
<1> HIDE DEF g
<1>2. PICK x \in T : \A y \in T : g[x] <= g[y]
  <2>1. IntegersOn(g, S)
    BY <1>1 DEF IntegersOn
  <2> QED BY <2>1, LeastPlace
<1>3. \A y \in T : f[y] <= f[x]
  BY <1>1, <1>2
<1> QED BY <1>3

\* What stands at each place when values are sorted.  How many are below a value and how
\* many not above it decide the places it takes.
Below(p, v) == {i \in DOMAIN p : p[i] < v}
AtMost(p, v) == {i \in DOMAIN p : p[i] <= v}

LEMMA Counted ==
  ASSUME NEW n \in Nat, NEW S \in SUBSET (1..n)
  PROVE  /\ IsFiniteSet(S) /\ Cardinality(S) \in 0..n /\ (Cardinality(S) = 0 <=> S = {})
         /\ (Cardinality(S) = n <=> S = 1..n)
         /\ \A T \in SUBSET S : Cardinality(T) \in Nat /\ Cardinality(T) <= Cardinality(S)
<1>1. IsFiniteSet(1..n) /\ Cardinality(1..n) = n
  BY FS_Interval
<1>2. IsFiniteSet(S) /\ Cardinality(S) <= n /\ (Cardinality(S) = n => S = 1..n)
  <2> DEFINE I == 1..n
  <2>1. IsFiniteSet(I) /\ Cardinality(I) = n /\ S \in SUBSET I
    BY <1>1
  <2> HIDE DEF I
  <2>2. IsFiniteSet(S) /\ Cardinality(S) <= n /\ (Cardinality(S) = n => S = I)
    BY <2>1, FS_Subset, Zenon
  <2> QED BY <2>2 DEF I
<1>3. Cardinality(S) \in Nat /\ (Cardinality(S) = 0 <=> S = {})
  BY <1>2, FS_CardinalityType, FS_EmptySet
<1>4. ASSUME NEW T \in SUBSET S
      PROVE  Cardinality(T) \in Nat /\ Cardinality(T) <= Cardinality(S)
  BY <1>2, FS_Subset, FS_CardinalityType
<1> QED BY <1>1, <1>2, <1>3, <1>4

LEMMA OrderedIs ==
  ASSUME NEW n \in Nat, NEW p \in [1..n -> Int]
  PROVE  /\ DOMAIN Replays!Ordered(p) = 1..n
         /\ \A k \in 1..n : /\ \E i \in 1..n : Replays!Ordered(p)[k] = p[i]
                            /\ Cardinality(Below(p, Replays!Ordered(p)[k])) < k
                            /\ Cardinality(AtMost(p, Replays!Ordered(p)[k])) >= k
<1> DEFINE o == Replays!Ordered(p)
           Fits(k, v) == Cardinality(Below(p, v)) < k /\ Cardinality(AtMost(p, v)) >= k
           Stands(k, v) == /\ Replays!Cardinality({i \in DOMAIN p : p[i] < v}) < k
                           /\ Replays!Cardinality({i \in DOMAIN p : p[i] <= v}) >= k
<1>1. o = [k \in DOMAIN p |-> CHOOSE v \in Replays!Range(p) : Stands(k, v)] /\ DOMAIN p = 1..n
  BY DEF Replays!Ordered
<1>0. \A k, v : Stands(k, v) <=> Fits(k, v)
  BY SameCount, Zenon DEF Below, AtMost
<1>2. \A i \in 1..n : p[i] \in Int /\ p[i] \in Replays!Range(p)
  BY DEF Replays!Range
<1>3. \A v \in Replays!Range(p) : \E i \in 1..n : v = p[i]
  BY DEF Replays!Range
<1>4. IsFiniteSet(1..n) /\ IntegersOn(p, 1..n)
  BY <1>2, FS_Interval DEF IntegersOn
<1>5. ASSUME NEW k \in 1..n
      PROVE  \E v \in Replays!Range(p) : Fits(k, v)
  <2> DEFINE T == {i \in 1..n : Cardinality(AtMost(p, p[i])) >= k}
  <2>1. T # {}
    <3>1. PICK i \in 1..n : \A j \in 1..n : p[j] <= p[i]
      <4>1. 1..n \in SUBSET (1..n) /\ 1..n # {}
        BY <1>5
      <4> HIDE DEF T, Fits
      <4> QED BY <1>4, <4>1, GreatestPlace
    <3>2. AtMost(p, p[i]) = 1..n
      BY <3>1 DEF AtMost
    <3>3. Cardinality(1..n) = n
      BY FS_Interval
    <3>4. i \in T
      BY <3>2, <3>3
    <3> QED BY <3>4
  <2>2. PICK m \in T : \A j \in T : p[m] <= p[j]
    <3>1. T \in SUBSET (1..n)
      OBVIOUS
    <3> HIDE DEF T
    <3> QED BY <1>4, <2>1, <3>1, LeastPlace
  <2>3. m \in 1..n /\ Cardinality(AtMost(p, p[m])) >= k
    BY <2>2
  <2>4. Cardinality(Below(p, p[m])) < k
    <3> DEFINE B == Below(p, p[m])
    <3>1. B \in SUBSET (1..n)
      BY DEF Below
    <3>2. Cardinality(B) \in 0..n /\ (Cardinality(B) = 0 <=> B = {})
      <4> HIDE DEF B
      <4> QED BY <3>1, Counted
    <3> SUFFICES ASSUME Cardinality(B) >= k
                 PROVE  FALSE
      BY <3>2
    <3>3. B # {}
      BY <3>2
    <3>4. PICK j \in B : \A i \in B : p[i] <= p[j]
      <4> HIDE DEF B, T, Fits
      <4> QED BY <1>4, <3>1, <3>3, GreatestPlace
    <3>5. j \in 1..n /\ p[j] < p[m]
      BY <3>4 DEF Below
    <3>6. B \in SUBSET AtMost(p, p[j]) /\ AtMost(p, p[j]) \in SUBSET (1..n)
      BY <3>1, <3>4 DEF AtMost
    <3> DEFINE A == AtMost(p, p[j])
    <3>7. Cardinality(B) <= Cardinality(A) /\ Cardinality(A) \in Nat
      <4> HIDE DEF A, B
      <4>1. B \in SUBSET A /\ A \in SUBSET (1..n)
        BY <3>6 DEF A
      <4>2. Cardinality(A) \in 0..n /\ Cardinality(B) <= Cardinality(A)
        BY <4>1, Counted
      <4> QED BY <4>2
    <3>8. j \in T
      <4> HIDE DEF B
      <4> QED BY <3>2, <3>5, <3>7
    <3>9. p[m] <= p[j]
      BY <2>2, <3>8
    <3> QED BY <1>2, <2>3, <3>5, <3>9
  <2> QED BY <1>2, <2>3, <2>4
<1> HIDE DEF o, Fits, Stands
<1>6. \A k \in 1..n : o[k] \in Replays!Range(p) /\ Fits(k, o[k])
  BY <1>0, <1>1, <1>5
<1>7. DOMAIN o = 1..n
  BY <1>1
<1> QED BY <1>3, <1>6, <1>7 DEF o, Fits

LEMMA OrderedRises ==
  ASSUME NEW n \in Nat, NEW p \in [1..n -> Int]
  PROVE  /\ Replays!Ordered(p) \in [1..n -> Int]
         /\ \A k, l \in 1..n : k <= l => Replays!Ordered(p)[k] <= Replays!Ordered(p)[l]
         /\ \A i \in 1..n : Replays!Ordered(p)[1] <= p[i] /\ p[i] <= Replays!Ordered(p)[n]
<1> DEFINE o == Replays!Ordered(p)
<1>0. DOMAIN p = 1..n /\ o = [k \in DOMAIN p |-> CHOOSE v \in Replays!Range(p) :
                                  /\ Replays!Cardinality({i \in DOMAIN p : p[i] < v}) < k
                                  /\ Replays!Cardinality({i \in DOMAIN p : p[i] <= v}) >= k]
  BY DEF Replays!Ordered
<1>1. \A k \in 1..n : /\ \E i \in 1..n : o[k] = p[i]
                      /\ Cardinality(Below(p, o[k])) < k /\ Cardinality(AtMost(p, o[k])) >= k
  BY OrderedIs
<1> HIDE DEF o
<1>2. \A k \in 1..n : o[k] \in Int
  BY <1>1
<1>3. \A v : Below(p, v) \in SUBSET (1..n) /\ AtMost(p, v) \in SUBSET (1..n)
  BY DEF Below, AtMost
<1>4. ASSUME NEW k \in 1..n, NEW l \in 1..n, k <= l, o[l] < o[k]
      PROVE  FALSE
  <2>1. AtMost(p, o[l]) \in SUBSET Below(p, o[k])
    BY <1>2, <1>4 DEF AtMost, Below
  <2>2. /\ Cardinality(AtMost(p, o[l])) \in Nat /\ Cardinality(Below(p, o[k])) \in 0..n
        /\ Cardinality(AtMost(p, o[l])) <= Cardinality(Below(p, o[k]))
    BY <1>3, <2>1, Counted
  <2>3. Cardinality(Below(p, o[k])) < k /\ Cardinality(AtMost(p, o[l])) >= l
    BY <1>1
  <2> QED BY <1>4, <2>2, <2>3
<1>5. ASSUME NEW i \in 1..n
      PROVE  o[1] <= p[i] /\ p[i] <= o[n]
  <2>0. 1 \in 1..n /\ n \in 1..n /\ p[i] \in Int
    BY <1>5
  <2>1. o[1] <= p[i]
    <3> SUFFICES ASSUME p[i] < o[1]
                 PROVE  FALSE
      BY <1>2, <2>0
    <3>1. i \in Below(p, o[1])
      BY DEF Below
    <3>2. Cardinality(Below(p, o[1])) \in 0..n /\ Cardinality(Below(p, o[1])) # 0
      BY <1>3, <3>1, Counted
    <3>3. Cardinality(Below(p, o[1])) < 1
      BY <1>1, <2>0
    <3> QED BY <3>2, <3>3
  <2>2. p[i] <= o[n]
    <3> SUFFICES ASSUME o[n] < p[i]
                 PROVE  FALSE
      BY <1>2, <2>0
    <3>1. i \notin AtMost(p, o[n])
      BY <1>2, <2>0 DEF AtMost
    <3>2. Cardinality(AtMost(p, o[n])) \in 0..n /\ Cardinality(AtMost(p, o[n])) # n
      BY <1>3, <1>5, <3>1, Counted
    <3>3. Cardinality(AtMost(p, o[n])) >= n
      BY <1>1, <2>0
    <3> QED BY <3>2, <3>3
  <2> QED BY <2>1, <2>2
<1>6. o \in [1..n -> Int]
  BY <1>0, <1>2
<1>7. \A k, l \in 1..n : k <= l => o[k] <= o[l]
  BY <1>2, <1>4
<1> QED BY <1>5, <1>6, <1>7 DEF o

-----------------------------------------------------------------------------
\* A percentile lies between the values at the two places next to its position.
Lower(n, p) == ((n - 1) * p) \div 100
Upper(n, p) == IF Lower(n, p) + 1 < n THEN Lower(n, p) + 1 ELSE n - 1
Rest(n, p) == ((n - 1) * p) % 100
Rising(o, n) == \A k, l \in 1..n : k <= l => o[k] <= o[l]

LEMMA PositionIs ==
  ASSUME NEW n \in Nat \ {0}, NEW p \in 0..100
  PROVE  /\ Lower(n, p) \in 0..(n - 1) /\ Upper(n, p) \in 0..(n - 1) /\ Rest(n, p) \in 0..99
         /\ Lower(n, p) <= Upper(n, p) /\ Upper(n, p) <= Lower(n, p) + 1
         /\ (n - 1) * p = 100 * Lower(n, p) + Rest(n, p)
<1> DEFINE m == (n - 1) * p
           low == Lower(n, p)
           rest == Rest(n, p)
<1>1. m \in Nat /\ m <= 100 * (n - 1)
  <2> DEFINE k == n - 1
  <2>1. k \in Nat /\ p \in Nat /\ p <= 100
    OBVIOUS
  <2> HIDE DEF k
  <2>2. k * p \in Nat
    BY <2>1, Multiply
  <2>3. k * p <= 100 * k
    BY <2>1
  <2> QED BY <2>2, <2>3 DEF k
<1>2. low = m \div 100 /\ rest = m % 100
  BY DEF Lower, Rest
<1> HIDE DEF m, low, rest
<1>3. low \in Nat /\ rest \in 0..99 /\ m = 100 * low + rest
  BY <1>1, <1>2
<1>4. low <= n - 1
  BY <1>1, <1>3
<1>5. Upper(n, p) = IF low + 1 < n THEN low + 1 ELSE n - 1
  BY DEF Upper, low
<1>6. low \in 0..(n - 1) /\ Upper(n, p) \in 0..(n - 1) /\ low <= Upper(n, p) /\ Upper(n, p) <= low + 1
  BY <1>3, <1>4, <1>5
<1> QED BY <1>3, <1>6 DEF m, low, rest

LEMMA Between ==
  ASSUME NEW a \in Int, NEW b \in Int, a <= b, NEW r \in 0..100
  PROVE  /\ 100 * a + (b - a) * r \in Int
         /\ 100 * a <= 100 * a + (b - a) * r /\ 100 * a + (b - a) * r <= 100 * b
         /\ \A q \in r..100 : 100 * a + (b - a) * r <= 100 * a + (b - a) * q
<1> DEFINE d == b - a
<1>1. d \in Nat /\ b = a + d
  OBVIOUS
<1> HIDE DEF d
<1>2. \A q \in 0..100 : d * q \in Int /\ 0 <= d * q /\ d * q <= 100 * d
  BY <1>1
<1>3. ASSUME NEW q \in r..100
      PROVE  d * r <= d * q
  <2>1. r * d <= q * d
    BY <1>1, <1>3
  <2> QED BY <1>1, <2>1
<1>4. d * r \in Int /\ 0 <= d * r /\ d * r <= 100 * d
  BY <1>2
<1>5. /\ 100 * a + d * r \in Int
      /\ 100 * a <= 100 * a + d * r /\ 100 * a + d * r <= 100 * b
  <2> DEFINE x == d * r
  <2>1. x \in Int /\ 0 <= x /\ x <= 100 * d
    BY <1>4
  <2> HIDE DEF x
  <2>2. 100 * a + x \in Int /\ 100 * a <= 100 * a + x /\ 100 * a + x <= 100 * b
    BY <1>1, <2>1
  <2> QED BY <2>2 DEF x
<1>6. ASSUME NEW q \in r..100
      PROVE  100 * a + d * r <= 100 * a + d * q
  <2> DEFINE x == d * r
             y == d * q
  <2>1. x \in Int /\ y \in Int /\ x <= y
    BY <1>2, <1>3, <1>6
  <2> HIDE DEF x, y
  <2>2. 100 * a + x <= 100 * a + y
    BY <2>1
  <2> QED BY <2>2 DEF x, y
<1> QED BY <1>5, <1>6 DEF d

LEMMA PercentileIs ==
  ASSUME NEW n \in Nat \ {0}, NEW o \in [1..n -> Int], Rising(o, n), NEW p \in 0..100
  PROVE  /\ Replays!Percentile(o, p)
              = 100 * o[Lower(n, p) + 1] + (o[Upper(n, p) + 1] - o[Lower(n, p) + 1]) * Rest(n, p)
         /\ Replays!Percentile(o, p) \in Int
         /\ 100 * o[Lower(n, p) + 1] <= Replays!Percentile(o, p)
         /\ Replays!Percentile(o, p) <= 100 * o[Upper(n, p) + 1]
<1> DEFINE low == Lower(n, p)
           high == Upper(n, p)
           rest == Rest(n, p)
           v == Replays!Percentile(o, p)
<1>1. Len(o) = n
  BY SeqDef, LenProperties
<1>2. v = 100 * o[low + 1] + (o[high + 1] - o[low + 1]) * rest
  BY <1>1 DEF Replays!Percentile, Lower, Upper, Rest
<1>3. low \in 0..(n - 1) /\ high \in 0..(n - 1) /\ rest \in 0..99 /\ low <= high
  BY PositionIs
<1> HIDE DEF low, high, rest, v
<1>4. low + 1 \in 1..n /\ high + 1 \in 1..n /\ low + 1 <= high + 1 /\ rest \in 0..100
  BY <1>3
<1>5. o[low + 1] \in Int /\ o[high + 1] \in Int /\ o[low + 1] <= o[high + 1]
  BY <1>4 DEF Rising
<1>6. v \in Int /\ 100 * o[low + 1] <= v /\ v <= 100 * o[high + 1]
  <2> DEFINE a == o[low + 1]
             b == o[high + 1]
  <2>1. a \in Int /\ b \in Int /\ a <= b /\ rest \in 0..100 /\ v = 100 * a + (b - a) * rest
    BY <1>2, <1>4, <1>5
  <2> HIDE DEF a, b
  <2>2. /\ 100 * a + (b - a) * rest \in Int
        /\ 100 * a <= 100 * a + (b - a) * rest /\ 100 * a + (b - a) * rest <= 100 * b
    BY <2>1, Between
  <2>3. v \in Int /\ 100 * a <= v /\ v <= 100 * b
    BY <2>1, <2>2, Zenon
  <2> QED BY <2>3 DEF a, b
<1> QED BY <1>2, <1>6 DEF low, high, rest, v

LEMMA PercentileOrder ==
  ASSUME NEW n \in Nat \ {0}, NEW o \in [1..n -> Int], Rising(o, n), NEW p \in 0..100, NEW q \in 0..100, p <= q
  PROVE  Replays!Percentile(o, p) <= Replays!Percentile(o, q)
<1> DEFINE lp == Lower(n, p)
           up1 == Upper(n, p)
           rp == Rest(n, p)
           lq == Lower(n, q)
           uq == Upper(n, q)
           rq == Rest(n, q)
           v == Replays!Percentile(o, p)
           w == Replays!Percentile(o, q)
<1>1. /\ lp \in 0..(n - 1) /\ up1 \in 0..(n - 1) /\ rp \in 0..99 /\ up1 <= lp + 1
      /\ lq \in 0..(n - 1) /\ uq \in 0..(n - 1) /\ rq \in 0..99 /\ lq <= uq
      /\ (n - 1) * p = 100 * lp + rp /\ (n - 1) * q = 100 * lq + rq
  BY PositionIs
<1>2. (n - 1) * p <= (n - 1) * q
  <2>1. n - 1 \in Nat /\ p \in Nat /\ q \in Nat
    OBVIOUS
  <2> DEFINE k == n - 1
  <2> HIDE DEF k
  <2>2. k * p <= k * q
    BY <2>1 DEF k
  <2> QED BY <2>2 DEF k
<1>3. /\ v = 100 * o[lp + 1] + (o[up1 + 1] - o[lp + 1]) * rp /\ v \in Int /\ v <= 100 * o[up1 + 1]
      /\ w = 100 * o[lq + 1] + (o[uq + 1] - o[lq + 1]) * rq /\ w \in Int /\ 100 * o[lq + 1] <= w
  <2>1. \A k \in 0..100 :
          /\ Replays!Percentile(o, k)
               = 100 * o[Lower(n, k) + 1] + (o[Upper(n, k) + 1] - o[Lower(n, k) + 1]) * Rest(n, k)
          /\ Replays!Percentile(o, k) \in Int
          /\ 100 * o[Lower(n, k) + 1] <= Replays!Percentile(o, k)
          /\ Replays!Percentile(o, k) <= 100 * o[Upper(n, k) + 1]
    BY PercentileIs
  <2> QED BY <2>1
<1>4. lp = lq => up1 = uq
  BY DEF Upper
<1> HIDE DEF lp, up1, rp, lq, uq, rq, v, w
<1>5. 100 * lp + rp <= 100 * lq + rq
  BY <1>1, <1>2
<1>6. CASE lp < lq
  <2>1. up1 + 1 \in 1..n /\ lq + 1 \in 1..n /\ up1 + 1 <= lq + 1
    BY <1>1, <1>6
  <2>2. o[up1 + 1] \in Int /\ o[lq + 1] \in Int /\ o[up1 + 1] <= o[lq + 1]
    BY <2>1 DEF Rising
  <2> QED BY <1>3, <2>2 DEF v, w
<1>7. CASE lp = lq
  <2>1. rp \in 0..100 /\ rq \in rp..100
    BY <1>1, <1>5, <1>7
  <2>2. lq + 1 \in 1..n /\ uq + 1 \in 1..n /\ lq + 1 <= uq + 1
    BY <1>1
  <2>3. o[lq + 1] \in Int /\ o[uq + 1] \in Int /\ o[lq + 1] <= o[uq + 1]
    BY <2>2 DEF Rising
  <2>4. 100 * o[lq + 1] + (o[uq + 1] - o[lq + 1]) * rp <= 100 * o[lq + 1] + (o[uq + 1] - o[lq + 1]) * rq
    BY <2>1, <2>3, Between
  <2>5. v <= w
    BY <1>3, <1>4, <1>7, <2>4, Zenon
  <2> QED BY <2>5 DEF v, w
<1>8. lp < lq \/ lp = lq
  BY <1>1, <1>5
<1> QED BY <1>6, <1>7, <1>8

-----------------------------------------------------------------------------
\* Money, rounded.
LEMMA MoneyIs ==
  ASSUME NEW a \in Int, NEW d \in Nat \ {0}
  PROVE  /\ Replays!RoundMoney(a, d) \in Int /\ (a >= 0 => Replays!RoundMoney(a, d) >= 0)
         /\ Replays!RoundMoney(a, d) = Replays!Rounded(a, d * Cent) /\ d * Cent \in Nat \ {0}
<1> DEFINE u == d * Cent
<1>1. u \in Nat \ {0}
  <2>1. Cent \in Nat \ {0}
    BY Rates DEF Replays!RatesAssumption
  <2>2. u \in Nat /\ u # 0
    BY <2>1
  <2> QED BY <2>2
<1>2. Replays!RoundMoney(a, d) = Replays!Rounded(a, u)
  BY DEF Replays!RoundMoney
<1> HIDE DEF u
<1>3. Replays!Rounded(a, u) \in Int /\ (a >= 0 => Replays!Rounded(a, u) >= 0)
  BY <1>1, RoundedNear
<1> QED BY <1>1, <1>2, <1>3 DEF u

LEMMA MoneyOrder ==
  ASSUME NEW a \in Int, NEW d \in Nat \ {0}, NEW b \in Int, NEW e \in Nat \ {0}, a * e <= b * d
  PROVE  Replays!RoundMoney(a, d) <= Replays!RoundMoney(b, e)
<1>1. /\ Replays!RoundMoney(a, d) = Replays!Rounded(a, d * Cent) /\ d * Cent \in Nat \ {0}
      /\ Replays!RoundMoney(b, e) = Replays!Rounded(b, e * Cent) /\ e * Cent \in Nat \ {0}
  BY MoneyIs
<1>2. Cent \in Nat \ {0}
  BY Rates DEF Replays!RatesAssumption
<1>3. a * (e * Cent) <= b * (d * Cent)
  <2> DEFINE x == a * e
             y == b * d
  <2>1. x \in Int /\ y \in Int /\ x <= y
    OBVIOUS
  <2>2. a * (e * Cent) = x * Cent /\ b * (d * Cent) = y * Cent
    BY <1>2
  <2> HIDE DEF x, y
  <2>3. x * Cent <= y * Cent
    BY <1>2, <2>1, Cancel
  <2> QED BY <2>2, <2>3
<1> DEFINE u == d * Cent
           v == e * Cent
<1>4. u \in Nat \ {0} /\ v \in Nat \ {0} /\ a * v <= b * u
  BY <1>1, <1>3
<1> HIDE DEF u, v
<1>5. Replays!Rounded(a, u) <= Replays!Rounded(b, v)
  BY <1>4, RoundedOrder
<1> QED BY <1>1, <1>5 DEF u, v

LEMMA MoneyRises ==
  ASSUME NEW a \in Int, NEW b \in Int, a <= b
  PROVE  Replays!RoundMoney(a, 1) <= Replays!RoundMoney(b, 1)
<1>1. a * 1 <= b * 1 /\ 1 \in Nat \ {0}
  OBVIOUS
<1> QED BY <1>1, MoneyOrder

\* The share of rounded profits on either side of a rounded percentile.
Under(p, value) == {i \in DOMAIN p : Replays!RoundMoney(p[i], 1) < value}
Over(p, value) == {i \in DOMAIN p : Replays!RoundMoney(p[i], 1) > value}

SharesAt(n, p, r, value) ==
  /\ 100 * (Cardinality(Under(p, value)) - 1) <= r * (n - 1)
  /\ 100 * (Cardinality(Over(p, value)) - 1) <= (100 - r) * (n - 1)

LEMMA ProfitsAround ==
  ASSUME NEW n \in Nat \ {0}, NEW p \in [1..n -> Int], NEW r \in 0..100, NEW value,
         value = Replays!RoundMoney(Replays!Percentile(Replays!Ordered(p), r), 100)
  PROVE  SharesAt(n, p, r, value)
<1> DEFINE o == Replays!Ordered(p)
           v == Replays!Percentile(o, r)
           low == Lower(n, r)
           high == Upper(n, r)
           rest == Rest(n, r)
           Less == Under(p, value)
           More == Over(p, value)
<1>1. o \in [1..n -> Int] /\ Rising(o, n)
  BY OrderedRises DEF Rising
<1>2. \A k \in 1..n : Cardinality(Below(p, o[k])) < k /\ Cardinality(AtMost(p, o[k])) >= k
  BY OrderedIs
<1>3. v \in Int /\ 100 * o[low + 1] <= v /\ v <= 100 * o[high + 1]
  <2> HIDE DEF o
  <2> QED BY <1>1, PercentileIs
<1>4. /\ low \in 0..(n - 1) /\ high \in 0..(n - 1) /\ high <= low + 1 /\ rest \in 0..99
      /\ (n - 1) * r = 100 * low + rest
  BY PositionIs
<1>5. value = Replays!RoundMoney(v, 100)
  OBVIOUS
<1> HIDE DEF o, v, low, high, rest
<1>6. low + 1 \in 1..n /\ high + 1 \in 1..n
  BY <1>4
<1>7. o[low + 1] \in Int /\ o[high + 1] \in Int
  BY <1>1, <1>6
<1>8. \A i \in 1..n : /\ p[i] \in Int /\ Replays!RoundMoney(p[i], 1) \in Int
                      /\ v <= 100 * p[i] => value <= Replays!RoundMoney(p[i], 1)
                      /\ 100 * p[i] <= v => Replays!RoundMoney(p[i], 1) <= value
  <2> TAKE i \in 1..n
  <2>1. p[i] \in Int /\ 1 \in Nat \ {0} /\ 100 \in Nat \ {0} /\ v * 1 = v /\ p[i] * 100 = 100 * p[i]
    BY <1>3
  <2>2. Replays!RoundMoney(p[i], 1) \in Int
    BY <2>1, MoneyIs
  <2>3. ASSUME v <= 100 * p[i]
        PROVE  value <= Replays!RoundMoney(p[i], 1)
    <3>1. v * 1 <= p[i] * 100
      BY <2>1, <2>3
    <3> QED BY <1>3, <1>5, <2>1, <3>1, MoneyOrder
  <2>4. ASSUME 100 * p[i] <= v
        PROVE  Replays!RoundMoney(p[i], 1) <= value
    <3>1. p[i] * 100 <= v * 1
      BY <2>1, <2>4
    <3> QED BY <1>3, <1>5, <2>1, <3>1, MoneyOrder
  <2> QED BY <2>1, <2>2, <2>3, <2>4
<1>9. value \in Int
  BY <1>3, <1>5, MoneyIs
<1>10. Less \in SUBSET Below(p, o[high + 1])
  <2> SUFFICES ASSUME NEW i \in 1..n, Replays!RoundMoney(p[i], 1) < value
               PROVE  p[i] < o[high + 1]
    BY DEF Below, Under
  <2>1. ~(v <= 100 * p[i]) /\ p[i] \in Int
    BY <1>8, <1>9
  <2> QED BY <1>3, <1>7, <2>1
<1>11. More \in SUBSET ((1..n) \ AtMost(p, o[low + 1]))
  <2> SUFFICES ASSUME NEW i \in 1..n, Replays!RoundMoney(p[i], 1) > value
               PROVE  ~(p[i] <= o[low + 1])
    BY DEF AtMost, Over
  <2>1. ~(100 * p[i] <= v) /\ p[i] \in Int
    BY <1>8, <1>9
  <2> QED BY <1>3, <1>7, <2>1
<1> HIDE DEF Less, More
<1>12. Cardinality(Less) \in Nat /\ Cardinality(Less) <= low + 1
  <2> DEFINE B == Below(p, o[high + 1])
  <2>1. B \in SUBSET (1..n) /\ Less \in SUBSET B
    BY <1>10 DEF Below
  <2>2. Cardinality(B) < high + 1
    BY <1>2, <1>6
  <2> HIDE DEF B
  <2>3. Cardinality(B) \in 0..n /\ Cardinality(Less) \in Nat /\ Cardinality(Less) <= Cardinality(B)
    BY <2>1, Counted
  <2> QED BY <1>4, <2>2, <2>3
<1>13. Cardinality(More) \in Nat /\ Cardinality(More) <= n - (low + 1)
  <2> DEFINE A == AtMost(p, o[low + 1])
             I == 1..n
  <2>1. A \in SUBSET I /\ More \in SUBSET (I \ A) /\ IsFiniteSet(I) /\ Cardinality(I) = n /\ I = 1..n
    <3>1. A \in SUBSET I /\ More \in SUBSET (I \ A) /\ I = 1..n
      BY <1>11 DEF AtMost
    <3>2. IsFiniteSet(I) /\ Cardinality(I) = n
      <4>1. n >= 1 /\ 1 \in Int /\ n \in Int
        OBVIOUS
      <4> QED BY <3>1, <4>1, FS_Interval
    <3> QED BY <3>1, <3>2
  <2>2. Cardinality(A) >= low + 1
    BY <1>2, <1>6
  <2> HIDE DEF A, I
  <2>3. Cardinality(I \ A) = Cardinality(I) - Cardinality(I \cap A) /\ I \cap A = A
    BY <2>1, FS_Difference
  <2>4. Cardinality(A) \in 0..n
    BY <2>1, Counted
  <2>5. Cardinality(More) \in Nat /\ Cardinality(More) <= Cardinality(I \ A)
    <3>1. I \ A \in SUBSET (1..n)
      BY <2>1
    <3> QED BY <2>1, <3>1, Counted
  <2> QED
    <3>1. Cardinality(I \ A) = n - Cardinality(A)
      BY <2>1, <2>3
    <3>2. Cardinality(More) <= n - Cardinality(A)
      BY <2>5, <3>1
    <3>3. n \in Nat /\ Cardinality(More) \in Nat /\ Cardinality(A) \in Nat
      BY <2>4, <2>5
    <3> HIDE DEF More
    <3> QED BY <1>4, <2>2, <3>2, <3>3
<1>14. r * (n - 1) = 100 * low + rest /\ (100 - r) * (n - 1) = 100 * (n - 1) - (100 * low + rest)
  <2> DEFINE k == n - 1
  <2>1. k \in Int /\ r \in Int /\ k * r = 100 * low + rest
    BY <1>4
  <2> HIDE DEF k
  <2>2. r * k = k * r /\ (100 - r) * k = 100 * k - k * r
    BY <2>1
  <2> QED BY <2>1, <2>2 DEF k
<1>15. 100 * (Cardinality(Less) - 1) <= r * (n - 1) /\ 100 * (Cardinality(More) - 1) <= (100 - r) * (n - 1)
  <2> DEFINE c == Cardinality(Less)
             d == Cardinality(More)
             left == r * (n - 1)
             right == (100 - r) * (n - 1)
  <2>1. /\ c \in Nat /\ c <= low + 1 /\ d \in Nat /\ d <= n - (low + 1)
        /\ left = 100 * low + rest /\ right = 100 * (n - 1) - (100 * low + rest)
    BY <1>12, <1>13, <1>14
  <2> HIDE DEF c, d, left, right
  <2>2. 100 * (c - 1) <= left /\ 100 * (d - 1) <= right
    BY <1>4, <2>1
  <2> QED BY <2>2 DEF c, d, left, right
<1> QED BY <1>15 DEF SharesAt, Less, More

\* A sum of n results lies between n times any bounds on them.
LEMMA TotalBetween ==
  ASSUME NEW p \in Seq(Int), NEW lo \in Int, NEW hi \in Int, \A i \in 1..Len(p) : lo <= p[i] /\ p[i] <= hi
  PROVE  Len(p) * lo <= Replays!TotalOf(p) /\ Replays!TotalOf(p) <= Len(p) * hi
<1> DEFINE n == Len(p)
           e == Replays!Equity(p)
           P == {i \in 0..n : i * lo <= e[i] /\ e[i] <= i * hi}
<1>1. /\ n \in Nat /\ e \in [0..n -> Int] /\ e[0] = 0
      /\ \A i \in 1..n : p[i] \in Int /\ lo <= p[i] /\ p[i] <= hi /\ e[i] = e[i - 1] + p[i]
  BY EquityIs
<1>2. Replays!TotalOf(p) = e[n]
  BY DEF Replays!TotalOf
<1> HIDE DEF n, e
<1>3. 0 \in P
  BY <1>1
<1>4. ASSUME NEW i \in 1..n, i - 1 \in P
      PROVE  i \in P
  <2> DEFINE a == i * lo
             b == i * hi
             x == e[i - 1]
  <2>1. i \in 0..n /\ i - 1 \in 0..n /\ i \in Int
    BY <1>1
  <2>2. /\ (i - 1) * lo = a - lo /\ a \in Int
        /\ (i - 1) * hi = b - hi /\ b \in Int
    BY <2>1, Distribute
  <2>3. a - lo <= x /\ x <= b - hi /\ x \in Int
    BY <1>1, <1>4, <2>1, <2>2
  <2>4. p[i] \in Int /\ lo <= p[i] /\ p[i] <= hi /\ e[i] = x + p[i]
    BY <1>1
  <2> HIDE DEF a, b, x
  <2>5. a <= e[i] /\ e[i] <= b
    BY <2>2, <2>3, <2>4
  <2> QED BY <2>1, <2>5 DEF a, b
<1> HIDE DEF P
<1>5. 0..n \subseteq P
  BY <1>1, <1>3, <1>4, UpTo
<1>6. n \in 0..n
  BY <1>1
<1>7. n * lo <= e[n] /\ e[n] <= n * hi
  BY <1>5, <1>6 DEF P
<1> QED BY <1>2, <1>7 DEF n

\* Who ends with a loss has fallen by it from a peak of nothing.
LEMMA LossIsFall ==
  ASSUME NEW p \in Seq(Int)
  PROVE  0 - Replays!TotalOf(p) <= Replays!MaximumDrawdown(p)
<1> DEFINE n == Len(p)
           e == Replays!Equity(p)
           d == Replays!MaximumDrawdown(p)
<1>1. n \in Nat /\ e \in [0..n -> Int] /\ e[0] = 0
  BY EquityIs
<1>2. d \in Int /\ Deepest(e, n, d)
  BY PassIsRight
<1>3. Replays!TotalOf(p) = e[n]
  BY DEF Replays!TotalOf
<1> HIDE DEF n, e, d
<1>4. 0 \in 0..n /\ n \in 0..n /\ 0 <= n
  BY <1>1
<1>5. e[0] - e[n] <= d
  BY <1>2, <1>4 DEF Deepest
<1> QED BY <1>1, <1>3, <1>5 DEF d

\* Max of the values of a sequence.
LEMMA MaxIs ==
  ASSUME NEW n \in Nat \ {0}, NEW p \in [1..n -> Int]
  PROVE  /\ \E i \in 1..n : Replays!Max(Replays!Range(p)) = p[i]
         /\ \A i \in 1..n : p[i] <= Replays!Max(Replays!Range(p))
<1> DEFINE R == Replays!Range(p)
           I == 1..n
<1>1. I = 1..n /\ IsFiniteSet(I) /\ 1 \in I
  <2>1. 1 \in Int /\ n \in Int /\ 1 <= n
    OBVIOUS
  <2> QED BY <2>1, FS_Interval
<1>2. R = {p[i] : i \in I}
  BY DEF Replays!Range
<1> HIDE DEF I, R
<1>3. IntegersOn(p, I)
  BY <1>1 DEF IntegersOn
<1>4. PICK m \in I : \A i \in I : p[i] <= p[m]
  BY <1>1, <1>3, GreatestPlace
<1>5. \A x \in R : x \in Int /\ p[m] >= x
  BY <1>1, <1>2, <1>4
<1>6. p[m] \in R /\ p[m] \in Int
  BY <1>1, <1>2
<1>7. Replays!Max(R) = CHOOSE x \in R : \A y \in R : x >= y
  BY DEF Replays!Max
<1>8. Replays!Max(R) \in R /\ \A y \in R : Replays!Max(R) >= y
  BY <1>5, <1>6, <1>7
<1>9. Replays!Max(R) = p[m]
  BY <1>5, <1>6, <1>8
<1> QED BY <1>1, <1>4, <1>9 DEF R

\* The opposite of a rounded amount, and nothing, rounded.
LEMMA MoneyOpposite ==
  ASSUME NEW a \in Int
  PROVE  /\ Replays!RoundMoney(0 - a, 1) = 0 - Replays!RoundMoney(a, 1)
         /\ Replays!RoundMoney(0, 1) = 0
<1>1. 1 \in Nat \ {0} /\ 0 \in Int /\ 0 - a \in Int
  OBVIOUS
<1>2. 1 * Cent \in Nat \ {0}
  BY <1>1, MoneyIs
<1>3. /\ Replays!RoundMoney(0 - a, 1) = Replays!Rounded(0 - a, 1 * Cent)
      /\ Replays!RoundMoney(a, 1) = Replays!Rounded(a, 1 * Cent)
      /\ Replays!RoundMoney(0, 1) = Replays!Rounded(0, 1 * Cent)
  BY DEF Replays!RoundMoney
<1> QED BY <1>2, <1>3, RoundedOpposite, RoundedZero

\* A rate of everything is one; a rate of something is not rounded to nothing, as long as
\* there are fewer than twenty thousand.
LEMMA WholeRate == ASSUME NEW n \in Nat \ {0} PROVE Replays!Rate(n, n) = Replays!Whole
<1> DEFINE x == Replays!Rate(n, n)
           W == Replays!Whole
           y == x * n
           z == W * n
<1>1. x \in 0..W /\ W \in Nat /\ Near(x, n, n)
  BY RateIs, WholeType
<1>2. Within(y - z, n)
  BY <1>1 DEF Near
<1> HIDE DEF x, W
<1> SUFFICES ASSUME x <= W - 1
             PROVE  FALSE
  BY <1>1 DEF x, W
<1>3. x \in Int /\ W - 1 \in Int /\ (W - 1) * n = z - n /\ z \in Int
  BY <1>1, Distribute
<1>4. y <= (W - 1) * n /\ y \in Int
  BY <1>3, Cancel
<1> HIDE DEF y, z
<1> QED BY <1>2, <1>3, <1>4 DEF Within

Few(n) == n < 20000

LEMMA NoRate ==
  ASSUME NEW n \in Nat \ {0}, Few(n), NEW c \in 0..n, Replays!Rate(c, n) = 0
  PROVE  c = 0
<1>1. Near(0, c, n)
  BY RateIs
<1>2. Within(0 * n - 10000 * c, n)
  BY <1>1 DEF Near, Replays!Whole
<1>3. 0 * n = 0
  OBVIOUS
<1>4. 2 * (0 - 10000 * c) >= 0 - n
  BY <1>2, <1>3 DEF Within
<1> QED BY <1>4 DEF Few

\* A sample is a list of results, none above the best.
LEMMA GainsType == ASSUME NEW pnls \in Seq(Int), pnls # <<>> PROVE Gains(pnls) \in Int
<1> DEFINE n == Len(pnls)
           m == Replays!Max(Replays!Range(pnls))
<1>1. n \in Nat \ {0} /\ pnls \in [1..n -> Int]
  BY SeqDef, LenProperties, EmptySeq
<1>2. m \in Int
  <2> HIDE DEF n, m
  <2>1. PICK i \in 1..n : m = pnls[i]
    BY <1>1, MaxIs DEF m
  <2> QED BY <1>1, <2>1
<1> HIDE DEF n, m
<1>3. n * m \in Int
  BY <1>1, <1>2
<1> QED BY <1>3 DEF Gains, n, m

LEMMA PnlsAreWhole == ASSUME NEW pnls \in Seq(Pnls) PROVE pnls \in Seq(Int)
<1>1. pnls \in [1..Len(pnls) -> Pnls] /\ Len(pnls) \in Nat
  BY LenProperties
<1>2. Pnls \subseteq Int
  BY Rates DEF Replays!RatesAssumption
<1>3. pnls \in [1..Len(pnls) -> Int]
  BY <1>1, <1>2
<1> QED BY <1>1, <1>3, SeqDef

LEMMA SampleIs ==
  ASSUME NEW pnls \in Seq(Int), pnls # <<>>, NEW sample \in [DOMAIN pnls -> Replays!Range(pnls)]
  PROVE  /\ sample \in Seq(Int) /\ Replays!TotalOf(sample) <= Gains(pnls)
         /\ 0 - Replays!TotalOf(sample) <= Replays!MaximumDrawdown(sample)
<1> DEFINE n == Len(pnls)
           R == Replays!Range(pnls)
           m == Replays!Max(R)
<1>1. n \in Nat \ {0} /\ pnls \in [1..n -> Int] /\ DOMAIN pnls = 1..n
  BY SeqDef, LenProperties, EmptySeq
<1>2. R = {pnls[i] : i \in 1..n}
  BY <1>1 DEF Replays!Range
<1> HIDE DEF n
<1>3. (\E i \in 1..n : m = pnls[i]) /\ \A i \in 1..n : pnls[i] <= m
  BY <1>1, MaxIs
<1> HIDE DEF R, m
<1>4. m \in Int /\ R \subseteq Int /\ \A x \in R : x <= m
  BY <1>1, <1>2, <1>3
<1>5. sample \in [1..n -> R]
  BY <1>1 DEF R
<1>6. \E x \in Int : \A i \in 1..n : sample[i] \in Int /\ x <= sample[i] /\ sample[i] <= m
  <2>1. \A i \in 1..n : sample[i] \in Int /\ sample[i] <= m
    BY <1>4, <1>5
  <2>2. IsFiniteSet(1..n) /\ 1..n # {}
    <3>1. 1 \in Int /\ n \in Int /\ 1 \in 1..n
      BY <1>1
    <3> QED BY <3>1, FS_Interval
  <2>3. IntegersOn(sample, 1..n)
    BY <2>1 DEF IntegersOn
  <2>4. PICK k \in 1..n : \A i \in 1..n : sample[k] <= sample[i]
    <3> DEFINE I == 1..n
    <3>1. IsFiniteSet(I) /\ I # {} /\ IntegersOn(sample, I)
      BY <2>2, <2>3
    <3> HIDE DEF I
    <3>2. \E k \in I : \A i \in I : sample[k] <= sample[i]
      BY <3>1, LeastPlace
    <3> QED BY <3>2 DEF I
  <2> QED BY <2>1, <2>4
<1>7. sample \in Seq(Int) /\ Len(sample) = n
  <2>1. sample \in [1..n -> Int] /\ n \in Nat
    BY <1>1, <1>4, <1>5
  <2> QED BY <2>1, SeqDef, LenProperties
<1>8. Replays!TotalOf(sample) <= n * m
  BY <1>4, <1>6, <1>7, TotalBetween
<1>9. 0 - Replays!TotalOf(sample) <= Replays!MaximumDrawdown(sample)
  BY <1>7, LossIsFall
<1> QED BY <1>7, <1>8, <1>9 DEF Gains, n, m, R

LEMMA ShareIs ==
  ASSUME NEW n \in Nat \ {0}, job.simulations = n, NEW p, p = job.profits, p \in [1..n -> Int],
         NEW r \in 0..100, NEW value, value = Replays!RoundMoney(Replays!Percentile(Replays!Ordered(p), r), 100)
  PROVE  Replays!ShareBelow(value, r)
<1> DEFINE Less == {i \in 1..n : Replays!RoundMoney(job.profits[i], 1) < value}
           More == {i \in 1..n : Replays!RoundMoney(job.profits[i], 1) > value}
<1>1. SharesAt(n, p, r, value)
  BY ProfitsAround
<1>2. Replays!Cardinality(Less) = Cardinality(Less) /\ Replays!Cardinality(More) = Cardinality(More)
  BY SameCount
<1>3. Replays!ShareBelow(value, r)
        <=> /\ 100 * (Replays!Cardinality(Less) - 1) <= r * (n - 1)
            /\ 100 * (Replays!Cardinality(More) - 1) <= (100 - r) * (n - 1)
  BY DEF Replays!ShareBelow
<1>4. Under(p, value) = Less /\ Over(p, value) = More
  BY DEF Under, Over
<1> HIDE DEF Less, More
<1> QED BY <1>1, <1>2, <1>3, <1>4 DEF SharesAt

\* The results of a bootstrap, each against the least and the greatest profit.
LEMMA ProfitsAre ==
  ASSUME NEW n \in Nat \ {0}, NEW p \in [1..n -> Int]
  PROVE  LET o == Replays!Ordered(p)
             worst == Replays!RoundMoney(o[1], 1)
             best == Replays!RoundMoney(o[n], 1)
             average == Replays!RoundMoney(Replays!TotalOf(p), n)
             At(r) == Replays!RoundMoney(Replays!Percentile(o, r), 100)
         IN /\ worst \in Int /\ best \in Int /\ average \in Int /\ worst <= average /\ average <= best
            /\ \A r \in 0..100 : At(r) \in Int /\ worst <= At(r) /\ At(r) <= best
            /\ \A r, q \in 0..100 : r <= q => At(r) <= At(q)
<1> DEFINE o == Replays!Ordered(p)
           worst == Replays!RoundMoney(o[1], 1)
           best == Replays!RoundMoney(o[n], 1)
           total == Replays!TotalOf(p)
           average == Replays!RoundMoney(total, n)
           v(r) == Replays!Percentile(o, r)
           At(r) == Replays!RoundMoney(v(r), 100)
<1>1. o \in [1..n -> Int] /\ Rising(o, n) /\ \A i \in 1..n : o[1] <= p[i] /\ p[i] <= o[n]
  BY OrderedRises DEF Rising
<1> HIDE DEF o
<1>2. 1 \in 1..n /\ n \in 1..n /\ 1 \in Nat \ {0} /\ 100 \in Nat \ {0} /\ o[1] \in Int /\ o[n] \in Int
  BY <1>1
<1>3. worst \in Int /\ best \in Int
  BY <1>2, MoneyIs
<1>4. total \in Int /\ n * o[1] <= total /\ total <= n * o[n]
  <2>1. p \in Seq(Int) /\ Len(p) = n
    BY SeqDef, LenProperties
  <2>2. total \in Int
    BY <2>1, TotalOfType
  <2>3. \A i \in 1..Len(p) : o[1] <= p[i] /\ p[i] <= o[n]
    BY <1>1, <2>1
  <2>4. Len(p) * o[1] <= total /\ total <= Len(p) * o[n]
    BY <1>2, <2>1, <2>3, TotalBetween
  <2> QED BY <2>1, <2>2, <2>4
<1> HIDE DEF total
<1>5. average \in Int /\ worst <= average /\ average <= best
  <2>1. average \in Int
    BY <1>4, MoneyIs
  <2>2. o[1] * n <= total * 1 /\ total * 1 <= o[n] * n
    <3>1. o[1] * n = n * o[1] /\ o[n] * n = n * o[n] /\ total * 1 = total
      BY <1>2, <1>4
    <3> QED BY <1>4, <3>1
  <2>3. worst <= average
    BY <1>2, <1>4, <2>2, MoneyOrder
  <2>4. average <= best
    BY <1>2, <1>4, <2>2, MoneyOrder
  <2> QED BY <2>1, <2>3, <2>4
<1>6. ASSUME NEW r \in 0..100
      PROVE  v(r) \in Int /\ 100 * o[1] <= v(r) /\ v(r) <= 100 * o[n]
  <2> DEFINE low == Lower(n, r)
             high == Upper(n, r)
  <2>1. low \in 0..(n - 1) /\ high \in 0..(n - 1)
    BY PositionIs
  <2>2. v(r) \in Int /\ 100 * o[low + 1] <= v(r) /\ v(r) <= 100 * o[high + 1]
    BY <1>1, PercentileIs
  <2> HIDE DEF low, high, v
  <2>3. low + 1 \in 1..n /\ high + 1 \in 1..n /\ 1 <= low + 1 /\ high + 1 <= n
    BY <2>1
  <2>4. /\ o[1] <= o[low + 1] /\ o[high + 1] <= o[n]
        /\ o[low + 1] \in Int /\ o[high + 1] \in Int
    BY <1>1, <1>2, <2>3 DEF Rising
  <2> DEFINE x == v(r)
             a == o[1]
             b == o[n]
             c == o[low + 1]
             e == o[high + 1]
  <2>5. /\ x \in Int /\ a \in Int /\ b \in Int /\ c \in Int /\ e \in Int
        /\ 100 * c <= x /\ x <= 100 * e /\ a <= c /\ e <= b
    BY <1>2, <2>2, <2>4
  <2> HIDE DEF x, a, b, c, e
  <2>6. x \in Int /\ 100 * a <= x /\ x <= 100 * b
    BY <2>5
  <2> QED BY <2>6 DEF x, a, b
<1>7. ASSUME NEW r \in 0..100
      PROVE  At(r) \in Int /\ worst <= At(r) /\ At(r) <= best
  <2> DEFINE x == v(r)
  <2>1. x \in Int /\ 100 * o[1] <= x /\ x <= 100 * o[n]
    BY <1>6
  <2> HIDE DEF x
  <2>2. o[1] * 100 <= x * 1 /\ x * 1 <= o[n] * 100
    BY <1>2, <2>1
  <2>3. worst <= Replays!RoundMoney(x, 100) /\ Replays!RoundMoney(x, 100) <= best
    BY <1>2, <2>1, <2>2, MoneyOrder
  <2>4. Replays!RoundMoney(x, 100) \in Int
    BY <1>2, <2>1, MoneyIs
  <2> QED BY <2>3, <2>4 DEF x
<1>8. ASSUME NEW r \in 0..100, NEW q \in 0..100, r <= q
      PROVE  At(r) <= At(q)
  <2> DEFINE x == v(r)
             y == v(q)
  <2>1. x \in Int /\ y \in Int
    BY <1>6
  <2>2. x <= y
    BY <1>1, <1>8, PercentileOrder
  <2> HIDE DEF x, y
  <2>3. x * 100 <= y * 100
    BY <2>1, <2>2
  <2>4. Replays!RoundMoney(x, 100) <= Replays!RoundMoney(y, 100)
    BY <1>2, <2>1, <2>3, MoneyOrder
  <2> QED BY <2>4 DEF x, y
<1> QED BY <1>3, <1>5, <1>7, <1>8 DEF o, total

\* The average of falls that are not negative lies between nothing and the deepest.
LEMMA FallsAre ==
  ASSUME NEW n \in Nat \ {0}, NEW p \in [1..n -> Nat]
  PROVE  LET worst == Replays!RoundMoney(Replays!Max(Replays!Range(p)), 1)
             average == Replays!RoundMoney(Replays!TotalOf(p), n)
         IN worst \in Int /\ average \in Int /\ 0 <= average /\ average <= worst
<1> DEFINE m == Replays!Max(Replays!Range(p))
           total == Replays!TotalOf(p)
<1>1. p \in [1..n -> Int] /\ \A i \in 1..n : p[i] \in Nat
  OBVIOUS
<1>2. (\E i \in 1..n : m = p[i]) /\ \A i \in 1..n : p[i] <= m
  BY <1>1, MaxIs
<1> HIDE DEF m
<1>3. m \in Nat
  BY <1>1, <1>2
<1>4. p \in Seq(Int) /\ Len(p) = n
  BY <1>1, SeqDef, LenProperties
<1>5. total \in Int
  BY <1>4, TotalOfType
<1>6. n * 0 <= total /\ total <= n * m
  <2>1. \A i \in 1..Len(p) : 0 <= p[i] /\ p[i] <= m
    BY <1>1, <1>2, <1>4
  <2>2. Len(p) * 0 <= total /\ total <= Len(p) * m
    <3> DEFINE none == 0
    <3>1. none \in Int /\ m \in Int /\ \A i \in 1..Len(p) : none <= p[i] /\ p[i] <= m
      BY <1>3, <2>1
    <3> HIDE DEF none, total
    <3>2. Len(p) * none <= Replays!TotalOf(p) /\ Replays!TotalOf(p) <= Len(p) * m
      BY <1>4, <3>1, TotalBetween
    <3> QED BY <3>2 DEF none, total
  <2> QED BY <1>4, <2>2
<1> HIDE DEF total
<1>7. 0 <= total /\ total * 1 <= m * n /\ 1 \in Nat \ {0}
  <2>1. n * 0 = 0 /\ n * m = m * n /\ total * 1 = total
    BY <1>3, <1>5
  <2> QED BY <1>6, <2>1
<1>8. Replays!RoundMoney(total, n) \in Int /\ 0 <= Replays!RoundMoney(total, n)
  <2>1. Replays!RoundMoney(total, n) \in Int /\ Replays!RoundMoney(total, n) >= 0
    BY <1>5, <1>7, MoneyIs
  <2> QED BY <2>1
<1>9. Replays!RoundMoney(m, 1) \in Int
  BY <1>3, <1>7, MoneyIs
<1>10. Replays!RoundMoney(total, n) <= Replays!RoundMoney(m, 1)
  BY <1>3, <1>5, <1>7, MoneyOrder
<1> QED BY <1>8, <1>9, <1>10 DEF m, total

\* The worst profit is made up for by the deepest fall, and the best is within its bound.
LEMMA WorstIsFall ==
  ASSUME NEW n \in Nat \ {0}, NEW p \in [1..n -> Int], NEW d \in [1..n -> Nat],
         \A i \in 1..n : 0 - p[i] <= d[i]
  PROVE  Replays!RoundMoney(Replays!Ordered(p)[1], 1) + Replays!RoundMoney(Replays!Max(Replays!Range(d)), 1) >= 0
<1> DEFINE a == Replays!Ordered(p)[1]
           m == Replays!Max(Replays!Range(d))
           x == Replays!RoundMoney(a, 1)
           y == Replays!RoundMoney(m, 1)
<1>1. d \in [1..n -> Int] /\ 1 \in 1..n /\ \A i \in 1..n : d[i] \in Nat /\ p[i] \in Int
  OBVIOUS
<1>2. (\E i \in 1..n : m = d[i]) /\ \A i \in 1..n : d[i] <= m
  BY <1>1, MaxIs
<1>3. PICK i \in 1..n : a = p[i]
  BY <1>1, OrderedIs
<1> HIDE DEF a, m
<1>4. a \in Int /\ m \in Int /\ 0 - a \in Int /\ 0 - a <= m
  <2>1. m \in Int /\ a \in Int
    BY <1>1, <1>2, <1>3
  <2>2. 0 - p[i] <= d[i] /\ d[i] <= m /\ d[i] \in Int
    BY <1>1, <1>2
  <2> QED BY <1>3, <2>1, <2>2
<1>5. Replays!RoundMoney(0 - a, 1) <= y
  BY <1>4, MoneyRises
<1>6. Replays!RoundMoney(0 - a, 1) = 0 - x
  BY <1>4, MoneyOpposite
<1>7. x \in Int /\ y \in Int
  <2>1. 1 \in Nat \ {0}
    OBVIOUS
  <2> QED BY <1>4, <2>1, MoneyIs
<1> HIDE DEF x, y
<1>8. x + y >= 0
  BY <1>5, <1>6, <1>7
<1> QED BY <1>8 DEF x, y, a, m

LEMMA BestIsBounded ==
  ASSUME NEW n \in Nat \ {0}, NEW p \in [1..n -> Int], NEW b \in Int, \A i \in 1..n : p[i] <= b
  PROVE  Replays!RoundMoney(Replays!Ordered(p)[n], 1) <= Replays!RoundMoney(b, 1)
<1> DEFINE a == Replays!Ordered(p)[n]
<1>1. n \in 1..n
  OBVIOUS
<1>2. PICK i \in 1..n : a = p[i]
  BY <1>1, OrderedIs
<1> HIDE DEF a
<1>3. a \in Int /\ a <= b
  BY <1>2
<1>4. Replays!RoundMoney(a, 1) <= Replays!RoundMoney(b, 1)
  BY <1>3, MoneyRises
<1> QED BY <1>4 DEF a

\* The probability of a profit: one when the worst is a profit, and nothing only when the
\* best is none.
LEMMA ProbabilityIs ==
  ASSUME NEW n \in Nat \ {0}, Few(n), NEW p \in [1..n -> Int]
  PROVE  LET rate == Replays!Rate(Replays!Cardinality(Replays!Wins(p)), n)
         IN /\ rate \in 0..Replays!Whole
            /\ Replays!RoundMoney(Replays!Ordered(p)[1], 1) > 0 => rate = Replays!Whole
            /\ rate = 0 => Replays!RoundMoney(Replays!Ordered(p)[n], 1) <= 0
<1> DEFINE W == Replays!Wins(p)
           o == Replays!Ordered(p)
           c == Replays!Cardinality(W)
<1>1. W = {i \in 1..n : p[i] > 0} /\ \A i \in 1..n : p[i] \in Int
  BY DEF Replays!Wins
<1>2. c = Cardinality(W)
  BY SameCount
<1>3. /\ 1 \in 1..n /\ n \in 1..n
      /\ \A i \in 1..n : o[1] <= p[i] /\ p[i] <= o[n] /\ o[i] \in Int
      /\ \E i \in 1..n : o[n] = p[i]
  <2>1. 1 \in 1..n /\ n \in 1..n /\ n \in Nat
    OBVIOUS
  <2>2. o \in [1..n -> Int] /\ \A i \in 1..n : o[1] <= p[i] /\ p[i] <= o[n]
    BY <2>1, OrderedRises
  <2>3. \A k \in 1..n : \E i \in 1..n : o[k] = p[i]
    BY <2>1, OrderedIs
  <2> HIDE DEF o
  <2>4. \E i \in 1..n : o[n] = p[i]
    BY <2>1, <2>3
  <2>5. \A i \in 1..n : o[i] \in Int
    BY <2>2
  <2> QED BY <2>1, <2>2, <2>4, <2>5
<1> HIDE DEF W, o
<1>4. c \in 0..n /\ (c = 0 <=> W = {}) /\ (c = n <=> W = 1..n)
  <2>1. W \in SUBSET (1..n) /\ n \in Nat
    BY <1>1
  <2> QED BY <1>2, <2>1, Counted
<1> HIDE DEF c
<1>5. Replays!Rate(c, n) \in 0..Replays!Whole
  <2>1. n \in Nat
    OBVIOUS
  <2>2. \A k \in 0..n : Replays!Rate(k, n) \in 0..Replays!Whole
    BY <2>1, RateIs
  <2>3. c \in 0..n
    BY <1>4
  <2> QED BY <2>2, <2>3
<1>6. Replays!RoundMoney(0, 1) = 0
  BY MoneyOpposite
<1>7. o[1] \in Int /\ o[n] \in Int /\ Replays!RoundMoney(o[1], 1) \in Int /\ Replays!RoundMoney(o[n], 1) \in Int
  <2> DEFINE a == o[1]
             b == o[n]
  <2>1. a \in Int /\ b \in Int /\ 1 \in Nat \ {0}
    BY <1>3
  <2> HIDE DEF a, b
  <2>2. Replays!RoundMoney(a, 1) \in Int
    BY <2>1, MoneyIs
  <2>3. Replays!RoundMoney(b, 1) \in Int
    BY <2>1, MoneyIs
  <2> QED BY <2>1, <2>2, <2>3 DEF a, b
<1>8. ASSUME Replays!RoundMoney(o[1], 1) > 0
      PROVE  Replays!Rate(c, n) = Replays!Whole
  <2>1. o[1] > 0
    <3> SUFFICES ASSUME o[1] <= 0
                 PROVE  FALSE
      BY <1>7
    <3>1. Replays!RoundMoney(o[1], 1) <= Replays!RoundMoney(0, 1)
      BY <1>7, MoneyRises
    <3> QED BY <1>6, <1>7, <1>8, <3>1
  <2>2. W = 1..n
    BY <1>1, <1>3, <1>7, <2>1
  <2>3. c = n
    BY <1>4, <2>2
  <2> QED BY <2>3, WholeRate
<1>9. ASSUME Replays!Rate(c, n) = 0
      PROVE  Replays!RoundMoney(o[n], 1) <= 0
  <2>1. c = 0
    BY <1>4, <1>9, NoRate
  <2>2. W = {}
    BY <1>4, <2>1
  <2>3. o[n] <= 0
    BY <1>1, <1>3, <2>2
  <2>4. Replays!RoundMoney(o[n], 1) <= Replays!RoundMoney(0, 1)
    BY <1>7, <2>3, MoneyRises
  <2> QED BY <1>6, <2>4
<1> QED BY <1>5, <1>8, <1>9 DEF W, o, c

\* A bootstrap that ended.
LEMMA BootstrapsRight ==
  ASSUME Few(MaxSimulations), Drawn(job), job.step = "done", job.profits # <<>>
  PROVE  LET r == Replays!BootstrapResult(job.profits, job.drawdowns) IN
         /\ Len(job.profits) = job.simulations
         /\ Replays!ResultValid(r) /\ ~Replays!Legacy(r)
         /\ r.worst + r.worst_drawdown >= 0
         /\ Replays!ShareBelow(r.p5, 5) /\ Replays!ShareBelow(r.median, 50) /\ Replays!ShareBelow(r.p95, 95)
         /\ r.best <= Replays!RoundMoney(Len(job.pnls) * Replays!Max(Replays!Range(job.pnls)), 1)
         /\ r.worst > 0 => r.probability = Replays!Whole
<1> DEFINE p == job.profits
           d == job.drawdowns
           n == Len(p)
           o == Replays!Ordered(p)
           At(k) == Replays!RoundMoney(Replays!Percentile(o, k), 100)
           average == Replays!RoundMoney(Replays!TotalOf(p), n)
           best == Replays!RoundMoney(o[n], 1)
           worst == Replays!RoundMoney(o[1], 1)
           probability == Replays!Rate(Replays!Cardinality(Replays!Wins(p)), n)
           fall == Replays!RoundMoney(Replays!TotalOf(d), n)
           deepest == Replays!RoundMoney(Replays!Max(Replays!Range(d)), 1)
           bound == Len(job.pnls) * Replays!Max(Replays!Range(job.pnls))
           middle == At(50)
           low == At(5)
           high == At(95)
           r == Replays!BootstrapResult(p, d)
<1>1. /\ p \in Seq(Int) /\ d \in Seq(Nat) /\ Len(d) = Len(p) /\ job.simulations = n
      /\ job.pnls \in Seq(Pnls) /\ job.simulations <= MaxSimulations
      /\ \A i \in DOMAIN p : 0 - p[i] <= d[i] /\ p[i] <= Gains(job.pnls)
  BY DEF Drawn, Bootstraps
<1>2. n \in Nat \ {0} /\ Few(n) /\ p \in [1..n -> Int] /\ d \in [1..n -> Nat]
  <2>1. n \in Nat \ {0} /\ p \in [1..n -> Int]
    BY <1>1, EmptySeq, SeqDef, LenProperties
  <2>2. d \in [1..n -> Nat]
    BY <1>1, SeqDef, LenProperties
  <2>3. MaxSimulations \in Nat
    BY Rates DEF Replays!RatesAssumption
  <2>4. Few(n)
    BY <1>1, <2>1, <2>3 DEF Few
  <2> QED BY <2>1, <2>2, <2>4
<1>3. \A i \in 1..n : 0 - p[i] <= d[i] /\ p[i] <= Gains(job.pnls)
  BY <1>1, <1>2
<1>4. r = [average |-> average, best |-> best, worst |-> worst, median |-> middle, p5 |-> low, p95 |-> high,
           probability |-> probability, average_drawdown |-> fall, worst_drawdown |-> deepest]
  BY DEF Replays!BootstrapResult
<1>5. Replays!ShareBelow(low, 5) /\ Replays!ShareBelow(middle, 50) /\ Replays!ShareBelow(high, 95)
  <2>1. n \in Nat \ {0} /\ job.simulations = n /\ p = job.profits /\ p \in [1..n -> Int]
    BY <1>1, <1>2
  <2>2. 5 \in 0..100 /\ 50 \in 0..100 /\ 95 \in 0..100
    OBVIOUS
  <2>3. /\ low = Replays!RoundMoney(Replays!Percentile(Replays!Ordered(p), 5), 100)
        /\ middle = Replays!RoundMoney(Replays!Percentile(Replays!Ordered(p), 50), 100)
        /\ high = Replays!RoundMoney(Replays!Percentile(Replays!Ordered(p), 95), 100)
    OBVIOUS
  <2> HIDE DEF n, p, o, At, low, middle, high
  <2>4. Replays!ShareBelow(low, 5)
    BY <2>1, <2>2, <2>3, ShareIs
  <2>5. Replays!ShareBelow(middle, 50)
    BY <2>1, <2>2, <2>3, ShareIs
  <2>6. Replays!ShareBelow(high, 95)
    BY <2>1, <2>2, <2>3, ShareIs
  <2> QED BY <2>4, <2>5, <2>6
<1>6. /\ worst \in Int /\ best \in Int /\ average \in Int /\ worst <= average /\ average <= best
      /\ \A k \in 0..100 : At(k) \in Int /\ worst <= At(k) /\ At(k) <= best
      /\ \A k, q \in 0..100 : k <= q => At(k) <= At(q)
  <2> HIDE DEF n, p
  <2> QED BY <1>2, ProfitsAre
<1>7. /\ middle \in Int /\ low \in Int /\ high \in Int /\ low <= high
      /\ worst <= middle /\ middle <= best /\ worst <= low /\ low <= best /\ worst <= high /\ high <= best
  <2>1. 5 \in 0..100 /\ 50 \in 0..100 /\ 95 \in 0..100 /\ 5 <= 95
    OBVIOUS
  <2> HIDE DEF worst, best, o, At
  <2>2. At(5) \in Int /\ worst <= At(5) /\ At(5) <= best
    BY <1>6, <2>1
  <2>3. At(50) \in Int /\ worst <= At(50) /\ At(50) <= best
    BY <1>6, <2>1
  <2>4. At(95) \in Int /\ worst <= At(95) /\ At(95) <= best
    BY <1>6, <2>1
  <2>5. At(5) <= At(95)
    BY <1>6, <2>1
  <2> QED BY <2>2, <2>3, <2>4, <2>5
<1>8. deepest \in Int /\ fall \in Int /\ 0 <= fall /\ fall <= deepest
  <2> HIDE DEF n, d
  <2> QED BY <1>2, FallsAre
<1>9. worst + deepest >= 0
  <2> HIDE DEF n, d, p
  <2>1. \A i \in 1..n : 0 - p[i] <= d[i]
    BY <1>3
  <2>2. /\ n \in Nat \ {0} /\ p \in [1..n -> Int] /\ d \in [1..n -> Nat]
    BY <1>2
  <2> QED BY <2>1, <2>2, WorstIsFall
<1>10. best <= Replays!RoundMoney(bound, 1)
  <2>1. job.pnls # <<>>
    BY <1>1, <1>2 DEF Drawn
  <2>2. job.pnls \in Seq(Int)
    BY <1>1, PnlsAreWhole
  <2>3. bound = Gains(job.pnls)
    BY DEF Gains
  <2> DEFINE pnls == job.pnls
  <2>4. pnls \in Seq(Int) /\ pnls # <<>>
    BY <2>1, <2>2
  <2> HIDE DEF n, p, bound, pnls
  <2>5. Gains(pnls) \in Int
    BY <2>4, GainsType
  <2>6. bound \in Int /\ \A i \in 1..n : p[i] <= bound
    BY <1>3, <2>3, <2>5 DEF pnls
  <2> QED BY <1>2, <2>6, BestIsBounded
<1>11. /\ probability \in 0..Replays!Whole
       /\ worst > 0 => probability = Replays!Whole
       /\ probability = 0 => best <= 0
  <2> HIDE DEF n, p
  <2> QED BY <1>2, ProbabilityIs
<1> HIDE DEF p, d, n, o, At, average, best, worst, probability, fall, deepest, bound, middle, low, high, r
<1>12. Replays!ResultValid(r)
  BY <1>4, <1>6, <1>7, <1>8, <1>11 DEF Replays!ResultValid
<1>13. ~Replays!Legacy(r)
  <2> SUFFICES ASSUME probability = 0, deepest = 0, {average, best, worst} # {0}
               PROVE  FALSE
    <3>1. Replays!Legacy(r)
            <=> /\ {middle, probability, low, high, fall, deepest} = {0}
                /\ {average, best, worst} # {0}
      BY <1>4 DEF Replays!Legacy
    <3>2. ASSUME NEW a, NEW b, NEW c, NEW e, NEW f, NEW g, {a, b, c, e, f, g} = {0}
          PROVE  b = 0 /\ g = 0
      <4> DEFINE S == {a, b, c, e, f, g}
      <4>1. b \in S /\ g \in S
        OBVIOUS
      <4>2. S = {0}
        BY <3>2
      <4> HIDE DEF S
      <4> QED BY <4>1, <4>2
    <3>3. {middle, probability, low, high, fall, deepest} = {0} => probability = 0 /\ deepest = 0
      BY <3>2
    <3> QED BY <3>1, <3>3
  <2>1. best <= 0 /\ worst >= 0
    BY <1>6, <1>9, <1>11
  <2>2. worst \in Int /\ best \in Int /\ average \in Int /\ worst <= average /\ average <= best
    BY <1>6
  <2>3. average = 0 /\ best = 0 /\ worst = 0
    BY <2>1, <2>2
  <2> QED BY <2>3
<1>14. /\ r.worst = worst /\ r.worst_drawdown = deepest /\ r.p5 = low /\ r.median = middle /\ r.p95 = high
       /\ r.best = best /\ r.probability = probability
  BY <1>4
<1>15. Len(job.profits) = job.simulations
  BY <1>1 DEF n, p
<1> QED BY <1>5, <1>9, <1>10, <1>11, <1>12, <1>13, <1>14, <1>15 DEF r, p, d, bound

-----------------------------------------------------------------------------
\* The steps of runs and of bootstraps.
LEMMA RunStarts == ASSUME Replays!StartRun PROVE JobInv'
<1>1. job' = [kind |-> "signals", step |-> "running", signals |-> <<>>, trades |-> <<>>]
  BY DEF Replays!StartRun
<1>2. job' \in SignalRuns
  BY <1>1 DEF SignalRuns
<1>3. Faithful(job')
  BY <1>1, <1>2 DEF Faithful
<1> QED BY <1>3 DEF JobInv

LEMMA RunIs == ASSUME JobInv, Replays!Run PROVE Faithful(job) /\ job.step = "running"
BY DEF JobInv, Replays!Run, Replays!Idle, Drawn, Bootstraps, Walked, Walks, Searched, Searches, Refused

LEMMA RecordType ==
  ASSUME NEW signal \in Replays!Signals
  PROVE  /\ Replays!Record(signal) \in [pnl : Int, win : BOOLEAN]
         /\ Replays!Record(signal).pnl = Replays!Simulate(signal)
         /\ Replays!Record(signal).win = (Replays!Simulate(signal) > 0)
<1>1. Replays!Simulate(signal) \in Int
  BY SimulateNear
<1> QED BY <1>1 DEF Replays!Record

LEMMA Signal == ASSUME JobInv, Replays!NextSignal PROVE JobInv'
<1>1. Faithful(job) /\ job.step = "running"
  BY RunIs DEF Replays!NextSignal
<1>2. job \in SignalRuns /\ Len(job.trades) = Len(job.signals)
      /\ \A i \in DOMAIN job.signals : job.trades[i] = Replays!Record(job.signals[i])
  BY <1>1 DEF Faithful
<1>3. PICK signal \in Replays!Signals \cup {Bad} :
        job' = IF signal = Bad THEN [job EXCEPT !.step = "raised", !.trades = <<>>]
               ELSE [job EXCEPT !.signals = Append(@, signal), !.trades = Append(@, Replays!Record(signal))]
  BY DEF Replays!NextSignal
<1>4. CASE signal = Bad
  <2>1. job'.step = "raised" /\ job'.kind = "signals" /\ job'.trades = <<>>
    BY <1>2, <1>3, <1>4 DEF SignalRuns
  <2> QED BY <2>1 DEF JobInv, Refused
<1>5. CASE signal # Bad
  <2> DEFINE record == Replays!Record(signal)
             n == Len(job.signals)
  <2>1. signal \in Replays!Signals /\ record \in [pnl : Int, win : BOOLEAN]
    BY <1>5, RecordType
  <2> HIDE DEF record
  <2>2. /\ job.signals \in Seq(Replays!Signals) /\ job.trades \in Seq([pnl : Int, win : BOOLEAN])
        /\ n \in Nat /\ DOMAIN job.signals = 1..n /\ DOMAIN job.trades = 1..n
    BY <1>2 DEF SignalRuns
  <2>3. job' = [job EXCEPT !.signals = Append(@, signal), !.trades = Append(@, record)]
    BY <1>3, <1>5 DEF record
  <2> DEFINE signals == Append(job.signals, signal)
             records == Append(job.trades, record)
  <2>4. /\ signals \in Seq(Replays!Signals) /\ records \in Seq([pnl : Int, win : BOOLEAN])
        /\ DOMAIN signals = 1..(n + 1) /\ Len(signals) = n + 1 /\ Len(records) = n + 1
        /\ \A i \in 1..n : signals[i] = job.signals[i] /\ records[i] = job.trades[i]
        /\ signals[n + 1] = signal /\ records[n + 1] = record
    BY <1>2, <2>1, <2>2
  <2> HIDE DEF n, signals, records
  <2>5. job' \in SignalRuns /\ job'.signals = signals /\ job'.trades = records
    BY <1>2, <2>3, <2>4 DEF SignalRuns, signals, records
  <2>6. \A i \in 1..(n + 1) : records[i] = Replays!Record(signals[i])
    <3> SUFFICES ASSUME NEW i \in 1..(n + 1)
                 PROVE  records[i] = Replays!Record(signals[i])
      OBVIOUS
    <3>1. CASE i = n + 1
      BY <2>4, <3>1 DEF record
    <3>2. CASE i # n + 1
      <4>1. i \in 1..n
        BY <2>2, <3>2
      <4> QED BY <1>2, <2>2, <2>4, <4>1
    <3> QED BY <3>1, <3>2
  <2>7. Faithful(job')
    BY <2>4, <2>5, <2>6 DEF Faithful
  <2> QED BY <2>7 DEF JobInv
<1> QED BY <1>4, <1>5

LEMMA RunEnds == ASSUME JobInv, Replays!EndRun PROVE JobInv'
<1>1. Faithful(job) /\ job' = [job EXCEPT !.step = "done"]
  BY RunIs DEF Replays!EndRun
<1>2. Faithful(job')
  BY <1>1 DEF Faithful, SignalRuns
<1> QED BY <1>2 DEF JobInv

LEMMA BootstrapStarts ==
  ASSUME NEW n \in Nat, NEW pnls \in [1..n -> Pnls], NEW simulations \in 1..MaxSimulations,
         Replays!StartBootstrap(pnls, simulations)
  PROVE  JobInv'
<1>1. pnls \in Seq(Pnls) /\ simulations \in Nat
  BY Rates, SeqDef DEF Replays!RatesAssumption
<1>2. job' = [kind |-> "bootstrap", step |-> IF pnls = <<>> THEN "done" ELSE "running",
              pnls |-> pnls, simulations |-> IF pnls = <<>> THEN 0 ELSE simulations,
              profits |-> <<>>, drawdowns |-> <<>>]
  BY DEF Replays!StartBootstrap
<1>3. MaxSimulations \in Nat
  BY Rates DEF Replays!RatesAssumption
<1>4. job' \in Bootstraps
  BY <1>1, <1>2 DEF Bootstraps
<1>5. Drawn(job')
  <2>1. /\ job'.profits = <<>> /\ job'.drawdowns = <<>> /\ job'.pnls = pnls
        /\ job'.simulations = IF pnls = <<>> THEN 0 ELSE simulations
        /\ job'.step = IF pnls = <<>> THEN "done" ELSE "running"
    BY <1>2
  <2> QED BY <1>1, <1>3, <1>4, <2>1 DEF Drawn
<1> QED BY <1>5 DEF JobInv

LEMMA Simulation == ASSUME JobInv, Replays!NextSimulation PROVE JobInv'
<1>1. Drawn(job) /\ job \in Bootstraps /\ job.step = "running"
  BY DEF JobInv, Replays!NextSimulation, Replays!Idle, Faithful, SignalRuns, Walked, Walks, Searched, Searches,
         Refused, Drawn
<1>2. PICK sample \in [DOMAIN job.pnls -> Replays!Range(job.pnls)] :
        job' = [job EXCEPT !.profits = Append(@, Replays!TotalOf(sample)),
                           !.drawdowns = Append(@, Replays!MaximumDrawdown(sample)),
                           !.step = IF Len(job.profits) + 1 = job.simulations THEN "done" ELSE @]
  BY DEF Replays!NextSimulation
<1> DEFINE total == Replays!TotalOf(sample)
           fall == Replays!MaximumDrawdown(sample)
           bound == Gains(job.pnls)
<1>3. /\ job.pnls \in Seq(Pnls) /\ job.profits \in Seq(Int) /\ job.drawdowns \in Seq(Nat)
      /\ job.simulations \in Nat /\ Len(job.profits) < job.simulations /\ Len(job.drawdowns) = Len(job.profits)
      /\ job.simulations <= MaxSimulations /\ job.pnls # <<>>
      /\ \A i \in DOMAIN job.profits : 0 - job.profits[i] <= job.drawdowns[i] /\ job.profits[i] <= bound
  BY <1>1 DEF Drawn, Bootstraps
<1>4. sample \in Seq(Int) /\ total <= bound /\ 0 - total <= fall
  <2> DEFINE pnls == job.pnls
  <2>1. pnls \in Seq(Int) /\ pnls # <<>> /\ sample \in [DOMAIN pnls -> Replays!Range(pnls)]
    BY <1>2, <1>3, PnlsAreWhole
  <2> HIDE DEF pnls
  <2>2. sample \in Seq(Int) /\ total <= Gains(pnls) /\ 0 - total <= fall
    BY <2>1, SampleIs
  <2> QED BY <2>2 DEF pnls
<1>5. total \in Int /\ fall \in Nat
  BY <1>4, TotalOfType, DrawdownType
<1> HIDE DEF total, fall, bound
<1> DEFINE profits == Append(job.profits, total)
           drawdowns == Append(job.drawdowns, fall)
           step == IF Len(job.profits) + 1 = job.simulations THEN "done" ELSE job.step
           n == Len(job.profits)
<1>6. job' = [job EXCEPT !.profits = profits, !.drawdowns = drawdowns, !.step = step]
  BY <1>2 DEF total, fall
<1>7. /\ profits \in Seq(Int) /\ drawdowns \in Seq(Nat) /\ step \in {"running", "done"}
      /\ n \in Nat /\ n < job.simulations /\ Len(profits) = n + 1 /\ Len(drawdowns) = n + 1
      /\ step = "done" <=> n + 1 = job.simulations
  BY <1>1, <1>3, <1>5
<1>8. \A i \in DOMAIN profits : 0 - profits[i] <= drawdowns[i] /\ profits[i] <= bound
  <2>1. DOMAIN profits = 1..(n + 1) /\ DOMAIN job.profits = 1..n
    BY <1>3, <1>7
  <2>2. profits[n + 1] = total /\ drawdowns[n + 1] = fall
    BY <1>3, <1>5
  <2>3. \A i \in 1..n : profits[i] = job.profits[i] /\ drawdowns[i] = job.drawdowns[i]
    BY <1>3, <1>5
  <2> HIDE DEF profits, drawdowns, n
  <2>4. ASSUME NEW i \in 1..(n + 1)
        PROVE  0 - profits[i] <= drawdowns[i] /\ profits[i] <= bound
    <3>1. CASE i = n + 1
      BY <1>4, <2>2, <3>1 DEF total, fall, bound
    <3>2. CASE i # n + 1
      <4>1. i \in 1..n
        BY <1>7, <3>2
      <4> QED BY <1>3, <2>1, <2>3, <4>1
    <3> QED BY <3>1, <3>2
  <2> QED BY <2>1, <2>4
<1> HIDE DEF profits, drawdowns, step, n
<1>9. /\ job' \in Bootstraps /\ job'.pnls = job.pnls /\ job'.simulations = job.simulations
      /\ job'.profits = profits /\ job'.drawdowns = drawdowns /\ job'.step = step
  BY <1>1, <1>6, <1>7 DEF Bootstraps
<1>10. step = "running" => n + 1 < job.simulations
  BY <1>3, <1>7
<1>11. Gains(job'.pnls) = bound
  BY <1>9 DEF bound
<1>12. Drawn(job')
  BY <1>3, <1>7, <1>8, <1>9, <1>10, <1>11 DEF Drawn
<1> QED BY <1>12 DEF JobInv

\* A run that ended: the records, what they say of their signals, and both results.
LEMMA RunsRight == ASSUME JobInv PROVE Replays!RunsAreRight
<1> DEFINE pnls == Replays!Results
           n == Len(job.trades)
<1> SUFFICES ASSUME Replays!Ended("signals")
             PROVE  /\ Len(pnls) = Len(job.signals)
                    /\ \A i \in DOMAIN pnls : Replays!WithinRounding(pnls[i], job.signals[i])
                    /\ Replays!FiguresAreRight(pnls)
                    /\ Replays!Statistics(pnls).wins
                         = Replays!Cardinality({i \in DOMAIN job.trades : job.trades[i].win})
  BY Zenon DEF Replays!RunsAreRight
<1>1. Faithful(job)
  BY DEF Replays!Ended, JobInv, Replays!Idle, Drawn, Bootstraps, Walked, Walks, Searched, Searches, Refused
<1>2. /\ job.signals \in Seq(Replays!Signals) /\ job.trades \in Seq([pnl : Int, win : BOOLEAN])
      /\ n \in Nat /\ Len(job.signals) = n /\ DOMAIN job.signals = 1..n /\ DOMAIN job.trades = 1..n
      /\ \A i \in 1..n : job.trades[i] = Replays!Record(job.signals[i])
  BY <1>1 DEF Faithful, SignalRuns
<1> HIDE DEF n
<1>3. \A i \in 1..n : /\ job.signals[i] \in Replays!Signals
                      /\ job.trades[i].pnl \in Int
                      /\ job.trades[i].pnl = Replays!Simulate(job.signals[i])
                      /\ job.trades[i].win = (Replays!Simulate(job.signals[i]) > 0)
  <2> TAKE i \in 1..n
  <2>1. job.signals[i] \in Replays!Signals
    BY <1>2
  <2>2. job.trades[i] = Replays!Record(job.signals[i])
    BY <1>2
  <2>3. Replays!Simulate(job.signals[i]) \in Int
    BY <2>1, SimulateNear
  <2> QED BY <2>1, <2>2, <2>3, RecordType
<1>4. /\ pnls \in [1..n -> Int] /\ DOMAIN pnls = 1..n
      /\ \A i \in 1..n : pnls[i] = Replays!Simulate(job.signals[i])
  BY <1>2, <1>3 DEF Replays!Results
<1> HIDE DEF pnls
<1>5. pnls \in Seq(Int) /\ Len(pnls) = n
  BY <1>2, <1>4, SeqDef, LenProperties
<1>6. Replays!Wins(pnls) = {i \in DOMAIN job.trades : job.trades[i].win}
  BY <1>2, <1>3, <1>4 DEF Replays!Wins
<1>7. \A i \in DOMAIN pnls : Replays!WithinRounding(pnls[i], job.signals[i])
  BY <1>3, <1>4, SimulateNear
<1>8. Replays!FiguresAreRight(pnls) /\ Replays!Statistics(pnls).wins = Replays!Cardinality(Replays!Wins(pnls))
  BY <1>5, StatisticsRight
<1> QED BY <1>2, <1>5, <1>6, <1>7, <1>8

LEMMA JobStarts == Init => JobInv
BY DEF Init, Replays!Init, JobInv

LEMMA JobMoves == [Next]_vars => Replays!Next \/ UNCHANGED job
BY DEF Next, vars, deskVars, bookVars, portfolioVars, historyVars, routerVars, otherVars, gateVars,
       accountVars, eventVars, serviceVars, syncVars

LEMMA JobIsInvariant == Spec => []JobInv
<1>1. JobInv /\ [Next]_vars => JobInv'
  <2> SUFFICES ASSUME JobInv, [Next]_vars
               PROVE  JobInv'
    OBVIOUS
  <2>1. CASE Replays!Next
    <3>1. ASSUME NEW n \in 0..MaxTrades, NEW pnls \in [1..n -> Pnls], NEW simulations \in 1..MaxSimulations,
                 Replays!StartBootstrap(pnls, simulations)
          PROVE  JobInv'
      <4>1. n \in Nat
        BY Rates DEF Replays!RatesAssumption
      <4> QED BY <3>1, <4>1, BootstrapStarts
    <3>2. ASSUME NEW total \in 0..MaxData, NEW train \in Tenths, NEW test \in Tenths, NEW step \in Tenths,
                 Replays!StartWalk(total, train, test, step)
          PROVE  JobInv'
      BY <3>2, WalkStarts
    <3>3. ASSUME NEW a \in 0..MaxValues, NEW b \in 0..MaxValues, Replays!StartSearch(<<a, b>>)
          PROVE  JobInv'
      BY <3>3, SearchStarts
    <3> QED BY <2>1, <3>1, <3>2, <3>3, RunStarts, Signal, RunEnds, Simulation, Advance, Score DEF Replays!Next
  <2>2. CASE UNCHANGED job
    BY <2>2 DEF JobInv
  <2> QED BY <2>1, <2>2, JobMoves
<1> QED BY <1>1, JobStarts, PTL DEF Spec

\* A run of signals is recorded signal by signal, each within the rounding of its exact
\* profit, and both engines accept what they compute of it and agree; a walk has every
\* window that fits and none that does not; a grid search ends with the first of the best
\* combinations.
THEOREM AlwaysReplaysAreFaithful == Spec => []ReplaysAreFaithful
<1>1. JobInv => ReplaysAreFaithful
  BY RunsRight, WindowsComplete, SearchComplete DEF ReplaysAreFaithful, Replays!ReplaysAreFaithful
<1> QED BY <1>1, JobIsInvariant, PTL

\* The result of a bootstrap is accepted and not taken for an old one: the figures are in
\* order, each percentile has its share of the profits below it, and no profit or loss is
\* beyond what a simulation can make.  It takes fewer simulations than a rate can tell from
\* none: of 20000 or more, one profit in all is a probability that is rounded to nothing.
THEOREM AlwaysBootstrapsAreOrdered ==
  ASSUME Few(MaxSimulations)
  PROVE  Spec => []BootstrapsAreOrdered
<1>1. JobInv => BootstrapsAreOrdered
  <2> SUFFICES ASSUME JobInv, Replays!Ended("bootstrap"), job.profits # <<>>
               PROVE  BootstrapsAreOrdered
    BY DEF BootstrapsAreOrdered, Replays!BootstrapsAreOrdered
  <2>1. Drawn(job) /\ job.step = "done"
    BY DEF Replays!Ended, JobInv, Replays!Idle, Faithful, SignalRuns, Walked, Walks, Searched, Searches, Refused
  <2> QED BY <2>1, BootstrapsRight DEF BootstrapsAreOrdered, Replays!BootstrapsAreOrdered
<1> QED BY <1>1, JobIsInvariant, PTL

-----------------------------------------------------------------------------
(***************************************************************************)
(* Types.                                                                  *)
(***************************************************************************)

LEMMA OpenManyKeepsTypes ==
  ASSUME BookInv, BookTyped, NEW batch \in Book!Batches, Book!OpenMany(batch)
  PROVE  BookTyped'
<1> DEFINE named == Book!SymbolsOf(batch)
<1>1. PICK n \in 0..2 : batch \in [1..n -> Book!Items]
  BY DEF Book!Batches
<1>2. \A i \in DOMAIN batch : /\ batch[i].symbol \in Symbols /\ batch[i].position \in Offers
                              /\ Book!Finite(Book!Notional(batch[i].position, batch[i].position.entry_price))
  <2> TAKE i \in DOMAIN batch
  <2>1. batch[i] \in Book!Items /\ Book!Valid(batch[i])
    BY <1>1 DEF Book!OpenMany
  <2> QED BY <2>1 DEF Book!Valid, Book!Items
<1>3. /\ DOMAIN book' = DOMAIN book \cup named
      /\ \A s \in DOMAIN book : book'[s] = book[s]
      /\ \A s \in named \ DOMAIN book : \E i \in DOMAIN batch : book'[s] = batch[i].position
  <2>1. book' = [s \in DOMAIN book \cup named |->
                  IF s \in DOMAIN book THEN book[s]
                  ELSE batch[CHOOSE i \in DOMAIN batch : batch[i].symbol = s].position]
    BY DEF Book!OpenMany, Book!Open
  <2>2. \A s \in named : \E i \in DOMAIN batch : batch[i].symbol = s
    BY DEF Book!SymbolsOf
  <2> HIDE DEF named
  <2> QED BY <2>1, <2>2
<1>4. named \subseteq Symbols
  BY <1>2 DEF Book!SymbolsOf
<1> HIDE DEF named
<1>5. ASSUME NEW s \in DOMAIN book'
      PROVE  /\ \E offer \in Offers : /\ book'[s].side = offer.side /\ book'[s].size = offer.size
                                      /\ book'[s].entry_price = offer.entry_price
             /\ Book!Finite(book'[s].unrealized_pnl)
             /\ Book!Finite(Book!Notional(book'[s], book'[s].entry_price))
  <2>1. CASE s \in DOMAIN book
    BY <1>3, <2>1 DEF BookTyped
  <2>2. CASE s \notin DOMAIN book
    <3>1. PICK i \in DOMAIN batch : book'[s] = batch[i].position
      BY <1>3, <2>2
    <3>2. batch[i].position \in Offers
      BY <1>2
    <3>3. Book!Finite(batch[i].position.unrealized_pnl)
      BY <3>2, PartsAssumption DEF Book!OffersAssumption, Book!Positions, Book!Finite
    <3> QED BY <1>2, <3>1, <3>2, <3>3
  <2> QED BY <2>1, <2>2
<1> QED BY <1>3, <1>4, <1>5 DEF BookTyped

LEMMA UpdateKeepsTypes ==
  ASSUME BookInv, BookTyped, NEW known \in SUBSET Symbols, NEW prices \in [known -> Prices],
         Book!UpdatePrices(prices)
  PROVE  BookTyped'
<1>1. book' = Book!Updated(book, prices)
  BY DEF Book!UpdatePrices
<1>2. CASE book' = book
  BY <1>2 DEF BookTyped
<1>3. CASE /\ \A s \in known : Book!Calculable(book[s], prices[s])
           /\ book' = [s \in DOMAIN book |-> IF s \in known THEN Book!Repriced(book[s], prices[s]) ELSE book[s]]
  <2>1. ASSUME NEW s \in DOMAIN book, s \in known
        PROVE  /\ book'[s].side = book[s].side /\ book'[s].size = book[s].size
               /\ book'[s].entry_price = book[s].entry_price
               /\ Book!Finite(book'[s].unrealized_pnl)
    <3>1. book[s] \in Held /\ book'[s] = Book!Repriced(book[s], prices[s])
      BY <1>3, <2>1 DEF BookInv
    <3>2. /\ book'[s].side = book[s].side /\ book'[s].size = book[s].size
          /\ book'[s].entry_price = book[s].entry_price
          /\ book'[s].unrealized_pnl = Book!PnL(book[s], prices[s])
      BY <3>1 DEF Book!Repriced, Held
    <3>3. Book!Finite(Book!PnL(book[s], prices[s]))
      BY <1>3, <2>1 DEF Book!Calculable
    <3> QED BY <3>2, <3>3
  <2>2. DOMAIN book' = DOMAIN book /\ \A s \in DOMAIN book : s \notin known => book'[s] = book[s]
    BY <1>3
  <2> QED BY <2>1, <2>2 DEF BookTyped, Book!Notional
<1>4. book' = book \/
      /\ \A s \in known : Book!Calculable(book[s], prices[s])
      /\ book' = [s \in DOMAIN book |-> IF s \in known THEN Book!Repriced(book[s], prices[s]) ELSE book[s]]
  BY <1>1 DEF Book!Updated
<1> QED BY <1>2, <1>3, <1>4

LEMMA BookIsTyped == Spec => [](BookInv /\ BookTyped)
<1>1. Init => BookTyped
  <2> SUFFICES ASSUME Init
               PROVE  BookTyped
    OBVIOUS
  <2>1. DOMAIN book = {}
    BY DEF Init, Book!Init
  <2> QED BY <2>1 DEF BookTyped
<1>2. BookInv /\ BookTyped /\ [Next]_vars => BookTyped'
  <2> SUFFICES ASSUME BookInv, BookTyped, [Next]_vars
               PROVE  BookTyped'
    OBVIOUS
  <2>1. ASSUME NEW s \in Symbols, Book!ClosePosition(s)
        PROVE  BookTyped'
    <3>1. book' = [r \in DOMAIN book \ {s} |-> book[r]]
      BY <2>1 DEF Book!ClosePosition, Book!Open
    <3> QED BY <3>1 DEF BookTyped
  <2>2. ASSUME NEW s \in Symbols, NEW stop \in BOOLEAN, NEW target \in BOOLEAN,
               Book!UpdateRiskLevels(s, stop, target)
        PROVE  BookTyped'
    <3>1. /\ s \in DOMAIN book
          /\ book' = [book EXCEPT ![s].levels = [stop_loss |-> stop, take_profit |-> target]]
      BY <2>2 DEF Book!UpdateRiskLevels, Book!Open
    <3>2. /\ DOMAIN book' = DOMAIN book
          /\ \A r \in DOMAIN book : book[r] \in Held
          /\ \A r \in DOMAIN book :
               book'[r] = IF r = s THEN [book[r] EXCEPT !.levels = [stop_loss |-> stop, take_profit |-> target]]
                          ELSE book[r]
      BY <3>1 DEF BookInv
    <3>3. \A r \in DOMAIN book :
            /\ book'[r].side = book[r].side /\ book'[r].size = book[r].size
            /\ book'[r].entry_price = book[r].entry_price
            /\ book'[r].unrealized_pnl = book[r].unrealized_pnl
      BY <3>2 DEF Held
    <3> QED BY <3>2, <3>3 DEF BookTyped, Book!Notional
  <2>3. ASSUME Book!Clear
        PROVE  BookTyped'
    <3>1. DOMAIN book' = {}
      BY <2>3 DEF Book!Clear
    <3> QED BY <3>1 DEF BookTyped
  <2>4. CASE UNCHANGED bookVars
    BY <2>4 DEF BookTyped, bookVars
  <2> QED BY <2>1, <2>2, <2>3, <2>4, BookMoves, OpenManyKeepsTypes, UpdateKeepsTypes DEF Book!Next
<1> QED BY <1>1, <1>2, BookIsInvariant, PTL DEF Spec

LEMMA BookType == BookInv /\ BookTyped => Book!TypeOK
<1> SUFFICES ASSUME BookInv, BookTyped
             PROVE  Book!TypeOK
  OBVIOUS
<1>1. ASSUME NEW s \in DOMAIN book
      PROVE  /\ book[s] \in Book!Positions
             /\ \E offer \in Offers : \A field \in {"side", "size", "entry_price"} : book[s][field] = offer[field]
  <2>1. book[s] \in Held /\ Book!Finite(book[s].unrealized_pnl)
    BY DEF BookInv, BookTyped
  <2>2. book[s] \in Book!Positions
    BY <2>1 DEF Held, Book!Finite, Book!Positions, Book!Positive
  <2>3. \E offer \in Offers : \A field \in {"side", "size", "entry_price"} : book[s][field] = offer[field]
    BY DEF BookTyped
  <2> QED BY <2>2, <2>3
<1> QED BY <1>1 DEF BookInv, BookTyped, Book!TypeOK, Book!Open

LEMMA HolderKeepsTypes ==
  ASSUME PortfolioInv, PortfolioTyped, NEW o \in Objects, Portfolio!HolderWrites(o)
  PROVE  PortfolioTyped'
<1>1. /\ balance' = balance /\ valuing' = valuing /\ verdict' = verdict
      /\ \/ \E price \in Prices : live' = [live EXCEPT ![o].current_price = price]
         \/ \E profit \in Profits : live' = [live EXCEPT ![o].unrealized_pnl = profit]
         \/ \E symbol \in Symbols : live' = [live EXCEPT ![o].symbol = symbol]
  BY DEF Portfolio!HolderWrites, Portfolio!Observed
<1>2. live \in [Objects -> LiveObjects]
  BY DEF PortfolioInv
<1>3. ASSUME NEW x \in Objects
      PROVE  live'[x].unrealized_pnl \in Profits
  <2>1. live[x] \in LiveObjects /\ live[x].unrealized_pnl \in Profits
    BY <1>2 DEF PortfolioTyped
  <2>2. CASE \E price \in Prices : live' = [live EXCEPT ![o].current_price = price]
    BY <1>2, <2>1, <2>2 DEF LiveObjects
  <2>3. CASE \E profit \in Profits : live' = [live EXCEPT ![o].unrealized_pnl = profit]
    BY <1>2, <2>1, <2>3 DEF LiveObjects
  <2>4. CASE \E symbol \in Symbols : live' = [live EXCEPT ![o].symbol = symbol]
    BY <1>2, <2>1, <2>4 DEF LiveObjects
  <2> QED BY <1>1, <2>2, <2>3, <2>4
<1> QED BY <1>1, <1>3 DEF PortfolioTyped

LEMMA PortfolioIsTyped == Spec => [](PortfolioInv /\ PortfolioTyped)
<1>1. Init => PortfolioTyped
  <2> SUFFICES ASSUME Init
               PROVE  PortfolioTyped
    OBVIOUS
  <2>1. /\ balance \in 0..MaxBalance /\ verdict = "none"
        /\ live \in [Objects -> [symbol : Symbols, current_price : {NoPrice}, unrealized_pnl : {0}]]
        /\ valuing = [kind |-> "none", sum |-> 0, left |-> {}, locked |-> FALSE]
    BY DEF Init, Portfolio!Init, Portfolio!Idle
  <2> QED BY <2>1, Shapes DEF PortfolioTyped
<1>2. PortfolioInv /\ PortfolioTyped /\ [Next]_vars => PortfolioTyped'
  <2> SUFFICES ASSUME PortfolioInv, PortfolioTyped, [Next]_vars
               PROVE  PortfolioTyped'
    OBVIOUS
  <2>1. ASSUME live' = live, balance' \in 0..MaxBalance, valuing' = valuing, verdict' = verdict
        PROVE  PortfolioTyped'
    BY <2>1 DEF PortfolioTyped
  <2>2. ASSUME live' = live, balance' = balance, ~valuing'.locked => valuing'.left = {},
               verdict' \in {"none", "true", "excused", "torn"}
        PROVE  PortfolioTyped'
    BY <2>2 DEF PortfolioTyped
  <2>3. valuing \in [kind : {"equity", "available_balance", "none"}, sum : Int, left : SUBSET Symbols,
                     locked : BOOLEAN] /\ balance \in 0..MaxBalance
    BY DEF PortfolioInv, PortfolioTyped
  <2>4. ASSUME NEW amount \in 0..MaxBalance, Portfolio!SetBalance(amount)
        PROVE  PortfolioTyped'
    BY <2>1, <2>4 DEF Portfolio!SetBalance, Portfolio!Observed
  <2>5. ASSUME NEW amount, Portfolio!AdjustBalance(amount)
        PROVE  PortfolioTyped'
    BY <2>1, <2>5 DEF Portfolio!AdjustBalance, Portfolio!Observed
  <2>6. ASSUME NEW batch, Portfolio!AddPositions(batch) \/ Portfolio!ReplacePositions(batch)
        PROVE  PortfolioTyped'
    BY <2>1, <2>3, <2>6 DEF Portfolio!AddPositions, Portfolio!ReplacePositions, Portfolio!Observed
  <2>7. ASSUME NEW s, Portfolio!RemovePosition(s)
        PROVE  PortfolioTyped'
    BY <2>1, <2>3, <2>7 DEF Portfolio!RemovePosition, Portfolio!Observed
  <2>8. ASSUME NEW k, Portfolio!ReadBalance(k)
        PROVE  PortfolioTyped'
    <3>1. UNCHANGED <<live, balance>> /\ valuing'.left = {} /\ verdict' = "none"
      BY <2>8 DEF Portfolio!ReadBalance, Portfolio!Idle, Portfolio!tables
    <3> QED BY <2>2, <3>1
  <2>9. ASSUME Portfolio!TakeLockAgain
        PROVE  PortfolioTyped'
    <3>1. UNCHANGED <<live, balance, verdict>> /\ valuing'.locked
      BY <2>3, <2>9 DEF Portfolio!TakeLockAgain, Portfolio!tables
    <3> QED BY <2>2, <3>1 DEF PortfolioTyped
  <2>10. ASSUME NEW s, Portfolio!AddOne(s)
         PROVE  PortfolioTyped'
    <3>1. UNCHANGED <<live, balance, verdict>> /\ valuing'.locked
      BY <2>3, <2>10 DEF Portfolio!AddOne, Portfolio!tables
    <3> QED BY <2>2, <3>1 DEF PortfolioTyped
  <2>11. ASSUME Portfolio!Return
         PROVE  PortfolioTyped'
    <3>1. /\ UNCHANGED <<live, balance>> /\ valuing'.left = {}
          /\ verdict' \in {"none", "true", "excused", "torn"}
      BY <2>11 DEF Portfolio!Return, Portfolio!Idle, Portfolio!tables
    <3> QED BY <2>2, <3>1
  <2>12. CASE UNCHANGED Portfolio!vars
    BY <2>1, <2>3, <2>12 DEF Portfolio!vars, Portfolio!tables
  <2>13. CASE Portfolio!Next
    BY <2>4, <2>5, <2>6, <2>7, <2>8, <2>9, <2>10, <2>11, <2>13, HolderKeepsTypes DEF Portfolio!Next
  <2> QED BY <2>12, <2>13, PortfolioMoves
<1> QED BY <1>1, <1>2, PortfolioIsInvariant, PTL DEF Spec

LEMMA PortfolioType == PortfolioInv /\ PortfolioTyped => Portfolio!TypeOK
<1> SUFFICES ASSUME PortfolioInv, PortfolioTyped
             PROVE  Portfolio!TypeOK
  OBVIOUS
<1>1. live \in [Objects -> [symbol : Symbols, current_price : Prices \cup {NoPrice}, unrealized_pnl : Profits]]
  BY DEF PortfolioInv, PortfolioTyped, LiveObjects
<1>2. valuing.left \subseteq Portfolio!Tracked(shared) /\ valuing.kind \in {"equity", "available_balance", "none"}
  BY DEF PortfolioInv, PortfolioTyped, Filed
<1> QED BY <1>1, <1>2 DEF PortfolioInv, PortfolioTyped, Portfolio!TypeOK, Portfolio!Kinds, Tables

LEMMA HistoriesAreTyped == Spec => [](TradesInv /\ ReportsInv /\ HistoriesTyped)
<1>0. MaxTime \in Nat /\ MaxStored \in Nat
  BY PartsAssumption DEF Histories!HistoryAssumption
<1>1. Init => HistoriesTyped
  <2> SUFFICES ASSUME Init
               PROVE  HistoriesTyped
    OBVIOUS
  <2>1. now = 0 /\ stored = <<>> /\ added = <<>> /\ pending = [t \in Threads |-> None]
    BY DEF Init, Histories!Init
  <2> QED BY <1>0, <2>1 DEF HistoriesTyped
<1>2. ReportsInv /\ HistoriesTyped /\ [Next]_vars => HistoriesTyped'
  <2> SUFFICES ASSUME ReportsInv, HistoriesTyped, [Next]_vars
               PROVE  HistoriesTyped'
    OBVIOUS
  <2>1. CASE Histories!Tick
    BY <1>0, <2>1 DEF Histories!Tick, HistoriesTyped
  <2>2. ASSUME NEW t \in Threads, NEW given \in 0..MaxTime \cup {None}, NEW finite \in BOOLEAN,
               Histories!Execute(t, given, finite)
        PROVE  HistoriesTyped'
    <3> DEFINE trade == [stamp |-> Histories!Stamp(given), clocked |-> given = None, finite |-> finite]
    <3>1. trade \in Histories!Trades
      BY DEF Histories!Stamp, Histories!Trades, HistoriesTyped
    <3>2. pending' = [pending EXCEPT ![t] = trade] /\ UNCHANGED <<now, stored, added>>
      BY <2>2 DEF Histories!Execute
    <3> HIDE DEF trade
    <3> QED BY <3>1, <3>2 DEF HistoriesTyped
  <2>3. ASSUME NEW t \in Threads, Histories!Refuse(t)
        PROVE  HistoriesTyped'
    BY <2>3 DEF Histories!Refuse, HistoriesTyped
  <2>4. ASSUME NEW t \in Threads, Histories!Store(t)
        PROVE  HistoriesTyped'
    <3>1. /\ pending[t] \in Histories!Trades /\ stored' = Append(stored, pending[t])
          /\ pending' = [pending EXCEPT ![t] = None] /\ UNCHANGED <<now, added>>
      BY <2>4 DEF Histories!Store, HistoriesTyped
    <3> QED BY <3>1 DEF HistoriesTyped
  <2>5. CASE Histories!ClearTrades
    BY <2>5 DEF Histories!ClearTrades, HistoriesTyped
  <2>6. ASSUME UNCHANGED <<now, pending, stored>>, Len(added') <= MaxStored
        PROVE  HistoriesTyped'
    BY <2>6 DEF HistoriesTyped
  <2>7. ASSUME NEW ids \in Histories!BoundedSeq(OrderIds, MaxHistory + 1), Histories!Extend(ids)
        PROVE  HistoriesTyped'
    <3> DEFINE batch == [i \in DOMAIN ids |-> [order_id |-> ids[i], serial |-> Len(added) + i]]
    <3>1. /\ added' = added \o batch /\ Len(added) + Len(ids) <= MaxStored
          /\ UNCHANGED <<now, pending, stored>>
      BY <2>7 DEF Histories!Extend
    <3>2. PICK n \in Nat : ids \in [1..n -> OrderIds]
      BY PartsAssumption DEF Histories!BoundedSeq, Histories!SeqOf, Histories!HistoryAssumption
    <3>3. added \in Seq(Numbered) /\ Len(added) \in Nat
      BY DEF ReportsInv
    <3>4. batch \in [1..n -> Numbered]
      BY <3>2, <3>3 DEF Numbered
    <3>5. ids \in Seq(OrderIds) /\ Len(ids) = n /\ batch \in Seq(Numbered) /\ Len(batch) = n
      BY <3>2, <3>4, SeqDef, LenProperties
    <3> HIDE DEF batch
    <3>6. Len(added \o batch) = Len(added) + Len(batch)
      BY <3>3, <3>5, ConcatProperties
    <3> QED BY <2>6, <3>1, <3>5, <3>6
  <2>8. ASSUME NEW id, Histories!FindByOrderId(id)
        PROVE  HistoriesTyped'
    BY <2>6, <2>8 DEF Histories!FindByOrderId, HistoriesTyped
  <2>9. CASE Histories!ClearReports
    BY <1>0, <2>6, <2>9 DEF Histories!ClearReports
  <2>10. CASE UNCHANGED Histories!vars
    BY <2>6, <2>10 DEF Histories!vars, HistoriesTyped
  <2>11. CASE Histories!Next
    BY <2>1, <2>2, <2>3, <2>4, <2>5, <2>7, <2>8, <2>9, <2>11
    DEF Histories!Next, Histories!TradesNext, Histories!ReportsNext
  <2> QED BY <2>10, <2>11, TradesMove
<1> QED BY <1>1, <1>2, TradesAreInvariant, ReportsAreInvariant, PTL DEF Spec

LEMMA Narrowed ==
  ASSUME NEW S, NEW T, NEW list \in Seq(S), \A i \in 1..Len(list) : list[i] \in T
  PROVE  list \in Seq(T)
<1>1. Len(list) \in Nat /\ list \in [1..Len(list) -> S]
  BY LenProperties
<1>2. list \in [1..Len(list) -> T]
  BY <1>1
<1> QED BY <1>1, <1>2, SeqDef

LEMMA HistoriesType == TradesInv /\ ReportsInv /\ HistoriesTyped => Histories!TypeOK
<1> SUFFICES ASSUME TradesInv, ReportsInv, HistoriesTyped
             PROVE  Histories!TypeOK
  OBVIOUS
<1>0. MaxHistory \in Nat /\ MaxStored \in Nat
  BY PartsAssumption DEF Histories!HistoryAssumption
<1>1. trades \in Seq(Histories!Trades) /\ Len(trades) <= MaxHistory
  <2>1. /\ trades \in Seq(Stamped) /\ Len(trades) \in Nat /\ stored \in Seq(Histories!Trades) /\ Len(stored) \in Nat
        /\ Len(trades) = (IF Len(stored) < MaxHistory THEN Len(stored) ELSE MaxHistory)
        /\ \A i \in 1..Len(trades) : trades[i] = stored[Len(stored) - Len(trades) + i]
    BY DEF TradesInv, HistoriesTyped, Histories!Kept
  <2>2. ASSUME NEW i \in 1..Len(trades)
        PROVE  trades[i] \in Histories!Trades
    <3>1. Len(stored) - Len(trades) + i \in 1..Len(stored)
      BY <1>0, <2>1
    <3> QED BY <2>1, <3>1, ElementOfSeq
  <2>3. trades \in Seq(Histories!Trades)
    BY <2>1, <2>2, Narrowed
  <2> QED BY <1>0, <2>1, <2>3
<1>2. reports \in Seq([order_id : OrderIds, serial : 1..MaxStored]) /\ Len(reports) <= MaxHistory
  <2>1. /\ reports \in Seq(Numbered) /\ Len(reports) \in Nat /\ added \in Seq(Numbered) /\ Len(added) \in Nat
        /\ Len(reports) = (IF Len(added) < MaxHistory THEN Len(added) ELSE MaxHistory)
        /\ \A i \in 1..Len(reports) : reports[i] = added[Len(added) - Len(reports) + i]
        /\ \A i \in 1..Len(added) : added[i].serial = i
        /\ Len(added) <= MaxStored
    BY DEF ReportsInv, HistoriesTyped, Histories!Kept
  <2>2. ASSUME NEW i \in 1..Len(reports)
        PROVE  reports[i] \in [order_id : OrderIds, serial : 1..MaxStored]
    <3>1. Len(added) - Len(reports) + i \in 1..Len(added)
      BY <1>0, <2>1
    <3>2. reports[i] \in Numbered /\ reports[i].serial = Len(added) - Len(reports) + i
      BY <2>1, <3>1, ElementOfSeq
    <3>3. reports[i].serial \in 1..MaxStored
      BY <1>0, <2>1, <3>1, <3>2
    <3> QED BY <3>2, <3>3 DEF Numbered
  <2>3. reports \in Seq([order_id : OrderIds, serial : 1..MaxStored])
    BY <2>1, <2>2, Narrowed
  <2> QED BY <1>0, <2>1, <2>3
<1> QED BY <1>1, <1>2 DEF HistoriesTyped, Histories!TypeOK

LEMMA RouterType == RouterInv => Router!TypeOK
BY DEF RouterInv, CallsOfCallers, Router!TypeOK

LEMMA ManagerType == ManagerInv => Manager!TypeOK
BY DEF ManagerInv, Batch, Manager!TypeOK

LEMMA GateType == GateInv => Gates!TypeOK
BY DEF GateInv, Asks, Switches, Decisions, Gates!TypeOK

LEMMA EventType == EventInv => Events!TypeOK
<1>1. EventInv => \A t \in Threads : /\ edits[t].step \in {"idle", "adding", "removing"}
                                     /\ edits[t].copy \in Seq(Handlers)
  BY EditsAre DEF EventInv
<1> QED BY <1>1 DEF EventInv, ListInv, RunInv, Served, Runs, Events!TypeOK

LEMMA CoreType == CoreInv => Core!TypeOK
BY DEF CoreInv, Loops, Among, Core!TypeOK

LEMMA SyncType == SyncInv => Sync!TypeOK
BY DEF SyncInv

LEMMA JobType == JobInv => Replays!TypeOK
<1> SUFFICES ASSUME JobInv
             PROVE  Replays!TypeOK
  OBVIOUS
<1>1. CASE job = Replays!Idle
  BY <1>1 DEF Replays!Idle, Replays!TypeOK
<1>2. CASE Faithful(job)
  BY <1>2 DEF Faithful, SignalRuns, Replays!TypeOK
<1>3. CASE Drawn(job)
  BY <1>3 DEF Drawn, Bootstraps, Replays!TypeOK
<1>4. CASE Walked(job)
  <2>1. /\ job.kind = "windows" /\ job.step \in {"running", "done"}
        /\ job.windows \in Seq([train_start : Nat, test_start : Nat, test_end : Nat])
        /\ job.total \in Nat /\ job.total <= MaxData
        /\ \A i \in DOMAIN job.windows : job.windows[i].test_end <= job.total
    BY <1>4 DEF Walked, Walks
  <2>2. MaxData \in Nat
    BY Rates DEF Replays!RatesAssumption
  <2>3. ASSUME NEW i \in DOMAIN job.windows
        PROVE  job.windows[i] \in [train_start : Nat, test_start : Nat, test_end : 0..MaxData]
    <3>1. job.windows[i] \in [train_start : Nat, test_start : Nat, test_end : Nat]
      BY <2>1, ElementOfSeq, LenProperties
    <3>2. job.windows[i].test_end \in 0..MaxData
      BY <2>1, <2>2, <3>1
    <3> QED BY <3>1, <3>2
  <2>4. job.windows \in Seq([train_start : Nat, test_start : Nat, test_end : 0..MaxData])
    <3> DEFINE wide == [train_start : Nat, test_start : Nat, test_end : Nat]
               narrow == [train_start : Nat, test_start : Nat, test_end : 0..MaxData]
    <3>1. job.windows \in Seq(wide) /\ \A i \in DOMAIN job.windows : job.windows[i] \in narrow
      BY <2>1, <2>3
    <3> HIDE DEF wide, narrow
    <3>2. DOMAIN job.windows = 1..Len(job.windows)
      BY <3>1, LenProperties
    <3>3. job.windows \in Seq(narrow)
      BY <3>1, <3>2, Narrowed
    <3> QED BY <3>3 DEF narrow
  <2> QED BY <2>1, <2>4 DEF Replays!TypeOK
<1>5. CASE Searched(job)
  BY <1>5 DEF Searched, Searches, Replays!TypeOK
<1>6. CASE Refused(job)
  <2>1. /\ job.step = "raised" /\ job.kind \in {"signals", "windows", "search"}
        /\ job.kind = "signals" => job.trades = <<>>
        /\ job.kind = "windows" => job.windows = <<>>
    BY <1>6 DEF Refused
  <2>2. \A S : <<>> \in Seq(S)
    BY EmptySeq
  <2> QED BY <2>1, <2>2 DEF Replays!TypeOK
<1> QED BY <1>1, <1>2, <1>3, <1>4, <1>5, <1>6 DEF JobInv

\* The method that has just ended, and whether it was refused.
Answer ==
  /\ outcome.method \in {"none", "update_many", "replace_all", "remove", "clear"}
  /\ outcome.refused \in BOOLEAN

LEMMA AnswerIsInvariant == Spec => []Answer
<1>1. Init => Answer
  BY DEF Init, Accounts!Init, Accounts!Settled, Answer
<1>2. Answer /\ [Next]_vars => Answer'
  <2> SUFFICES ASSUME Answer, [Next]_vars
               PROVE  Answer'
    OBVIOUS
  <2>1. ASSUME NEW method \in {"update_many", "replace_all", "remove", "clear"}, NEW given,
               NEW refused \in BOOLEAN, Accounts!Called(method, given, refused)
        PROVE  Answer'
    BY <2>1 DEF Accounts!Called, Answer
  <2>2. ASSUME NEW batch, Accounts!UpdateMany(batch) \/ Accounts!ReplaceEvery(batch)
        PROVE  Answer'
    <3>1. (~Accounts!ValidBatch(batch)) \in BOOLEAN
      BY Zenon
    <3> QED BY <2>1, <2>2, <3>1 DEF Accounts!UpdateMany, Accounts!ReplaceEvery
  <2>3. ASSUME NEW asset, Accounts!RemoveAsset(asset)
        PROVE  Answer'
    BY <2>1, <2>3 DEF Accounts!RemoveAsset
  <2>4. CASE Accounts!Clear
    BY <2>1, <2>4 DEF Accounts!Clear
  <2>5. CASE Accounts!Settle
    BY <2>5 DEF Accounts!Settle, Accounts!Settled, Answer
  <2>6. CASE UNCHANGED Accounts!vars
    BY <2>6 DEF Accounts!vars, Answer
  <2> QED BY <2>2, <2>3, <2>4, <2>5, <2>6, AccountsMove DEF Accounts!Next
<1> QED BY <1>1, <1>2, PTL DEF Spec

LEMMA AccountsType == AccountsInv /\ Answer => Accounts!TypeOK
BY DEF AccountsInv, AccountTables, Account, Answer, Accounts!TypeOK

\* Every part keeps its type.
THEOREM TypeCorrect == Spec => []DeskTypeOK
<1>1. /\ BookInv /\ BookTyped /\ PortfolioInv /\ PortfolioTyped /\ TradesInv /\ ReportsInv /\ HistoriesTyped
      /\ RouterInv /\ ManagerInv /\ GateInv /\ JobInv /\ AccountsInv /\ Answer /\ EventInv /\ CoreInv /\ SyncInv
      => DeskTypeOK
  BY BookType, PortfolioType, HistoriesType, RouterType, ManagerType, GateType, JobType, AccountsType,
     EventType, CoreType, SyncType DEF DeskTypeOK
<1> QED
  BY <1>1, BookIsTyped, PortfolioIsTyped, HistoriesAreTyped, RouterIsInvariant, ManagerIsInvariant,
     GatesAreInvariant, JobIsInvariant, AccountsAreInvariant, AnswerIsInvariant, EventsAreInvariant,
     CoreIsInvariant, SyncIsInvariant, PTL
=============================================================================
