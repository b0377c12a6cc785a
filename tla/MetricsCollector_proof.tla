---------------------- MODULE MetricsCollector_proof ----------------------
(***************************************************************************)
(* Proofs about MetricsCollector, for any number of goroutines, latencies, *)
(* records and Resets: the lock-free minimum and maximum are exact, and the *)
(* counts agree with each other up to what a Reset has met.                *)
(***************************************************************************)
EXTENDS MetricsCollector, FiniteSetTheorems, TLAPS

(* A swap is tried only with a latency that beats what was loaded, *)
SwapOK == \A w \in Workers :
            /\ pc[w] = "casMin" => old[w] = 0 \/ lat[w] < old[w]
            /\ pc[w] = "casMax" => lat[w] > old[w]

(* and a record has a latency until it is over, and an outcome to count. *)
RecordOK == \A w \in Workers :
              /\ pc[w] # "idle" => lat[w] \in Latencies
              /\ pc[w] = "kind" => outcome[w] \in Kinds

IInv == TypeOK /\ RecordOK /\ SwapOK /\ MinExact /\ MaxExact

LEMMA InitIInv == ASSUME Init PROVE IInv
<1>1. TypeOK
  BY DEF Init, TypeOK, Figures, Outcomes, Places
<1>2. RecordOK /\ SwapOK
  BY DEF Init, RecordOK, SwapOK
<1>3. MinExact /\ MaxExact
  BY DEF Init, MinExact, MaxExact, Figures
<1>. QED  BY <1>1, <1>2, <1>3 DEF IInv

LEMMA Counted == Cardinality(UnderWay) \in Nat
<1>1. IsFiniteSet(UnderWay)
  BY MetricsAssumption, FS_Subset DEF UnderWay
<1>. QED  BY <1>1, FS_CardinalityType

(* Latencies are numbers. *)
LEMMA Numbers ==
  ASSUME TypeOK
  PROVE  /\ \A w \in Workers : lat[w] \in Nat
         /\ \A l \in minSeen : l \in Nat \ {0}
         /\ \A l \in maxSeen : l \in Nat \ {0}
<1>1. \A w \in Workers : lat[w] \in Latencies \cup {0}
  BY DEF TypeOK
<1>2. minSeen \subseteq Latencies /\ maxSeen \subseteq Latencies
  BY DEF TypeOK
<1>3. \A l \in Latencies : l \in Nat \ {0}
  BY MetricsAssumption
<1>. QED  BY <1>1, <1>2, <1>3

(* --- types, and what a record carries with it --- *)

LEMMA TypeKept ==
  ASSUME TypeOK, RecordOK, [Next]_vars
  PROVE  TypeOK' /\ RecordOK'
<1>. USE MetricsAssumption DEF TypeOK, RecordOK, Figures, Outcomes, Places, Go, worker, history
<1>0. \A w \in Workers : lat[w] \in Nat
  BY Numbers
<1>1. ASSUME NEW w \in Workers, RecordDial(w) PROVE TypeOK' /\ RecordOK'
  BY <1>1 DEF RecordDial
<1>2. ASSUME NEW w \in Workers, Begin(w) PROVE TypeOK' /\ RecordOK'
  <2>. PICK l \in Latencies, o \in Outcomes :
          /\ lat' = [lat EXCEPT ![w] = l] /\ outcome' = [outcome EXCEPT ![w] = o]
    BY <1>2 DEF Begin
  <2>1. TypeOK'
    BY <1>2 DEF Begin
  <2>2. RecordOK'
    BY <1>2 DEF Begin
  <2>. QED  BY <2>1, <2>2
<1>3. ASSUME NEW w \in Workers, AddTotal(w) PROVE TypeOK' /\ RecordOK'
  <2>1. fig["total"] + lat[w] \in Nat
    BY <1>0
  <2>. QED  BY <1>3, <2>1 DEF AddTotal
<1>4. ASSUME NEW w \in Workers, LoadMin(w) PROVE TypeOK' /\ RecordOK'
  <2>1. lat[w] \in Latencies
    BY <1>4 DEF LoadMin
  <2>2. TypeOK'
    <3>1. minSeen' \subseteq Latencies /\ old' \in [Workers -> Nat]
      BY <1>4, <2>1 DEF LoadMin
    <3>2. pc' \in [Workers -> Places]
      BY <1>4 DEF LoadMin
    <3>3. UNCHANGED <<fig, errorsByKind, reset, lat, outcome, dialed, records, resets,
                      maxSeen, spoilt, reused>>
      BY <1>4 DEF LoadMin
    <3>. QED  BY <3>1, <3>2, <3>3
  <2>3. RecordOK'
    BY <1>4 DEF LoadMin
  <2>. QED  BY <2>2, <2>3
<1>5. ASSUME NEW w \in Workers, CasMin(w) PROVE TypeOK' /\ RecordOK'
  <2>1. lat[w] \in Latencies
    BY <1>5 DEF CasMin
  <2>2. TypeOK'
    <3>1. CASE fig["min"] = old[w]
      <4>1. fig' \in [Figures -> Nat] /\ minSeen' \subseteq Latencies
        <5>1. fig' = [fig EXCEPT !["min"] = lat[w]] /\ minSeen' = minSeen \cup {lat[w]}
          BY <1>5, <3>1 DEF CasMin
        <5>. QED  BY <1>0, <2>1, <5>1
      <4>. QED  BY <1>5, <3>1, <4>1 DEF CasMin
    <3>2. CASE fig["min"] # old[w]
      BY <1>5, <3>2 DEF CasMin
    <3>. QED  BY <3>1, <3>2
  <2>3. RecordOK'
    BY <1>5 DEF CasMin
  <2>. QED  BY <2>2, <2>3
<1>6. ASSUME NEW w \in Workers, LoadMax(w) PROVE TypeOK' /\ RecordOK'
  <2>1. lat[w] \in Latencies
    BY <1>6 DEF LoadMax
  <2>2. TypeOK'
    <3>1. maxSeen' \subseteq Latencies /\ old' \in [Workers -> Nat]
      BY <1>6, <2>1 DEF LoadMax
    <3>2. pc' \in [Workers -> Places]
      BY <1>6 DEF LoadMax
    <3>3. UNCHANGED <<fig, errorsByKind, reset, lat, outcome, dialed, records, resets,
                      minSeen, spoilt, reused>>
      BY <1>6 DEF LoadMax
    <3>. QED  BY <3>1, <3>2, <3>3
  <2>3. RecordOK'
    BY <1>6 DEF LoadMax
  <2>. QED  BY <2>2, <2>3
<1>7. ASSUME NEW w \in Workers, CasMax(w) PROVE TypeOK' /\ RecordOK'
  <2>1. lat[w] \in Latencies
    BY <1>7 DEF CasMax
  <2>2. TypeOK'
    <3>1. CASE fig["max"] = old[w]
      <4>1. fig' \in [Figures -> Nat] /\ maxSeen' \subseteq Latencies
        <5>1. fig' = [fig EXCEPT !["max"] = lat[w]] /\ maxSeen' = maxSeen \cup {lat[w]}
          BY <1>7, <3>1 DEF CasMax
        <5>. QED  BY <1>0, <2>1, <5>1
      <4>. QED  BY <1>7, <3>1, <4>1 DEF CasMax
    <3>2. CASE fig["max"] # old[w]
      BY <1>7, <3>2 DEF CasMax
    <3>. QED  BY <3>1, <3>2
  <2>3. RecordOK'
    BY <1>7 DEF CasMax
  <2>. QED  BY <2>2, <2>3
<1>8. ASSUME NEW w \in Workers, CountSuccess(w) PROVE TypeOK' /\ RecordOK'
  BY <1>8 DEF CountSuccess, Over
<1>9. ASSUME NEW w \in Workers, CountError(w) PROVE TypeOK' /\ RecordOK'
  BY <1>9 DEF CountError, Over
<1>10. ASSUME NEW w \in Workers, CountKind(w) PROVE TypeOK' /\ RecordOK'
  BY <1>10 DEF CountKind, Over
<1>11. CASE ResetBegins
  BY <1>11, Counted DEF ResetBegins
<1>12. CASE ResetStores
  <2>1. minSeen' \subseteq Latencies /\ maxSeen' \subseteq Latencies
    BY <1>12 DEF ResetStores
  <2>2. fig' \in [Figures -> Nat] /\ reset' \in 0..8
    <3>1. fig' \in [Figures -> Nat]
      BY <1>12 DEF ResetStores
    <3>2. reset' \in 0..8
      BY <1>12 DEF ResetStores
    <3>. QED  BY <3>1, <3>2
  <2>. QED  BY <1>12, <2>1, <2>2 DEF ResetStores
<1>13. CASE ResetEnds
  BY <1>13 DEF ResetEnds
<1>14. CASE UNCHANGED vars
  BY <1>14 DEF vars
<1>. QED
  BY <1>1, <1>2, <1>3, <1>4, <1>5, <1>6, <1>7, <1>8, <1>9, <1>10, <1>11, <1>12, <1>13, <1>14
  DEF Next, Record

(* --- minimum and maximum --- *)

LEMMA SwapKept ==
  ASSUME IInv, [Next]_vars PROVE SwapOK'
<1>. USE DEF IInv, TypeOK, SwapOK, Figures, Go, worker, history
<1>1. ASSUME NEW w \in Workers, RecordDial(w) \/ Begin(w) \/ AddTotal(w) PROVE SwapOK'
  BY <1>1 DEF RecordDial, Begin, AddTotal
<1>2. ASSUME NEW w \in Workers, LoadMin(w) \/ LoadMax(w) PROVE SwapOK'
  <2>1. lat[w] \in Nat /\ fig["min"] \in Nat /\ fig["max"] \in Nat
    BY Numbers
  <2>2. CASE LoadMin(w)
    BY <2>1, <2>2 DEF LoadMin
  <2>3. CASE LoadMax(w)
    BY <2>1, <2>3 DEF LoadMax
  <2>. QED  BY <1>2, <2>2, <2>3
<1>3. ASSUME NEW w \in Workers, CasMin(w) PROVE SwapOK'
  BY <1>3 DEF CasMin
<1>4. ASSUME NEW w \in Workers, CasMax(w) PROVE SwapOK'
  BY <1>4 DEF CasMax
<1>5. ASSUME NEW w \in Workers, CountSuccess(w) \/ CountError(w) \/ CountKind(w) PROVE SwapOK'
  BY <1>5 DEF CountSuccess, CountError, CountKind, Over
<1>6. CASE ResetBegins \/ ResetStores \/ ResetEnds \/ UNCHANGED vars
  BY <1>6 DEF ResetBegins, ResetStores, ResetEnds, vars
<1>. QED  BY <1>1, <1>2, <1>3, <1>4, <1>5, <1>6 DEF Next, Record

LEMMA ExactKept ==
  ASSUME IInv, [Next]_vars PROVE MinExact' /\ MaxExact'
<1>1. ASSUME NEW w \in Workers, LoadMin(w) PROVE MinExact' /\ MaxExact'
  <2>1. lat[w] \in Nat \ {0} /\ fig["min"] \in Nat /\ \A l \in minSeen : l \in Nat \ {0}
    <3>1. lat[w] \in Latencies
      BY <1>1 DEF LoadMin, Go, IInv, RecordOK
    <3>. QED  BY <3>1, MetricsAssumption, Numbers DEF IInv, TypeOK, Figures
  <2>2. fig' = fig /\ maxSeen' = maxSeen
    BY <1>1 DEF LoadMin
  <2>3. CASE fig["min"] # 0 /\ lat[w] >= fig["min"]
    <3>1. minSeen' = minSeen \cup {lat[w]}
      BY <1>1, <2>3 DEF LoadMin
    <3>. QED  BY <2>1, <2>2, <2>3, <3>1 DEF IInv, MinExact, MaxExact
  <2>4. CASE ~(fig["min"] # 0 /\ lat[w] >= fig["min"])
    BY <1>1, <2>2, <2>4 DEF LoadMin, IInv, MinExact, MaxExact
  <2>. QED  BY <2>3, <2>4
<1>2. ASSUME NEW w \in Workers, CasMin(w) PROVE MinExact' /\ MaxExact'
  <2>1. lat[w] \in Nat \ {0} /\ fig["min"] \in Nat /\ \A l \in minSeen : l \in Nat \ {0}
    <3>1. lat[w] \in Latencies
      <4>1. pc[w] = "casMin"
        BY <1>2 DEF CasMin, Go
      <4>. QED  BY <4>1 DEF IInv, RecordOK
    <3>. QED  BY <3>1, MetricsAssumption, Numbers DEF IInv, TypeOK, Figures
  <2>2. fig'["max"] = fig["max"] /\ maxSeen' = maxSeen
    BY <1>2 DEF CasMin, IInv, TypeOK, Figures
  <2>3. CASE fig["min"] = old[w]
    <3>1. fig'["min"] = lat[w] /\ minSeen' = minSeen \cup {lat[w]}
      BY <1>2, <2>3 DEF CasMin, IInv, TypeOK, Figures
    <3>2. fig["min"] = 0 \/ lat[w] < fig["min"]
      BY <1>2, <2>3 DEF CasMin, Go, IInv, SwapOK
    <3>. QED  BY <2>1, <2>2, <3>1, <3>2 DEF IInv, MinExact, MaxExact
  <2>4. CASE fig["min"] # old[w]
    BY <1>2, <2>2, <2>4 DEF CasMin, IInv, MinExact, MaxExact
  <2>. QED  BY <2>3, <2>4
<1>3. ASSUME NEW w \in Workers, LoadMax(w) PROVE MaxExact' /\ MinExact'
  <2>1. lat[w] \in Nat \ {0} /\ fig["max"] \in Nat /\ \A l \in maxSeen : l \in Nat \ {0}
    <3>1. lat[w] \in Latencies
      BY <1>3 DEF LoadMax, Go, IInv, RecordOK
    <3>. QED  BY <3>1, MetricsAssumption, Numbers DEF IInv, TypeOK, Figures
  <2>2. fig' = fig /\ minSeen' = minSeen
    BY <1>3 DEF LoadMax
  <2>3. CASE lat[w] <= fig["max"]
    <3>1. maxSeen' = maxSeen \cup {lat[w]}
      BY <1>3, <2>3 DEF LoadMax
    <3>. QED  BY <2>1, <2>2, <2>3, <3>1 DEF IInv, MinExact, MaxExact
  <2>4. CASE ~(lat[w] <= fig["max"])
    BY <1>3, <2>2, <2>4 DEF LoadMax, IInv, MinExact, MaxExact
  <2>. QED  BY <2>3, <2>4
<1>4. ASSUME NEW w \in Workers, CasMax(w) PROVE MaxExact' /\ MinExact'
  <2>1. lat[w] \in Nat \ {0} /\ fig["max"] \in Nat /\ \A l \in maxSeen : l \in Nat \ {0}
    <3>1. lat[w] \in Latencies
      <4>1. pc[w] = "casMax"
        BY <1>4 DEF CasMax, Go
      <4>. QED  BY <4>1 DEF IInv, RecordOK
    <3>. QED  BY <3>1, MetricsAssumption, Numbers DEF IInv, TypeOK, Figures
  <2>2. fig'["min"] = fig["min"] /\ minSeen' = minSeen
    BY <1>4 DEF CasMax, IInv, TypeOK, Figures
  <2>3. CASE fig["max"] = old[w]
    <3>1. fig'["max"] = lat[w] /\ maxSeen' = maxSeen \cup {lat[w]}
      BY <1>4, <2>3 DEF CasMax, IInv, TypeOK, Figures
    <3>2. lat[w] > fig["max"]
      BY <1>4, <2>3 DEF CasMax, Go, IInv, SwapOK
    <3>. QED  BY <2>1, <2>2, <3>1, <3>2 DEF IInv, MinExact, MaxExact
  <2>4. CASE fig["max"] # old[w]
    BY <1>4, <2>2, <2>4 DEF CasMax, IInv, MinExact, MaxExact
  <2>. QED  BY <2>3, <2>4
<1>5. ASSUME NEW w \in Workers,
             \/ RecordDial(w) \/ Begin(w) \/ AddTotal(w)
             \/ CountSuccess(w) \/ CountError(w) \/ CountKind(w)
      PROVE  MinExact' /\ MaxExact'
  <2>1. /\ fig'["min"] = fig["min"] /\ fig'["max"] = fig["max"]
        /\ minSeen' = minSeen /\ maxSeen' = maxSeen
    BY <1>5 DEF RecordDial, Begin, AddTotal, CountSuccess, CountError, CountKind,
                IInv, TypeOK, Figures, history
  <2>. QED  BY <2>1 DEF IInv, MinExact, MaxExact
<1>6. CASE ResetStores
  BY <1>6 DEF ResetStores, ResetOrder, IInv, TypeOK, Figures, MinExact, MaxExact
<1>7. CASE ResetBegins \/ ResetEnds \/ UNCHANGED vars
  BY <1>7 DEF ResetBegins, ResetEnds, vars, history, IInv, MinExact, MaxExact
<1>. QED  BY <1>1, <1>2, <1>3, <1>4, <1>5, <1>6, <1>7 DEF Next, Record

LEMMA Invariant == Spec => []IInv
<1>1. Init => IInv
  BY InitIInv
<1>2. IInv /\ [Next]_vars => IInv'
  BY TypeKept, SwapKept, ExactKept DEF IInv
<1>. QED  BY <1>1, <1>2, PTL DEF Spec

(* No compare-and-swap loop of metrics.go:170-187 loses a better value,    *)
(* whatever other records and Resets do between its load and its swap.     *)
THEOREM LatenciesKept == Spec => []LatenciesExact
<1>1. IInv => LatenciesExact
  BY DEF IInv, LatenciesExact
<1>. QED  BY <1>1, Invariant, PTL
(* --- the counts ---                                                      *)

(* What a Reset may have spoilt is under way as long as it runs; a request *)
(* counted after the store of zero began with it.  From then on each store *)
(* of zero can only raise the imbalance, and no higher than those requests.*)
Served == fig["request"] - fig["success"] - Cardinality(Uncounted)
BalanceOK == /\ reset # 0 => Cardinality(UnderWay) <= spoilt
             /\ reset \in 2..8 => fig["request"] <= spoilt
             /\ reset = 3 => Served >= -spoilt
             /\ reset \in 4..8 => Served - fig["error"] >= -spoilt
             /\ reset = 0 => Imbalance \in (-spoilt)..spoilt

(* An error counted and not yet under its kind is on its way there. *)
ToKind == {w \in Workers : pc[w] = "kind"}
KindsOK == /\ IsFiniteSet(ByKind)
           /\ reset = 0 => Cardinality(ByKind) + Cardinality(ToKind) <= fig["error"] + spoilt

(* A dial not yet claimed by a request is kept for its goroutine's next. *)
Holding == {w \in Workers : dialed[w]}
ReuseOK == resets = 0 =>
             /\ reset = 0
             /\ fig["request"] + Cardinality(Holding)
                  <= fig["dial"] + reused + fig["error"] + Cardinality(Failing)

LEMMA InitCounts == ASSUME Init PROVE BalanceOK /\ KindsOK /\ ReuseOK
<1>1. UnderWay = {} /\ Uncounted = {} /\ ToKind = {} /\ Holding = {} /\ Failing = {}
  BY DEF Init, UnderWay, Uncounted, ToKind, Holding, Failing
<1>2. ByKind = {}
  BY DEF Init, ByKind
<1>3. /\ fig["request"] = 0 /\ fig["success"] = 0 /\ fig["error"] = 0 /\ fig["dial"] = 0
      /\ spoilt = 0 /\ reused = 0 /\ reset = 0
  BY DEF Init, Figures
<1>. QED  BY <1>1, <1>2, <1>3, FS_EmptySet DEF BalanceOK, KindsOK, ReuseOK, Imbalance

(* Goroutines are counted one by one. *)
LEMMA CountOne ==
  ASSUME NEW S \in SUBSET Workers, NEW w
  PROVE  /\ Cardinality(S) \in Nat
         /\ w \notin S => Cardinality(S \cup {w}) = Cardinality(S) + 1
         /\ w \in S => Cardinality(S \ {w}) = Cardinality(S) - 1
<1>1. IsFiniteSet(S)
  BY MetricsAssumption, FS_Subset
<1>. QED  BY <1>1, FS_CardinalityType, FS_AddElement, FS_RemoveElement

LEMMA Counts ==
  /\ Cardinality(UnderWay) \in Nat /\ Cardinality(Uncounted) \in Nat
  /\ Cardinality(ToKind) \in Nat /\ Cardinality(Holding) \in Nat /\ Cardinality(Failing) \in Nat
<1>1. /\ UnderWay \in SUBSET Workers /\ Uncounted \in SUBSET Workers /\ ToKind \in SUBSET Workers
      /\ Holding \in SUBSET Workers /\ Failing \in SUBSET Workers
  BY DEF UnderWay, Uncounted, ToKind, Holding, Failing
<1>. QED  BY <1>1, CountOne

LEMMA Figured ==
  ASSUME TypeOK
  PROVE  /\ fig["request"] \in Nat /\ fig["success"] \in Nat /\ fig["error"] \in Nat
         /\ fig["dial"] \in Nat /\ spoilt \in Nat /\ reused \in Nat /\ reset \in 0..8
BY DEF TypeOK, Figures

(* Whoever is neither idle nor on the way to a kind is under way. *)
LEMMA FewerUncounted ==
  /\ Cardinality(Uncounted) <= Cardinality(UnderWay)
  /\ Cardinality(ToKind) <= Cardinality(UnderWay)
<1>1. IsFiniteSet(UnderWay)
  BY MetricsAssumption, FS_Subset DEF UnderWay
<1>2. Uncounted \in SUBSET UnderWay /\ ToKind \in SUBSET UnderWay
  BY DEF UnderWay, Uncounted, ToKind
<1>. QED  BY <1>1, <1>2, FS_Subset

(* The places where a record is counted, as the figures see it. *)
Between(w) == RecordDial(w) \/ AddTotal(w) \/ LoadMin(w) \/ CasMin(w) \/ LoadMax(w) \/ CasMax(w)

LEMMA BetweenStep ==
  ASSUME TypeOK, NEW w \in Workers, Between(w)
  PROVE  /\ UnderWay' = UnderWay /\ Uncounted' = Uncounted /\ ToKind' = ToKind /\ Failing' = Failing
         /\ fig'["request"] = fig["request"] /\ fig'["success"] = fig["success"]
         /\ fig'["error"] = fig["error"]
         /\ UNCHANGED <<errorsByKind, reset, spoilt, reused, resets>>
<1>. USE DEF TypeOK, Figures, history, worker, Go
<1>1. /\ fig'["request"] = fig["request"] /\ fig'["success"] = fig["success"]
      /\ fig'["error"] = fig["error"]
      /\ UNCHANGED <<errorsByKind, reset, spoilt, reused, resets>>
  BY DEF Between, RecordDial, AddTotal, LoadMin, CasMin, LoadMax, CasMax
<1>2. /\ outcome' = outcome /\ pc' \in [Workers -> Places]
      /\ \A v \in Workers : v # w => pc'[v] = pc[v]
      /\ \/ pc' = pc
         \/ pc[w] \notin {"idle", "kind"} /\ pc'[w] \notin {"idle", "kind"}
  BY DEF Between, RecordDial, AddTotal, LoadMin, CasMin, LoadMax, CasMax, Places
<1>3. \A v \in Workers : /\ pc'[v] = "idle" <=> pc[v] = "idle"
                         /\ pc'[v] = "kind" <=> pc[v] = "kind"
  BY <1>2
<1>. QED  BY <1>1, <1>2, <1>3 DEF UnderWay, Uncounted, ToKind, Failing

LEMMA BeginStep ==
  ASSUME TypeOK, NEW w \in Workers, Begin(w)
  PROVE  /\ Cardinality(UnderWay') = Cardinality(UnderWay) + 1
         /\ Cardinality(Uncounted') = Cardinality(Uncounted) + 1
         /\ ToKind' = ToKind
         /\ fig'["request"] = fig["request"] + 1 /\ fig'["success"] = fig["success"]
         /\ fig'["error"] = fig["error"] /\ fig'["dial"] = fig["dial"]
         /\ spoilt' = IF reset = 0 THEN spoilt ELSE spoilt + 1
         /\ UNCHANGED <<errorsByKind, reset, resets>>
<1>1. /\ UnderWay' = UnderWay \cup {w} /\ w \notin UnderWay
      /\ Uncounted' = Uncounted \cup {w} /\ w \notin Uncounted /\ ToKind' = ToKind
  BY DEF Begin, Go, TypeOK, UnderWay, Uncounted, ToKind
<1>2. UnderWay \in SUBSET Workers /\ Uncounted \in SUBSET Workers
  BY DEF UnderWay, Uncounted
<1>3. /\ fig'["request"] = fig["request"] + 1 /\ fig'["success"] = fig["success"]
      /\ fig'["error"] = fig["error"] /\ fig'["dial"] = fig["dial"]
      /\ spoilt' = IF reset = 0 THEN spoilt ELSE spoilt + 1
      /\ UNCHANGED <<errorsByKind, reset, resets>>
  BY DEF Begin, TypeOK, Figures
<1>. QED  BY <1>1, <1>2, <1>3, CountOne

(* A success or an error takes a record off those not yet counted, *)
LEMMA CountStep ==
  ASSUME TypeOK, RecordOK, NEW w \in Workers, CountSuccess(w) \/ CountError(w)
  PROVE  /\ Cardinality(UnderWay') <= Cardinality(UnderWay)
         /\ Cardinality(Uncounted') = Cardinality(Uncounted) - 1
         /\ fig'["request"] = fig["request"] /\ fig'["dial"] = fig["dial"]
         /\ \/ /\ CountSuccess(w) /\ fig'["success"] = fig["success"] + 1
               /\ fig'["error"] = fig["error"] /\ ToKind' = ToKind /\ Failing' = Failing
            \/ /\ CountError(w) /\ fig'["success"] = fig["success"]
               /\ fig'["error"] = fig["error"] + 1
               /\ Cardinality(ToKind') <= Cardinality(ToKind) + 1
               /\ Cardinality(Failing') = Cardinality(Failing) - 1
         /\ UNCHANGED <<errorsByKind, reset, spoilt, reused, resets, dialed>>
<1>. USE DEF TypeOK, Figures, history, Go, Over
<1>1. /\ pc[w] = "outcome" /\ pc'[w] \in {"idle", "kind"} /\ pc' \in [Workers -> Places]
      /\ \A v \in Workers : v # w => pc'[v] = pc[v] /\ outcome'[v] = outcome[v]
  BY DEF CountSuccess, CountError, Places
<1>2. /\ Uncounted' = Uncounted \ {w} /\ w \in Uncounted
      /\ UnderWay' \in SUBSET UnderWay
  BY <1>1 DEF Uncounted, UnderWay
<1>3. /\ UnderWay \in SUBSET Workers /\ Uncounted \in SUBSET Workers
      /\ ToKind \in SUBSET Workers /\ Failing \in SUBSET Workers
  BY DEF UnderWay, Uncounted, ToKind, Failing
<1>4. Cardinality(UnderWay') <= Cardinality(UnderWay)
  <2>1. IsFiniteSet(UnderWay)
    BY MetricsAssumption, <1>3, FS_Subset
  <2>. QED  BY <1>2, <2>1, FS_Subset
<1>5. Cardinality(Uncounted') = Cardinality(Uncounted) - 1
  BY <1>2, <1>3, CountOne
<1>6. fig'["request"] = fig["request"] /\ fig'["dial"] = fig["dial"]
  BY DEF CountSuccess, CountError
<1>7. CASE CountSuccess(w)
  <2>1. fig'["success"] = fig["success"] + 1 /\ fig'["error"] = fig["error"]
    BY <1>7 DEF CountSuccess
  <2>2. pc'[w] = "idle" /\ outcome[w] = "ok"
    BY <1>7 DEF CountSuccess
  <2>3. ToKind' = ToKind
    BY <1>1, <2>2 DEF ToKind
  <2>4. Failing' = Failing
    BY <1>1, <2>2 DEF Failing, Uncounted
  <2>. QED  BY <1>4, <1>5, <1>6, <1>7, <2>1, <2>3, <2>4 DEF CountSuccess
<1>8. CASE CountError(w)
  <2>1. fig'["success"] = fig["success"] /\ fig'["error"] = fig["error"] + 1
    BY <1>8 DEF CountError
  <2>2. w \in Failing /\ Failing' = Failing \ {w}
    BY <1>1, <1>8 DEF Failing, Uncounted, CountError
  <2>3. Cardinality(ToKind') <= Cardinality(ToKind) + 1
    <3>1. ToKind' = ToKind \/ (w \notin ToKind /\ ToKind' = ToKind \cup {w})
      BY <1>1 DEF ToKind
    <3>. QED  BY <1>3, <3>1, CountOne, Counts
  <2>. QED  BY <1>3, <1>4, <1>5, <1>6, <1>8, <2>1, <2>2, <2>3, CountOne DEF CountError
<1>. QED  BY <1>7, <1>8

(* and a record under its kind ends. *)
LEMMA KindStep ==
  ASSUME TypeOK, RecordOK, NEW w \in Workers, CountKind(w)
  PROVE  /\ Cardinality(UnderWay') <= Cardinality(UnderWay)
         /\ Uncounted' = Uncounted /\ Failing' = Failing
         /\ Cardinality(ToKind') = Cardinality(ToKind) - 1
         /\ IsFiniteSet(ByKind) => /\ IsFiniteSet(ByKind')
                                   /\ Cardinality(ByKind') = Cardinality(ByKind) + 1
         /\ UNCHANGED <<fig, reset, spoilt, reused, resets, dialed>>
<1>. USE DEF TypeOK, history, Go, Over
<1>1. /\ pc[w] = "kind" /\ pc'[w] = "idle" /\ pc' \in [Workers -> Places]
      /\ \A v \in Workers : v # w => pc'[v] = pc[v] /\ outcome'[v] = outcome[v]
  BY DEF CountKind, Places
<1>2. /\ Uncounted' = Uncounted /\ Failing' = Failing /\ UnderWay' \in SUBSET UnderWay
      /\ w \in ToKind /\ ToKind' = ToKind \ {w}
  BY <1>1 DEF Uncounted, Failing, UnderWay, ToKind
<1>3. Cardinality(UnderWay') <= Cardinality(UnderWay)
  <2>1. IsFiniteSet(UnderWay)
    BY MetricsAssumption, FS_Subset DEF UnderWay
  <2>. QED  BY <1>2, <2>1, FS_Subset
<1>4. Cardinality(ToKind') = Cardinality(ToKind) - 1
  <2>1. ToKind \in SUBSET Workers
    BY DEF ToKind
  <2>. QED  BY <1>2, <2>1, CountOne
<1>5. ASSUME IsFiniteSet(ByKind)
      PROVE  IsFiniteSet(ByKind') /\ Cardinality(ByKind') = Cardinality(ByKind) + 1
  <2>. DEFINE k == outcome[w]
              n == errorsByKind[k]
              e == <<k, n + 1>>
  <2>1. k \in Kinds /\ n \in Nat
    BY <1>1 DEF RecordOK
  <2>2. /\ errorsByKind'[k] = n + 1
        /\ \A j \in Kinds : j # k => errorsByKind'[j] = errorsByKind[j]
    BY <2>1 DEF CountKind
  <2>3. 1..(n + 1) = (1..n) \cup {n + 1} /\ n + 1 \notin 1..n
    BY <2>1
  <2>. HIDE DEF n
  <2>4. e \notin ByKind
    BY <2>1, <2>3 DEF ByKind, n
  <2>5. ByKind' = ByKind \cup {e}
    <3>1. ASSUME NEW j \in Kinds
          PROVE  {j} \X (1..errorsByKind'[j]) =
                 ({j} \X (1..errorsByKind[j])) \cup (IF j = k THEN {e} ELSE {})
      <4>1. CASE j = k
        BY <2>2, <2>3, <4>1 DEF n
      <4>2. CASE j # k
        BY <2>2, <4>2
      <4>. QED  BY <4>1, <4>2
    <3>. QED  BY <2>1, <3>1 DEF ByKind
  <2>. QED  BY <1>5, <2>4, <2>5, FS_AddElement
<1>. QED  BY <1>2, <1>3, <1>4, <1>5 DEF CountKind

(* The goroutines' own dials. *)
LEMMA HoldingStep ==
  ASSUME TypeOK, NEW w \in Workers
  PROVE  /\ RecordDial(w) => /\ Cardinality(Holding') <= Cardinality(Holding) + 1
                             /\ fig'["dial"] = fig["dial"] + 1
         /\ AddTotal(w) \/ LoadMin(w) \/ CasMin(w) \/ LoadMax(w) \/ CasMax(w)
              => Holding' = Holding /\ fig'["dial"] = fig["dial"]
         /\ Begin(w) => /\ Cardinality(Holding') <= Cardinality(Holding)
                        /\ w \in Holding => Cardinality(Holding') = Cardinality(Holding) - 1
<1>0. Holding \in SUBSET Workers
  BY DEF Holding
<1>1. ASSUME RecordDial(w)
      PROVE  Cardinality(Holding') <= Cardinality(Holding) + 1 /\ fig'["dial"] = fig["dial"] + 1
  <2>1. fig'["dial"] = fig["dial"] + 1
    BY <1>1 DEF RecordDial, TypeOK, Figures
  <2>2. Holding' = Holding \cup {w}
    BY <1>1 DEF RecordDial, TypeOK, Holding
  <2>3. CASE w \in Holding
    <3>1. Holding' = Holding
      BY <2>2, <2>3
    <3>. QED  BY <2>1, <3>1, Counts
  <2>4. CASE w \notin Holding
    BY <1>0, <2>1, <2>2, <2>4, CountOne
  <2>. QED  BY <2>3, <2>4
<1>2. ASSUME AddTotal(w) \/ LoadMin(w) \/ CasMin(w) \/ LoadMax(w) \/ CasMax(w)
      PROVE  Holding' = Holding /\ fig'["dial"] = fig["dial"]
  BY <1>2 DEF AddTotal, LoadMin, CasMin, LoadMax, CasMax, TypeOK, Figures, Holding
<1>3. ASSUME Begin(w)
      PROVE  /\ Cardinality(Holding') <= Cardinality(Holding)
             /\ w \in Holding => Cardinality(Holding') = Cardinality(Holding) - 1
  <2>1. Holding' = Holding \ {w}
    BY <1>3 DEF Begin, TypeOK, Holding
  <2>2. CASE w \in Holding
    BY <1>0, <2>1, <2>2, CountOne, Counts
  <2>3. CASE w \notin Holding
    <3>1. Holding' = Holding
      BY <2>1, <2>3
    <3>. QED  BY <2>3, <3>1, Counts
  <2>. QED  BY <2>2, <2>3
<1>. QED  BY <1>1, <1>2, <1>3

(* A request that begins is a reuse, has a dial of its own, or will fail. *)
LEMMA BeginReuse ==
  ASSUME TypeOK, NEW w \in Workers, Begin(w)
  PROVE  \/ Failing' = Failing /\ reused' = reused + 1
         \/ Failing' = Failing /\ reused' = reused /\ w \in Holding
         \/ Cardinality(Failing') = Cardinality(Failing) + 1 /\ reused' = reused
<1>1. PICK o \in Outcomes :
         /\ outcome' = [outcome EXCEPT ![w] = o]
         /\ reused' = IF o = "ok" /\ ~dialed[w] THEN reused + 1 ELSE reused
  BY DEF Begin
<1>2. /\ pc[w] = "idle" /\ pc'[w] = "total"
      /\ \A v \in Workers : v # w => pc'[v] = pc[v] /\ outcome'[v] = outcome[v]
      /\ outcome'[w] = o
  BY <1>1 DEF Begin, Go, TypeOK
<1>3. CASE o = "ok"
  <2>1. Failing' = Failing
    BY <1>2, <1>3 DEF Failing, Uncounted
  <2>. QED  BY <1>1, <1>3, <2>1 DEF Holding
<1>4. CASE o # "ok"
  <2>1. Failing' = Failing \cup {w} /\ w \notin Failing
    BY <1>2, <1>4 DEF Failing, Uncounted
  <2>2. Failing \in SUBSET Workers
    BY DEF Failing, Uncounted
  <2>. QED  BY <1>1, <1>4, <2>1, <2>2, CountOne
<1>. QED  BY <1>3, <1>4

(* A Reset moves no record. *)
LEMMA ResetStep ==
  ASSUME TypeOK, ResetBegins \/ ResetStores \/ ResetEnds
  PROVE  /\ UnderWay' = UnderWay /\ Uncounted' = Uncounted /\ ToKind' = ToKind
         /\ (ResetStores \/ ResetEnds => resets' = resets)
         /\ (ResetBegins \/ ResetStores => errorsByKind' = errorsByKind)
<1>1. /\ pc' = pc /\ (ResetStores \/ ResetEnds => resets' = resets)
      /\ (ResetBegins \/ ResetStores => errorsByKind' = errorsByKind)
  BY DEF ResetBegins, ResetStores, ResetEnds, worker, history
<1>. QED  BY <1>1 DEF UnderWay, Uncounted, ToKind

LEMMA BalanceKept ==
  ASSUME TypeOK, RecordOK, BalanceOK, [Next]_vars PROVE BalanceOK'
<1>. USE Counts, Figured
<1>1. ASSUME NEW w \in Workers, Between(w) PROVE BalanceOK'
  BY <1>1, BetweenStep DEF BalanceOK, Served, Imbalance
<1>2. ASSUME NEW w \in Workers, Begin(w) PROVE BalanceOK'
  BY <1>2, BeginStep DEF BalanceOK, Served, Imbalance
<1>3. ASSUME NEW w \in Workers, CountSuccess(w) \/ CountError(w) PROVE BalanceOK'
  <2>1. /\ Cardinality(UnderWay') <= Cardinality(UnderWay)
        /\ Cardinality(Uncounted') = Cardinality(Uncounted) - 1
        /\ fig'["request"] = fig["request"] /\ reset' = reset /\ spoilt' = spoilt
        /\ \/ fig'["success"] = fig["success"] + 1 /\ fig'["error"] = fig["error"]
           \/ fig'["success"] = fig["success"] /\ fig'["error"] = fig["error"] + 1
    BY <1>3, CountStep
  <2>2. Cardinality(UnderWay') \in Nat
    BY <1>3, Counts, CountOne, TypeKept, MetricsAssumption, FS_Subset, FS_CardinalityType DEF UnderWay
  <2>. QED  BY <2>1, <2>2 DEF BalanceOK, Served, Imbalance
<1>4. ASSUME NEW w \in Workers, CountKind(w) PROVE BalanceOK'
  <2>1. Cardinality(UnderWay') \in Nat
    BY MetricsAssumption, FS_Subset, FS_CardinalityType DEF UnderWay
  <2>. QED  BY <1>4, <2>1, KindStep DEF BalanceOK, Served, Imbalance
<1>5. CASE ResetBegins
  <2>1. reset' = 1 /\ spoilt' = Cardinality(UnderWay)
    BY <1>5 DEF ResetBegins
  <2>. QED  BY <1>5, <2>1, ResetStep DEF BalanceOK
<1>6. CASE ResetStores
  <2>1. reset \in 1..7 /\ reset' = reset + 1 /\ spoilt' = spoilt
    BY <1>6 DEF ResetStores
  <2>2. /\ fig'["request"] = IF reset = 1 THEN 0 ELSE fig["request"]
        /\ fig'["success"] = IF reset = 2 THEN 0 ELSE fig["success"]
        /\ fig'["error"] = IF reset = 3 THEN 0 ELSE fig["error"]
    BY <1>6 DEF ResetStores, ResetOrder, TypeOK, Figures
  <2>3. Uncounted' = Uncounted /\ UnderWay' = UnderWay
    BY <1>6, ResetStep
  <2>. QED  BY <2>1, <2>2, <2>3, FewerUncounted DEF BalanceOK, Served, Imbalance
<1>7. CASE ResetEnds
  <2>1. reset = 8 /\ reset' = 0 /\ spoilt' = spoilt /\ fig' = fig
    BY <1>7 DEF ResetEnds, history
  <2>. QED  BY <1>7, <2>1, ResetStep DEF BalanceOK, Served, Imbalance
<1>8. CASE UNCHANGED vars
  BY <1>8 DEF vars, worker, history, BalanceOK, Served, Imbalance, UnderWay, Uncounted
<1>. QED  BY <1>1, <1>2, <1>3, <1>4, <1>5, <1>6, <1>7, <1>8 DEF Next, Record, Between

LEMMA KindsKept ==
  ASSUME TypeOK, RecordOK, BalanceOK, KindsOK, [Next]_vars PROVE KindsOK'
<1>. USE Counts, Figured
<1>0. IsFiniteSet(ByKind) /\ Cardinality(ByKind) \in Nat
  BY FS_CardinalityType DEF KindsOK
<1>1. ASSUME errorsByKind' = errorsByKind PROVE ByKind' = ByKind
  BY <1>1 DEF ByKind
<1>2. ASSUME NEW w \in Workers, Between(w) PROVE KindsOK'
  BY <1>1, <1>2, BetweenStep DEF KindsOK
<1>3. ASSUME NEW w \in Workers, Begin(w) PROVE KindsOK'
  BY <1>1, <1>3, BeginStep DEF KindsOK
<1>4. ASSUME NEW w \in Workers, CountSuccess(w) \/ CountError(w) PROVE KindsOK'
  <2>1. Cardinality(ToKind') \in Nat
    BY MetricsAssumption, FS_Subset, FS_CardinalityType DEF ToKind
  <2>. QED  BY <1>0, <1>1, <1>4, <2>1, CountStep DEF KindsOK
<1>5. ASSUME NEW w \in Workers, CountKind(w) PROVE KindsOK'
  BY <1>0, <1>5, KindStep DEF KindsOK
<1>6. CASE ResetBegins \/ ResetStores
  <2>1. reset' # 0
    BY <1>6 DEF ResetBegins, ResetStores
  <2>. QED  BY <1>0, <1>1, <1>6, <2>1, ResetStep DEF KindsOK
<1>7. CASE ResetEnds
  <2>1. reset = 8 /\ spoilt' = spoilt /\ fig' = fig /\ errorsByKind' = [k \in Kinds |-> 0]
    BY <1>7 DEF ResetEnds, history
  <2>2. ByKind' = {}
    BY <2>1 DEF ByKind
  <2>. QED  BY <1>7, <2>1, <2>2, ResetStep, FewerUncounted, FS_EmptySet DEF KindsOK, BalanceOK
<1>8. CASE UNCHANGED vars
  BY <1>1, <1>8 DEF vars, worker, history, KindsOK, ToKind
<1>. QED  BY <1>2, <1>3, <1>4, <1>5, <1>6, <1>7, <1>8 DEF Next, Record, Between

LEMMA ReuseKept ==
  ASSUME TypeOK, RecordOK, ReuseOK, [Next]_vars PROVE ReuseOK'
<1>. USE Counts, Figured
<1>0. Cardinality(Holding') \in Nat /\ Cardinality(Failing') \in Nat
  BY MetricsAssumption, FS_Subset, FS_CardinalityType DEF Holding, Failing, Uncounted
<1>1. ASSUME NEW w \in Workers, Between(w) PROVE ReuseOK'
  BY <1>0, <1>1, BetweenStep, HoldingStep DEF ReuseOK, Between
<1>2. ASSUME NEW w \in Workers, Begin(w) PROVE ReuseOK'
  BY <1>0, <1>2, BeginStep, BeginReuse, HoldingStep DEF ReuseOK
<1>3. ASSUME NEW w \in Workers, CountSuccess(w) \/ CountError(w) PROVE ReuseOK'
  <2>1. Holding' = Holding
    BY <1>3, CountStep DEF Holding
  <2>. QED  BY <1>0, <1>3, <2>1, CountStep DEF ReuseOK
<1>4. ASSUME NEW w \in Workers, CountKind(w) PROVE ReuseOK'
  <2>1. Holding' = Holding
    BY <1>4, KindStep DEF Holding
  <2>. QED  BY <1>4, <2>1, KindStep DEF ReuseOK
<1>5. CASE ResetBegins
  BY <1>5 DEF ResetBegins, ReuseOK, TypeOK
<1>6. CASE ResetStores \/ ResetEnds
  BY <1>6 DEF ResetStores, ResetEnds, ReuseOK, history
<1>7. CASE UNCHANGED vars
  BY <1>7 DEF vars, worker, history, ReuseOK, Holding, Failing, Uncounted
<1>. QED  BY <1>1, <1>2, <1>3, <1>4, <1>5, <1>6, <1>7 DEF Next, Record, Between

LEMMA CountsInvariant == Spec => [](BalanceOK /\ KindsOK /\ ReuseOK)
<1>1. Init => BalanceOK /\ KindsOK /\ ReuseOK
  BY InitCounts
<1>2. IInv /\ BalanceOK /\ KindsOK /\ ReuseOK /\ [Next]_vars
        => (BalanceOK /\ KindsOK /\ ReuseOK)'
  BY BalanceKept, KindsKept, ReuseKept DEF IInv
<1>. QED  BY <1>1, <1>2, Invariant, PTL DEF Spec

(* However a Reset races with records (metrics.go:141-155 and 163-202),    *)
(* requests, successes and errors agree up to one for each record it met.  *)
THEOREM CountsBalanced == Spec => []CountsBalance
<1>1. BalanceOK => CountsBalance
  BY DEF BalanceOK, CountsBalance
<1>. QED  BY <1>1, CountsInvariant, PTL

(* The map of errors by kind, which a Reset clears last and under a lock   *)
(* of its own, is never ahead of the errors by more than those records.    *)
THEOREM KindsBalanced == Spec => []KindsBalance
<1>1. TypeOK /\ KindsOK => KindsBalance
  <2>. SUFFICES ASSUME TypeOK, KindsOK PROVE KindsBalance
    OBVIOUS
  <2>1. Cardinality(ByKind) \in Nat
    BY FS_CardinalityType DEF KindsOK
  <2>. QED  BY <2>1, Counts, Figured DEF KindsOK, KindsBalance
<1>2. IInv => TypeOK
  BY DEF IInv
<1>. QED  BY <1>1, <1>2, CountsInvariant, Invariant, PTL

(* ConnectionReuseCount (metrics.go:115-122) exceeds the requests that     *)
(* reused a connection by those that failed, and by no other.              *)
THEOREM ReuseIsBounded == Spec => []ReuseBounded
<1>1. TypeOK /\ ReuseOK => ReuseBounded
  BY Counts, Figured DEF ReuseOK, ReuseBounded, ConnectionReuseCount
<1>2. IInv => TypeOK
  BY DEF IInv
<1>. QED  BY <1>1, <1>2, CountsInvariant, Invariant, PTL
==========================================================================
