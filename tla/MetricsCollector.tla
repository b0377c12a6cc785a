------------------------ MODULE MetricsCollector ------------------------
(***************************************************************************)
(* MetricsCollector of metrics.go: goroutines of the Client that record    *)
(* dials and requests while others read the figures and Reset them.        *)
(*                                                                         *)
(* Every figure is a word of its own, read and written atomically: a       *)
(* record is a row of atomic operations with no lock around them, and one  *)
(* atomic operation is one step.  Reset holds m.mu, which keeps other      *)
(* Resets out but no record, and stores one zero after the other.  The map *)
(* of errors by kind has a lock, held for one step.                        *)
(*                                                                         *)
(* The variables of the last group are a history: they decide nothing, and *)
(* let the figures be compared with what was recorded.                     *)
(***************************************************************************)
EXTENDS Integers, FiniteSets

CONSTANTS Workers,      \* goroutines that record
          Latencies,    \* latencies of requests, in ticks
          Kinds,        \* kinds of TornagoError
          MaxRecords,   \* bound: requests and dials recorded
          MaxResets     \* bound: calls of Reset

(* What a request ended in: success, a TornagoError, or an error in which  *)
(* As finds none (that of a context, or a joined one).                     *)
Outcomes == {"ok", "untyped"} \cup Kinds

(* time.Since is positive.  A latency of 0 would be taken for the absence  *)
(* of a minimum.                                                           *)
ASSUME MetricsAssumption ==
  /\ IsFiniteSet(Workers)
  /\ Latencies \subseteq Nat \ {0} /\ {"ok", "untyped"} \cap Kinds = {}
  /\ MaxRecords \in Nat /\ MaxResets \in Nat

VARIABLES fig,        \* the figures that are words, by name
          errorsByKind,
          reset,      \* where Reset is: 0, or the store it does next
          pc, lat, outcome, \* per worker: place, and what it records
          old,        \* per worker: the value its CAS compares with
          dialed,     \* per worker: has it recorded a dial for its request
          records, resets,  \* counters
          minSeen, maxSeen, \* latencies offered to the minimum, the maximum
          spoilt,     \* requests whose record overlapped with the last Reset
          reused      \* requests that succeeded without a dial

history == <<minSeen, maxSeen, spoilt, reused>>
worker == <<pc, lat, outcome, old, dialed>>
vars == <<fig, errorsByKind, reset, worker, records, resets, history>>

Figures == {"request", "success", "error", "total", "min", "max", "dial"}

(* The order in which Reset stores them; the map comes last.               *)
ResetOrder == <<"request", "success", "error", "total", "min", "max", "dial">>

Init == /\ fig = [f \in Figures |-> 0]
        /\ errorsByKind = [k \in Kinds |-> 0]
        /\ reset = 0
        /\ pc = [w \in Workers |-> "idle"]
        /\ lat = [w \in Workers |-> 0]
        /\ outcome = [w \in Workers |-> "ok"]
        /\ old = [w \in Workers |-> 0]
        /\ dialed = [w \in Workers |-> FALSE]
        /\ records = 0 /\ resets = 0
        /\ minSeen = {} /\ maxSeen = {} /\ spoilt = 0 /\ reused = 0

UnderWay == {w \in Workers : pc[w] # "idle"}

Go(w, from, to) == pc[w] = from /\ pc' = [pc EXCEPT ![w] = to]

(* Faulty variant: the connection is recorded, and not counted. *)
RecordDialForgets(w) == /\ pc[w] = "idle"
                        /\ records < MaxRecords
                        /\ records' = records + 1
                        /\ dialed' = [dialed EXCEPT ![w] = TRUE]
                        /\ UNCHANGED <<fig, errorsByKind, reset, pc, lat, outcome, old, resets, history>>

(* recordDial: a connection is up. *)
RecordDial(w) == /\ pc[w] = "idle"
                 /\ records < MaxRecords
                 /\ records' = records + 1
                 /\ fig' = [fig EXCEPT !["dial"] = @ + 1]
                 /\ dialed' = [dialed EXCEPT ![w] = TRUE]
                 /\ UNCHANGED <<errorsByKind, reset, pc, lat, outcome, old, resets, history>>

(* recordRequest begins: the request is counted, *)
Begin(w) == /\ Go(w, "idle", "total")
            /\ records < MaxRecords
            /\ records' = records + 1
            /\ fig' = [fig EXCEPT !["request"] = @ + 1]
            /\ \E l \in Latencies : lat' = [lat EXCEPT ![w] = l]
            /\ \E o \in Outcomes :
                 /\ outcome' = [outcome EXCEPT ![w] = o]
                 /\ reused' = IF o = "ok" /\ ~dialed[w] THEN reused + 1 ELSE reused
            /\ dialed' = [dialed EXCEPT ![w] = FALSE]
            /\ spoilt' = IF reset = 0 THEN spoilt ELSE spoilt + 1
            /\ UNCHANGED <<errorsByKind, reset, old, resets, minSeen, maxSeen>>

(* its latency is added, *)
AddTotal(w) == /\ Go(w, "total", "loadMin")
               /\ fig' = [fig EXCEPT !["total"] = @ + lat[w]]
               /\ UNCHANGED <<errorsByKind, reset, lat, outcome, old, dialed,
                              records, resets, history>>

(* the minimum is loaded, and left alone if it is lower, *)
LoadMin(w) == /\ IF fig["min"] # 0 /\ lat[w] >= fig["min"]
                 THEN /\ Go(w, "loadMin", "loadMax")
                      /\ minSeen' = minSeen \cup {lat[w]}
                      /\ UNCHANGED old
                 ELSE /\ Go(w, "loadMin", "casMin")
                      /\ old' = [old EXCEPT ![w] = fig["min"]]
                      /\ UNCHANGED minSeen
              /\ UNCHANGED <<fig, errorsByKind, reset, lat, outcome, dialed,
                             records, resets, maxSeen, spoilt, reused>>

(* Faulty variant: a store in place of the compare-and-swap. *)
CasMinStores(w) == /\ Go(w, "casMin", "loadMax")
                   /\ fig' = [fig EXCEPT !["min"] = lat[w]]
                   /\ minSeen' = minSeen \cup {lat[w]}
                   /\ old' = [old EXCEPT ![w] = 0]
                   /\ UNCHANGED <<errorsByKind, reset, lat, outcome, dialed,
                                  records, resets, maxSeen, spoilt, reused>>

(* or replaced if it is still what was loaded; if not, once more; *)
CasMin(w) == /\ IF fig["min"] = old[w]
                THEN /\ Go(w, "casMin", "loadMax")
                     /\ fig' = [fig EXCEPT !["min"] = lat[w]]
                     /\ minSeen' = minSeen \cup {lat[w]}
                ELSE Go(w, "casMin", "loadMin") /\ UNCHANGED <<fig, minSeen>>
             /\ old' = [old EXCEPT ![w] = 0]
             /\ UNCHANGED <<errorsByKind, reset, lat, outcome, dialed,
                            records, resets, maxSeen, spoilt, reused>>

(* the same for the maximum; *)
LoadMax(w) == /\ IF lat[w] <= fig["max"]
                 THEN /\ Go(w, "loadMax", "outcome")
                      /\ maxSeen' = maxSeen \cup {lat[w]}
                      /\ UNCHANGED old
                 ELSE /\ Go(w, "loadMax", "casMax")
                      /\ old' = [old EXCEPT ![w] = fig["max"]]
                      /\ UNCHANGED maxSeen
              /\ UNCHANGED <<fig, errorsByKind, reset, lat, outcome, dialed,
                             records, resets, minSeen, spoilt, reused>>

CasMax(w) == /\ IF fig["max"] = old[w]
                THEN /\ Go(w, "casMax", "outcome")
                     /\ fig' = [fig EXCEPT !["max"] = lat[w]]
                     /\ maxSeen' = maxSeen \cup {lat[w]}
                ELSE Go(w, "casMax", "loadMax") /\ UNCHANGED <<fig, maxSeen>>
             /\ old' = [old EXCEPT ![w] = 0]
             /\ UNCHANGED <<errorsByKind, reset, lat, outcome, dialed,
                            records, resets, minSeen, spoilt, reused>>

(* The record is over, and its variables are gone. *)
Over(w) == /\ pc' = [pc EXCEPT ![w] = "idle"]
           /\ lat' = [lat EXCEPT ![w] = 0]
           /\ outcome' = [outcome EXCEPT ![w] = "ok"]

(* Faulty variant: only errors with a kind are counted. *)
CountErrorTyped(w) == /\ pc[w] = "outcome" /\ outcome[w] # "ok"
                      /\ IF outcome[w] \in Kinds
                         THEN /\ Go(w, "outcome", "kind")
                              /\ fig' = [fig EXCEPT !["error"] = @ + 1]
                              /\ UNCHANGED <<lat, outcome>>
                         ELSE Over(w) /\ UNCHANGED fig
                      /\ UNCHANGED <<errorsByKind, reset, old, dialed, records, resets, history>>

(* the request counts as a success *)
CountSuccess(w) == /\ pc[w] = "outcome" /\ outcome[w] = "ok"
                   /\ fig' = [fig EXCEPT !["success"] = @ + 1]
                   /\ Over(w)
                   /\ UNCHANGED <<errorsByKind, reset, old, dialed, records, resets, history>>

(* or as an error, *)
CountError(w) == /\ pc[w] = "outcome" /\ outcome[w] # "ok"
                 /\ fig' = [fig EXCEPT !["error"] = @ + 1]
                 /\ IF outcome[w] \in Kinds
                    THEN Go(w, "outcome", "kind") /\ UNCHANGED <<lat, outcome>>
                    ELSE Over(w)
                 /\ UNCHANGED <<errorsByKind, reset, old, dialed, records, resets, history>>

(* and an error that has a kind is also counted under that kind. *)
CountKind(w) == /\ pc[w] = "kind"
                /\ errorsByKind' = [errorsByKind EXCEPT ![outcome[w]] = @ + 1]
                /\ Over(w)
                /\ UNCHANGED <<fig, reset, old, dialed, records, resets, history>>

(* Reset takes m.mu. *)
ResetBegins == /\ reset = 0
               /\ resets < MaxResets
               /\ resets' = resets + 1
               /\ reset' = 1
               /\ spoilt' = Cardinality(UnderWay)
               /\ UNCHANGED <<fig, errorsByKind, worker, records, minSeen, maxSeen, reused>>

ResetStores == /\ reset \in 1..7
               /\ fig' = [fig EXCEPT ![ResetOrder[reset]] = 0]
               /\ reset' = reset + 1
               /\ minSeen' = IF ResetOrder[reset] = "min" THEN {} ELSE minSeen
               /\ maxSeen' = IF ResetOrder[reset] = "max" THEN {} ELSE maxSeen
               /\ UNCHANGED <<errorsByKind, worker, records, resets, spoilt, reused>>

(* Faulty variant: the map is kept. *)
ResetEndsKeeping == /\ reset = 8
                    /\ reset' = 0
                    /\ UNCHANGED <<fig, errorsByKind, worker, records, resets, history>>

ResetEnds == /\ reset = 8
             /\ errorsByKind' = [k \in Kinds |-> 0]
             /\ reset' = 0
             /\ UNCHANGED <<fig, worker, records, resets, history>>

Record(w) == \/ RecordDial(w) \/ Begin(w) \/ AddTotal(w) \/ LoadMin(w) \/ CasMin(w)
             \/ LoadMax(w) \/ CasMax(w) \/ CountSuccess(w) \/ CountError(w) \/ CountKind(w)

Next == ResetBegins \/ ResetStores \/ ResetEnds \/ \E w \in Workers : Record(w)

Spec == Init /\ [][Next]_vars

(* What the getter of this name computes. *)
ConnectionReuseCount == IF fig["dial"] >= fig["request"] THEN 0
                        ELSE fig["request"] - fig["dial"]

--------------------------------------------------------------------------
Places == {"idle", "total", "loadMin", "casMin", "loadMax", "casMax", "outcome", "kind"}

(* Values of the state. *)
TypeOK == /\ fig \in [Figures -> Nat]
          /\ errorsByKind \in [Kinds -> Nat]
          /\ reset \in 0..8
          /\ pc \in [Workers -> Places]
          /\ lat \in [Workers -> Latencies \cup {0}]
          /\ outcome \in [Workers -> Outcomes]
          /\ old \in [Workers -> Nat]
          /\ dialed \in [Workers -> BOOLEAN]
          /\ records \in Nat /\ resets \in Nat
          /\ minSeen \subseteq Latencies /\ maxSeen \subseteq Latencies
          /\ spoilt \in Nat /\ reused \in Nat

MinExact == /\ minSeen = {} => fig["min"] = 0
            /\ minSeen # {} => fig["min"] \in minSeen /\ \A l \in minSeen : fig["min"] <= l
MaxExact == /\ maxSeen = {} => fig["max"] = 0
            /\ maxSeen # {} => fig["max"] \in maxSeen /\ \A l \in maxSeen : l <= fig["max"]

(* MinLatency and MaxLatency are the least and the greatest of the         *)
(* latencies offered since they were last set to zero: no record overwrites*)
(* a better one, although it compares first and writes later, other records*)
(* write in between, and a Reset may do so too.                            *)
LatenciesExact == MinExact /\ MaxExact

(* Every request ends up as one success or one error.  A Reset may spoil   *)
(* the balance of the records that overlap with it, by one each, and       *)
(* nothing else does: after a Reset that met no record the figures agree.  *)
Uncounted == {w \in Workers : pc[w] \notin {"idle", "kind"}}
Imbalance == fig["request"] - fig["success"] - fig["error"] - Cardinality(Uncounted)
CountsBalance == reset = 0 => Imbalance \in (-spoilt)..spoilt

(* The errors by kind add up to the errors at most, up to those records.   *)
ByKind == UNION {{k} \X (1..errorsByKind[k]) : k \in Kinds}
KindsBalance == reset = 0 => Cardinality(ByKind) <= fig["error"] + spoilt

(* ConnectionReuseCount does not say how many requests reused a connection:*)
(* one that fails without having one counts too.  Until a Reset, it exceeds*)
(* the reuses by the errors at most, those on their way included.          *)
Failing == {w \in Uncounted : outcome[w] # "ok"}
ReuseBounded == resets = 0 =>
                  ConnectionReuseCount <= reused + fig["error"] + Cardinality(Failing)
==========================================================================
