----------------------- MODULE MCMetricsCollector -----------------------
(* Model-checking instance of MetricsCollector: two goroutines, three       *)
(* records, so that one goroutine can record again while the other is in    *)
(* the middle of a record that a Reset has met.                             *)
EXTENDS MetricsCollector, TLC

MCLatencies == {1, 2}

(* Goroutines are interchangeable; only invariants are checked. *)
MCSymmetry == Permutations(Workers)
==========================================================================
