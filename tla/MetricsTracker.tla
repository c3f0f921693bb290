--------------------------- MODULE MetricsTracker ---------------------------
(***************************************************************************)
(* The process-wide counters of metrics.go, one operator per atomic step.  *)
(* Callers of RecordArenaCreated take three or more of these steps one     *)
(* after the other, and others' steps come in between.  The total of       *)
(* bypassed bytes is counted in module Scope.                              *)
(***************************************************************************)
EXTENDS Integers

VARIABLE metrics

NoMetrics == [arenas |-> 0, scopes |-> 0, allocated |-> 0, high |-> 0]

CountArena(d)   == metrics' = [metrics EXCEPT !.arenas = @ + d]
CountScope(d)   == metrics' = [metrics EXCEPT !.scopes = @ + d]
AddAllocated(d) == metrics' = [metrics EXCEPT !.allocated = @ + d]

RaiseHighWater_Stores(old, current) == metrics' = [metrics EXCEPT !.high = current]

(***************************************************************************)
(* highWaterMarkBytes.CompareAndSwap(old, current)                         *)
(***************************************************************************)
RaiseHighWater(old, current) ==
  metrics' = IF metrics.high = old THEN [metrics EXCEPT !.high = current] ELSE metrics
=============================================================================
