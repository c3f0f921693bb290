----------------------------- MODULE AutoTuner -----------------------------
(***************************************************************************)
(* The AutoTuner of autotune.go: for each call site a moving average of    *)
(* the bytes its scopes used, and the slab size that follows from it.      *)
(* Calibrate works under the lock.  RecommendedSize looks the site up      *)
(* under the lock and reads its estimate after it has given the lock up.   *)
(***************************************************************************)
EXTENDS Integers

CONSTANTS
  Keys,        \* the call sites
  MinSlab, MaxSlab,
  PageSize     \* 4096

ASSUME TunerAssumption ==
  /\ MinSlab \in Nat \ {0}
  /\ MaxSlab \in Nat
  /\ MinSlab <= MaxSlab
  /\ PageSize \in Nat
  /\ PageSize >= 4

VARIABLE sites   \* estimatedBytes of each site, or Unknown

Unknown == -1

SitesInit == sites = [k \in Keys |-> Unknown]

(***************************************************************************)
(* int(float64(old)*0.7 + float64(new)*0.3).  Neither factor is a binary   *)
(* fraction: where the sum is a whole number the result can come out one   *)
(* below it (3 and 3 make 2), and Go may fuse the operations or not.       *)
(***************************************************************************)
Averages(old, new) ==
  LET tenths == 7 * old + 3 * new
  IN  {tenths \div 10} \cup (IF tenths % 10 = 0 THEN {tenths \div 10 - 1} ELSE {})

Calibrate(k, used) ==
  IF used <= 0 THEN UNCHANGED sites
  ELSE IF sites[k] = Unknown THEN sites' = [sites EXCEPT ![k] = used]
  ELSE \E e \in Averages(sites[k], used) : sites' = [sites EXCEPT ![k] = e]

Clamped(n) == IF n < MinSlab THEN MinSlab ELSE IF n > MaxSlab THEN MaxSlab ELSE n

PageAligned(n) == ((n + PageSize - 1) \div PageSize) * PageSize

SlabFor_RoundsDown(estimate) == (Clamped((5 * estimate) \div 4) \div PageSize) * PageSize

(***************************************************************************)
(* RecommendedSize for a known site: a quarter more than the estimate,     *)
(* within the limits, and then up to a whole page.                         *)
(***************************************************************************)
SlabFor(estimate) == PageAligned(Clamped((5 * estimate) \div 4))
============================================================================
