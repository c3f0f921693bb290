---------------------------- MODULE EvictingMap ----------------------------
(***************************************************************************)
(* What a cache promises: it may forget a pair at any time, but a lookup   *)
(* that does not miss answers what was stored last under the key.          *)
(***************************************************************************)

CONSTANTS Key, Value, Missing

VARIABLES stored,   \* what the last Put or Remove left under each key
          answer    \* the last key looked up, and the answer

mvars == <<stored, answer>>

MapInit ==
  /\ stored = [k \in Key |-> Missing]
  /\ answer = [key |-> Missing, val |-> Missing]

Put(k, v) == stored' = [stored EXCEPT ![k] = v] /\ UNCHANGED answer

Remove(k) == stored' = [stored EXCEPT ![k] = Missing] /\ UNCHANGED answer

Lookup(k) ==
  /\ answer' \in [key : {k}, val : {Missing, stored[k]}]
  /\ UNCHANGED stored

MapNext ==
  \/ \E k \in Key, v \in Value : Put(k, v)
  \/ \E k \in Key : Remove(k) \/ Lookup(k)

MapSpec == MapInit /\ [][MapNext]_mvars
============================================================================
