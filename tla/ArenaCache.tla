----------------------------- MODULE ArenaCache -----------------------------
(***************************************************************************)
(* ArenaCache of cache.go: two generations, each a map whose keys and      *)
(* values are slices of the generation's arena.  A critical section of the *)
(* RWMutex is one step.  Get leaves its read lock before it promotes an    *)
(* old entry with Set, and its caller reads the value after Get returned,  *)
(* so both are steps of their own that work on whatever the memory holds   *)
(* by then.                                                                *)
(*                                                                         *)
(* Bytes are pairs <<key or value, position>>, so that no two keys or      *)
(* values have a byte in common.  Keys and values are not empty (Set       *)
(* panics on them) and a pair fits a generation: the arena keeps its first *)
(* chunk, and its offset is the number of bytes allocated since the reset. *)
(***************************************************************************)
EXTENDS Integers, Sequences, Functions

CONSTANTS
  Goroutines, Keys, Values,
  Length,        \* the length of each key and value
  MaxGenBytes,   \* c.maxGenBytes
  Missing        \* the answer of a Get that finds nothing

ASSUME CacheAssumption ==
  /\ MaxGenBytes \in Nat \ {0}
  /\ Length \in [Keys \cup Values -> Nat \ {0}]
  /\ \A k \in Keys, v \in Values : Length[k] + Length[v] <= MaxGenBytes
  /\ Missing \notin Keys \cup Values

VARIABLES
  mem,       \* the memory of the two arenas
  top,       \* their offsets
  used,      \* cacheGeneration.used
  entries,   \* cacheGeneration.entries
  active,    \* which generation is c.active; the other is c.old
  closed,    \* c.closed
  pc, loc,   \* where each goroutine is, with its key and slice
  stored,    \* history: what the last Set or Delete left under each key
  answer,    \* history: the key and the answer of the last Get to return
  spoilt     \* history: between the lookup of a Get and the moment its caller
             \* read the value, another goroutine changed the cache, or the
             \* promotion overwrote the value

cache == <<mem, top, used, entries, active, closed>>
cvars == <<mem, top, used, entries, active, closed, pc, loc, stored, answer, spoilt>>

Gen   == {1, 2}
Old   == 3 - active
Addr  == 1..MaxGenBytes
Blank == <<Missing, 0>>

Content(x) == [i \in 1..Length[x] |-> <<x, i>>]

Slice(g, off, len) == [gen |-> g, off |-> off, len |-> len]
Nowhere == [key |-> Missing, val |-> Slice(1, 0, 0)]

Bytes(m, s) == [i \in 1..s.len |-> m[s.gen][s.off + i]]

(***************************************************************************)
(* copy(dst, b): the source was read as a whole before (memmove).          *)
(***************************************************************************)
Copy(m, s, b) ==
  [m EXCEPT ![s.gen] =
     [i \in Addr |-> IF i \in s.off + 1 .. s.off + s.len THEN b[i - s.off] ELSE @[i]]]

Init ==
  /\ mem = [g \in Gen |-> [i \in Addr |-> Blank]]
  /\ top = [g \in Gen |-> 0]
  /\ used = [g \in Gen |-> 0]
  /\ entries = [g \in Gen |-> <<>>]
  /\ active = 1
  /\ closed = FALSE
  /\ pc = [g \in Goroutines |-> "idle"]
  /\ loc = [g \in Goroutines |-> Nowhere]
  /\ stored = [k \in Keys |-> Missing]
  /\ answer = [key |-> Missing, val |-> Missing]
  /\ spoilt = FALSE

Goto(g, label) == pc' = [pc EXCEPT ![g] = label]

Underway(g) == \E h \in Goroutines \ {g} : pc[h] \in {"promote", "return"}

Changes(g) == spoilt' = (spoilt \/ Underway(g))

Full(n) == used[active] + n > MaxGenBytes

(***************************************************************************)
(* The generation a Set of n bytes goes to, and what reset() leaves of a   *)
(* generation that is about to become the active one.  The memory itself   *)
(* is not cleared.                                                         *)
(***************************************************************************)
Target_SwapFirst(n) == active

Target(n) == IF Full(n) THEN Old ELSE active

ResetOffset_OneLess(g, n) == IF Full(n) \/ top[g] = 0 THEN 0 ELSE top[g] - 1

ResetOffset(g, n) == IF Full(n) THEN 0 ELSE top[g]

ResetUsed(g, n) == IF Full(n) THEN 0 ELSE used[g]

ResetEntries_KeepsMap(g, n) == entries[g]

ResetEntries(g, n) == IF Full(n) THEN <<>> ELSE entries[g]

(***************************************************************************)
(* Set(k, val) in its critical section, with len the length of val and     *)
(* Val(m) its bytes once the key has been copied to the memory m.          *)
(***************************************************************************)
Store(k, len, Val(_)) ==
  LET n    == Length[k] + len
      g    == Target(n)
      off  == ResetOffset(g, n)
      kBuf == Slice(g, off, Length[k])
      vBuf == Slice(g, off + Length[k], len)
      m    == Copy(mem, kBuf, Content(k))
      e    == ResetEntries(g, n)
  IN /\ mem' = Copy(m, vBuf, Val(m))
     /\ top' = [top EXCEPT ![g] = off + n]
     /\ used' = [used EXCEPT ![g] = ResetUsed(g, n) + n]
     /\ entries' = [entries EXCEPT ![g] =
                      [j \in DOMAIN e \cup {k} |->
                         IF j = k THEN [key |-> kBuf, val |-> vBuf] ELSE e[j]]]
     /\ active' = IF Full(n) THEN Old ELSE active
     /\ UNCHANGED closed

(***************************************************************************)
(* A Set of a closed cache does nothing.                                   *)
(***************************************************************************)
Set(g, k, v) ==
  /\ pc[g] = "idle"
  /\ ~closed
  /\ Store(k, Length[v], LAMBDA m : Content(v))
  /\ stored' = [stored EXCEPT ![k] = v]
  /\ Changes(g)
  /\ UNCHANGED <<pc, loc, answer>>

(***************************************************************************)
(* The read-locked part of Get.                                            *)
(***************************************************************************)
GetClosed(g, k) ==
  /\ pc[g] = "idle"
  /\ closed
  /\ answer' = [key |-> k, val |-> Missing]
  /\ UNCHANGED <<cache, pc, loc, stored, spoilt>>

Lookup(g, k) ==
  /\ pc[g] = "idle"
  /\ ~closed
  /\ LET Found(gen, label) ==
           /\ loc' = [loc EXCEPT ![g] = [key |-> k, val |-> entries[gen][k].val]]
           /\ Goto(g, label)
           /\ UNCHANGED answer
     IN IF k \in DOMAIN entries[active] THEN Found(active, "return")
        ELSE IF k \in DOMAIN entries[Old] THEN Found(Old, "promote")
        ELSE answer' = [key |-> k, val |-> Missing] /\ UNCHANGED <<pc, loc>>
  /\ UNCHANGED <<cache, stored, spoilt>>

(***************************************************************************)
(* The rotation of a promotion reuses the generation of the value that is  *)
(* being promoted.  The copy of the pair is sound, since the source is not *)
(* before its destination, but it is written over the source itself, which *)
(* Get returns, unless the value already lies where it goes or behind it.  *)
(***************************************************************************)
OverwritesItself(k, s) ==
  LET n == Length[k] + s.len
  IN Full(n) /\ s.gen = Old /\ s.off # Length[k] /\ s.off < n

(***************************************************************************)
(* c.Set(key, e.val): e.val still points into the generation it was found  *)
(* in, which Set may just be resetting.                                    *)
(***************************************************************************)
Promote(g) ==
  /\ pc[g] = "promote"
  /\ IF closed THEN UNCHANGED cache
     ELSE Store(loc[g].key, loc[g].val.len, LAMBDA m : Bytes(m, loc[g].val))
  /\ spoilt' = (spoilt \/ Underway(g) \/ OverwritesItself(loc[g].key, loc[g].val))
  /\ Goto(g, "return")
  /\ UNCHANGED <<loc, stored, answer>>

(***************************************************************************)
(* The value is read: by the caller of Get, or by the copy of GetScope.    *)
(* Reading memory that Close has unmapped stops the program.               *)
(***************************************************************************)
Return(g) ==
  /\ pc[g] = "return"
  /\ IF closed THEN Goto(g, "fault") /\ UNCHANGED answer
     ELSE Goto(g, "idle") /\ answer' = [key |-> loc[g].key, val |-> Bytes(mem, loc[g].val)]
  /\ loc' = [loc EXCEPT ![g] = Nowhere]
  /\ UNCHANGED <<cache, stored, spoilt>>

Delete_OnlyActive(g, k) ==
  /\ pc[g] = "idle"
  /\ entries' = [entries EXCEPT ![active] = Restrict(@, DOMAIN @ \ {k})]
  /\ stored' = [stored EXCEPT ![k] = Missing]
  /\ Changes(g)
  /\ UNCHANGED <<mem, top, used, active, closed, pc, loc, answer>>

Delete(g, k) ==
  /\ pc[g] = "idle"
  /\ entries' = [h \in Gen |-> Restrict(entries[h], DOMAIN entries[h] \ {k})]
  /\ stored' = [stored EXCEPT ![k] = Missing]
  /\ Changes(g)
  /\ UNCHANGED <<mem, top, used, active, closed, pc, loc, answer>>

(***************************************************************************)
(* Close unmaps both arenas; the maps stay as they are.                    *)
(***************************************************************************)
Close(g) ==
  /\ pc[g] = "idle"
  /\ closed' = TRUE
  /\ Changes(g)
  /\ UNCHANGED <<mem, top, used, entries, active, pc, loc, stored, answer>>

----------------------------------------------------------------------------

Next ==
  \E g \in Goroutines :
    \/ \E k \in Keys, v \in Values : Set(g, k, v)
    \/ \E k \in Keys : Lookup(g, k) \/ GetClosed(g, k) \/ Delete(g, k)
    \/ Promote(g) \/ Return(g) \/ Close(g)

Spec == Init /\ [][Next]_cvars

----------------------------------------------------------------------------
(* Properties *)

(***************************************************************************)
(* The state is well typed: the offsets agree with the bytes counted       *)
(* against the limit of a generation, and every entry lies below them.     *)
(***************************************************************************)
TypeOK ==
  /\ mem \in [Gen -> [Addr -> (Keys \cup Values \cup {Missing}) \X Nat]]
  /\ top \in [Gen -> 0..MaxGenBytes]
  /\ used = top
  /\ active \in Gen
  /\ closed \in BOOLEAN
  /\ \A g \in Gen :
       /\ DOMAIN entries[g] \subseteq Keys
       /\ \A k \in DOMAIN entries[g] :
            LET e == entries[g][k]
            IN /\ e.key = Slice(g, e.key.off, Length[k])
               /\ e.val = Slice(g, e.key.off + Length[k], e.val.len)
               /\ e.val.off + e.val.len <= top[g]
  /\ pc \in [Goroutines -> {"idle", "promote", "return", "fault"}]
  /\ \A g \in Goroutines : loc[g].key \in Keys <=> pc[g] \in {"promote", "return"}
  /\ stored \in [Keys -> Values \cup {Missing}]

(***************************************************************************)
(* The keys of a generation's map are strings over arena memory: as long   *)
(* as a map holds a key, nothing overwrites its bytes, whatever the        *)
(* promotions that race with Set and with rotations.                       *)
(***************************************************************************)
KeysIntact ==
  \A g \in Gen : \A k \in DOMAIN entries[g] : Bytes(mem, entries[g][k].key) = Content(k)

(***************************************************************************)
(* The maps of both generations refer to memory that is theirs and that    *)
(* holds what they say.                                                    *)
(***************************************************************************)
MapsSound == TypeOK /\ KeysIntact

Rotates == active' # active

(***************************************************************************)
(* Nor does anything overwrite the value of an entry while the map of its  *)
(* generation holds it.                                                    *)
(***************************************************************************)
ValuesStable ==
  [][\A g \in Gen : ~(Rotates /\ g = active') =>
       \A k \in DOMAIN entries[g] \cap DOMAIN entries'[g] :
         entries'[g][k] = entries[g][k] =>
           Bytes(mem', entries[g][k].val) = Bytes(mem, entries[g][k].val)]_cvars

Visible == DOMAIN entries[1] \cup DOMAIN entries[2]

(***************************************************************************)
(* An entry of the active generation survives the next rotation: a step    *)
(* removes it only if the step is a Delete of its key.                     *)
(***************************************************************************)
SurvivesOneRotation ==
  [][\A k \in DOMAIN entries[active] : k \in Visible' \/ stored'[k] = Missing]_cvars

Map == INSTANCE EvictingMap WITH
  Key <- Keys, Value <- {Content(v) : v \in Values},
  stored <- [k \in Keys |-> IF stored[k] = Missing THEN Missing ELSE Content(stored[k])]

(***************************************************************************)
(* Get answers what was stored last under its key, or a miss, through      *)
(* rotations, promotions and deletes, as long as nobody else changes the   *)
(* cache between the lookup of a Get and the use of its value, and no      *)
(* promotion overwrites the value it is promoting.                         *)
(***************************************************************************)
ImplementsMap == Map!MapInit /\ [][spoilt' \/ Map!MapNext]_(Map!mvars)

(***************************************************************************)
(* What the tests of cache_test.go expect of one goroutine: a Get answers  *)
(* what was stored last under its key, or a miss.                          *)
(***************************************************************************)
GetAnswersStored == Map!MapSpec
========================================
