---------------------------- MODULE ArenaProofs ----------------------------
(***************************************************************************)
(* Machine-checked proofs about module Arena, for any number of goroutines,*)
(* requests, chunks and marks, and with no discipline asked of clients:    *)
(* type correctness; and, as long as every chunk is smaller than the       *)
(* offsets an ArenaMark can hold, that an Arena implements RegionStack and *)
(* therefore never hands out a byte that is in use.                        *)
(***************************************************************************)
EXTENDS Arena, TLAPS

(***************************************************************************)
(* What a goroutine in the middle of tryAlloc knows about the range it is  *)
(* about to claim, one in Close about the chunks it releases, one in       *)
(* Savepoint about the slot it fills.                                      *)
(***************************************************************************)
LocalsInvAt(g) ==
  /\ pc[g] \in {"try", "cas", "slice"} => loc[g].cur \in 1..grown
  /\ pc[g] \in {"try", "cas", "lock", "size", "map"} => loc[g].req.n >= 1
  /\ pc[g] = "cas" => loc[g].off <= loc[g].lo /\ loc[g].lo < loc[g].hi
  /\ pc[g] \in {"release", "clear"} => 1 <= loc[g].cur /\ loc[g].cur <= loc[g].lim
                                       /\ loc[g].lim <= grown
  /\ pc[g] = "save" => loc[g].slot \in Slots /\ loc[g].cur >= 1
  /\ sweep[g].active <= grown

LocalsInv == active <= grown /\ \A g \in Goroutines : LocalsInvAt(g)

----------------------------------------------------------------------------
(* Type correctness *)

(***************************************************************************)
(* Aligning an address gives an integer.                                   *)
(***************************************************************************)
LEMMA AlignUpType ==
  ASSUME NEW x \in Nat, NEW a \in Nat \ {0}
  PROVE  AlignUp(x, a) \in Int
<1> DEFINE s == x + (a - 1)
<1>1. s \in Int
  OBVIOUS
<1>2. s % a \in Int
  BY <1>1
<1>3. AlignUp(x, a) = s - (s % a)
  BY DEF AlignUp
<1> HIDE DEF s
<1> QED
  BY <1>1, <1>2, <1>3

(***************************************************************************)
(* The order in which Reset and Rollback visit the chunks is a sequence of *)
(* chunk numbers.                                                          *)
(***************************************************************************)
LEMMA InOrderType == HeapTypeOK => InOrder \in Seq(ChunkId)
  BY ArenaAssumption DEF HeapTypeOK, InOrder, NumChunks, ChunkId

(***************************************************************************)
(* The constant records of the model have the types of the variables.      *)
(***************************************************************************)
LEMMA ConstantTypes ==
  /\ Zeroes \in [ChunkId -> Nat]
  /\ NoLocals \in Locals
  /\ NoSweep \in Sweeps
  /\ NilSavepoint \in Savepoints
  /\ 1 \in ChunkId
  BY ArenaAssumption DEF Zeroes, NoLocals, NoRequest, Locals, NoSweep, Sweeps, Nil,
     NilSavepoint, Savepoints, ChunkId

(***************************************************************************)
(* The types of the fields of a goroutine's locals and of its sweep.       *)
(***************************************************************************)
LEMMA LocalFields ==
  ASSUME LocalTypeOK, NEW g \in Goroutines
  PROVE  /\ loc[g] \in Locals
         /\ loc[g].req.n \in Nat /\ loc[g].req.align \in Nat \ {0}
         /\ loc[g].ctx \in {"fast", "retry", "scan", "fresh"}
         /\ loc[g].cur \in Nat /\ loc[g].lim \in Nat
         /\ loc[g].off \in Nat /\ loc[g].lo \in Nat /\ loc[g].hi \in Nat
         /\ loc[g].size \in Nat /\ loc[g].slot \in Nat
  BY DEF LocalTypeOK, Locals

LEMMA SweepFields ==
  ASSUME LocalTypeOK, NEW g \in Goroutines
  PROVE  /\ sweep[g] \in Sweeps
         /\ sweep[g].todo \in Seq(ChunkId)
         /\ sweep[g].off \in [ChunkId -> Nat] /\ sweep[g].stamp \in [ChunkId -> Nat]
         /\ sweep[g].since \in Nat /\ sweep[g].active \in 0..MaxChunks
  BY DEF LocalTypeOK, Sweeps

(***************************************************************************)
(* The updates of locals that the methods make keep their type.            *)
(***************************************************************************)
LEMMA LocalsUpdates ==
  ASSUME NEW l \in Locals
  PROVE  /\ \A c, k \in Nat : \A x \in {"fast", "retry", "scan", "fresh"} :
              [l EXCEPT !.cur = c, !.ctx = x, !.lim = k] \in Locals
         /\ \A o, a, b \in Nat : [l EXCEPT !.off = o, !.lo = a, !.hi = b] \in Locals
         /\ \A n \in Nat : [l EXCEPT !.size = n] \in Locals
         /\ \A c, k \in Nat : [l EXCEPT !.cur = c, !.slot = k] \in Locals
         /\ \A c, k \in Nat : [l EXCEPT !.cur = c, !.lim = k] \in Locals
         /\ \A c \in Nat : [l EXCEPT !.cur = c] \in Locals
         /\ \A rq \in Requests : \A c, k \in Nat :
              /\ [l EXCEPT !.req = rq] \in Locals
              /\ [l EXCEPT !.req = rq, !.cur = c, !.lim = k] \in Locals
  BY ArenaAssumption DEF Locals

(***************************************************************************)
(* What an update of locals changes, and what it keeps.                    *)
(***************************************************************************)
LEMMA UpdatedFields ==
  ASSUME NEW l \in Locals
  PROVE  /\ \A c, x, k : LET m == [l EXCEPT !.cur = c, !.ctx = x, !.lim = k]
                        IN m.cur = c /\ m.ctx = x /\ m.lim = k /\ m.req = l.req /\ m.size = l.size
         /\ \A o, a, b : LET m == [l EXCEPT !.off = o, !.lo = a, !.hi = b]
                        IN /\ m.off = o /\ m.lo = a /\ m.hi = b
                           /\ m.cur = l.cur /\ m.req = l.req /\ m.lim = l.lim /\ m.ctx = l.ctx
         /\ \A n : LET m == [l EXCEPT !.size = n]
                  IN m.size = n /\ m.req = l.req /\ m.ctx = l.ctx
         /\ \A c, k : LET m == [l EXCEPT !.cur = c, !.lim = k]
                     IN m.cur = c /\ m.lim = k /\ m.ctx = l.ctx
         /\ \A c : LET m == [l EXCEPT !.cur = c]
                  IN m.cur = c /\ m.lim = l.lim /\ m.slot = l.slot /\ m.ctx = l.ctx
         /\ \A rq : [l EXCEPT !.req = rq].req = rq /\ [l EXCEPT !.req = rq].ctx = l.ctx
         /\ \A rq, c, k : LET m == [l EXCEPT !.req = rq, !.cur = c, !.lim = k]
                         IN m.req = rq /\ m.cur = c /\ m.lim = k /\ m.ctx = l.ctx
  BY DEF Locals

(***************************************************************************)
(* The numbers of a well-typed heap, and its chunks.                       *)
(***************************************************************************)
LEMMA HeapNumbers ==
  ASSUME HeapTypeOK
  PROVE  /\ taken \in Nat /\ grown \in Nat /\ taken <= grown /\ 1 <= grown
         /\ MaxChunks \in Nat /\ grown <= MaxChunks
         /\ active \in Nat /\ active <= MaxChunks
         /\ curCap \in Nat
         /\ \A c \in 1..grown : c \in ChunkId
  BY ArenaAssumption DEF HeapTypeOK, ChunkId

LEMMA ChunkFields ==
  ASSUME HeapTypeOK, NEW c \in ChunkId
  PROVE  /\ c \in Nat /\ 1 <= c /\ c <= MaxChunks
         /\ cap[c] \in Nat /\ off[c] \in Nat /\ base[c] \in Nat
  BY ArenaAssumption DEF HeapTypeOK, ChunkId

LEMMA ActiveChunk == HeapTypeOK /\ active # Nil => active \in ChunkId
  BY ArenaAssumption DEF HeapTypeOK, ChunkId, Nil

(***************************************************************************)
(* Assigning well-typed locals keeps the types.                            *)
(***************************************************************************)
LEMMA SetLocalsType ==
  ASSUME LocalTypeOK, NEW g \in Goroutines, NEW l \in Locals, SetLocals(g, l), UNCHANGED sweep
  PROVE  LocalTypeOK'
  BY DEF LocalTypeOK, SetLocals

(***************************************************************************)
(* The size that allocSlow settles on is a number, and at most what it     *)
(* wanted.                                                                 *)
(***************************************************************************)
LEMMA SizeType ==
  ASSUME HeapTypeOK, NEW n \in Nat
  PROVE  ClampedSize(n) \in Nat /\ WantedSize(n) \in Nat /\ ClampedSize(n) <= WantedSize(n)
  BY ArenaAssumption DEF HeapTypeOK, ClampedSize, WantedSize

(***************************************************************************)
(* NewArena makes a well-typed arena.                                      *)
(***************************************************************************)
LEMMA TypeInit == Init => TypeOK
<1> SUFFICES ASSUME Init PROVE TypeOK
  OBVIOUS
<1> USE ArenaAssumption, ConstantTypes DEF Init
<1>1. HeapTypeOK
  BY DEF HeapTypeOK, ChunkId
<1>2. ControlTypeOK
  BY DEF ControlTypeOK, Labels
<1>3. LocalTypeOK
  BY DEF LocalTypeOK
<1>4. HeldTypeOK
  BY DEF HeldTypeOK, ZeroMark
<1>5. Stack!StackTypeOK
  BY DEF Stack!StackTypeOK
<1> QED
  BY <1>1, <1>2, <1>3, <1>4, <1>5 DEF TypeOK

(***************************************************************************)
(* Every step of every method keeps the types.                             *)
(***************************************************************************)
LEMMA TypeStep == TypeOK /\ LocalsInv /\ [Next]_vars => TypeOK'
<1> SUFFICES ASSUME TypeOK, LocalsInv, [Next]_vars PROVE TypeOK'
  OBVIOUS
<1> USE DEF TypeOK
<1>1. ASSUME NEW g \in Goroutines, NEW rq \in Requests, TryAlloc(g, rq) PROVE TypeOK'
  <2>1. HeapTypeOK'
    BY <1>1 DEF heap, TryAlloc, Goto, SetLocals, HeapTypeOK
  <2>2. ControlTypeOK'
    BY <1>1 DEF TryAlloc, Goto, SetLocals, Labels, ControlTypeOK
  <2>3. LocalTypeOK'
    <3>1. [NoLocals EXCEPT !.req = rq] \in Locals
      BY ConstantTypes, LocalsUpdates
    <3>2. active # Nil => active \in Nat /\ cap[active] \in Nat
      BY ActiveChunk, ChunkFields
    <3>3. active # Nil => [NoLocals EXCEPT !.req = rq, !.cur = active, !.lim = cap[active]] \in Locals
      BY <3>2, ConstantTypes, LocalsUpdates
    <3> QED
      BY <1>1, <3>1, <3>3, SetLocalsType DEF TryAlloc
  <2>4. HeldTypeOK'
    BY <1>1 DEF held, TryAlloc, Goto, SetLocals, HeldTypeOK
  <2>5. Stack!StackTypeOK'
    BY <1>1 DEF ghost, TryAlloc, Goto, SetLocals, Stack!StackTypeOK
  <2> QED
    BY <2>1, <2>2, <2>3, <2>4, <2>5
<1>2. ASSUME NEW g \in Goroutines, LoadOff(g) PROVE TypeOK'
  <2>1. HeapTypeOK'
    BY <1>2 DEF heap, LoadOff, HeapTypeOK
  <2>2. ControlTypeOK'
    BY <1>2 DEF LoadOff, Labels, Goto, ScanOn, FailLocked, Return, ControlTypeOK
  <2>3. LocalTypeOK'
    <3> DEFINE c  == loc[g].cur
               lo == AlignedOff(c, off[c], loc[g].req.align)
               hi == lo + loc[g].req.n
    <3>1. c \in 1..grown
      BY <1>2 DEF LoadOff, LocalsInv, LocalsInvAt
    <3>2. c \in ChunkId /\ off[c] \in Nat /\ base[c] \in Nat
      BY <3>1, HeapNumbers, ChunkFields
    <3>3. lo \in Int
      <4>1. base[c] + off[c] \in Nat
        BY <3>2
      <4> QED
        BY <4>1, <3>2, LocalFields, AlignUpType DEF AlignedOff
    <3>4. Fits(loc[g], lo, hi) => lo \in Nat /\ hi \in Nat
      <4> HIDE DEF lo
      <4> QED
        BY <3>2, <3>3, LocalFields DEF Fits
    <3>5. Fits(loc[g], lo, hi)
            => [loc[g] EXCEPT !.off = off[c], !.lo = lo, !.hi = hi] \in Locals
      BY <3>2, <3>4, LocalFields, LocalsUpdates
    <3>6. c < grown => c + 1 \in Nat /\ cap[c + 1] \in Nat
      <4>1. c < grown => c + 1 \in 1..grown
        BY <3>1, HeapNumbers
      <4> QED
        BY <4>1, <3>1, HeapNumbers, ChunkFields
    <3>7. c < grown => [loc[g] EXCEPT !.cur = c + 1, !.ctx = "scan", !.lim = cap[c + 1]] \in Locals
      BY <3>6, LocalFields, LocalsUpdates
    <3> QED
      BY <1>2, <3>5, <3>7, SetLocalsType, ConstantTypes
         DEF LoadOff, ScanOn, TryOn, FailLocked, Return, LocalTypeOK
  <2>4. HeldTypeOK'
    BY <1>2 DEF held, LoadOff, HeldTypeOK
  <2>5. Stack!StackTypeOK'
    BY <1>2 DEF ghost, LoadOff, Stack!StackTypeOK
  <2> QED
    BY <2>1, <2>2, <2>3, <2>4, <2>5
<1>3. ASSUME NEW g \in Goroutines, CompareAndSwap(g) PROVE TypeOK'
  <2>1. HeapTypeOK'
    BY <1>3, LocalFields DEF heap, CompareAndSwap, HeapTypeOK
  <2>2. ControlTypeOK'
    BY <1>3 DEF CompareAndSwap, Labels, Goto, ControlTypeOK
  <2>3. LocalTypeOK'
    BY <1>3 DEF CompareAndSwap, LocalTypeOK
  <2>4. HeldTypeOK'
    BY <1>3 DEF held, CompareAndSwap, HeldTypeOK
  <2>5. Stack!StackTypeOK'
    <3> DEFINE l == loc[g]
               r == [chunk |-> l.cur, lo |-> l.lo, hi |-> l.hi, at |-> clock + 1, align |-> l.req.align]
    <3>1. l.cur \in ChunkId
      BY <1>3, HeapNumbers DEF CompareAndSwap, LocalsInv, LocalsInvAt
    <3>2. r \in Stack!Region
      BY <3>1, LocalFields DEF Stack!Region, Stack!StackTypeOK
    <3> QED
      BY <1>3, <3>2 DEF CompareAndSwap, Stack!StackTypeOK, ghost
  <2> QED
    BY <2>1, <2>2, <2>3, <2>4, <2>5
<1>4. ASSUME NEW g \in Goroutines, SliceBuf(g) PROVE TypeOK'
  <2>1. HeapTypeOK'
    <3>1. loc[g].cur \in 0..MaxChunks
      BY <1>4, HeapNumbers DEF SliceBuf, LocalsInv, LocalsInvAt
    <3> QED
      BY <1>4, <3>1 DEF SliceBuf, HeapTypeOK, heap
  <2>2. ControlTypeOK'
    BY <1>4 DEF SliceBuf, Return, Goto, Labels, ControlTypeOK
  <2>3. LocalTypeOK'
    BY <1>4, SetLocalsType, ConstantTypes DEF SliceBuf, Return, LocalTypeOK
  <2>4. HeldTypeOK'
    BY <1>4 DEF held, SliceBuf, Return, HeldTypeOK
  <2>5. Stack!StackTypeOK'
    BY <1>4 DEF ghost, SliceBuf, Return, Stack!StackTypeOK
  <2> QED
    BY <2>1, <2>2, <2>3, <2>4, <2>5
<1>5. ASSUME NEW g \in Goroutines, LockSlow(g) PROVE TypeOK'
  <2>1. HeapTypeOK'
    BY <1>5 DEF heap, LockSlow, HeapTypeOK
  <2>2. ControlTypeOK'
    BY <1>5 DEF LockSlow, Goto, Labels, ControlTypeOK
  <2>3. LocalTypeOK'
    <3>1. active # Nil => active \in Nat /\ cap[active] \in Nat
      BY ActiveChunk, ChunkFields
    <3>2. active # Nil => [loc[g] EXCEPT !.cur = active, !.ctx = "retry", !.lim = cap[active]] \in Locals
      BY <3>1, LocalFields, LocalsUpdates
    <3> QED
      BY <1>5, <3>2, SetLocalsType DEF LockSlow, TryOn, LocalTypeOK
  <2>4. HeldTypeOK'
    BY <1>5 DEF held, LockSlow, HeldTypeOK
  <2>5. Stack!StackTypeOK'
    BY <1>5 DEF ghost, LockSlow, Stack!StackTypeOK
  <2> QED
    BY <2>1, <2>2, <2>3, <2>4, <2>5
<1>6. ASSUME NEW g \in Goroutines, ChooseSize(g) PROVE TypeOK'
  <2>1. HeapTypeOK'
    BY <1>6 DEF heap, ChooseSize, HeapTypeOK
  <2>2. ControlTypeOK'
    BY <1>6 DEF ChooseSize, Goto, Return, FailLocked, Labels, ControlTypeOK
  <2>3. LocalTypeOK'
    <3>1. [loc[g] EXCEPT !.size = ClampedSize(loc[g].req.n)] \in Locals
      BY LocalFields, SizeType, LocalsUpdates
    <3> QED
      BY <1>6, <3>1, SetLocalsType, ConstantTypes DEF ChooseSize, Return, FailLocked
  <2>4. HeldTypeOK'
    BY <1>6 DEF held, ChooseSize, HeldTypeOK
  <2>5. Stack!StackTypeOK'
    BY <1>6 DEF ghost, ChooseSize, Stack!StackTypeOK
  <2> QED
    BY <2>1, <2>2, <2>3, <2>4, <2>5
<1>7. ASSUME NEW g \in Goroutines, GrowChunk(g) PROVE TypeOK'
  <2>1. HeapTypeOK'
    <3>1. grown + 1 \in ChunkId /\ grown + 1 \in 0..MaxChunks
      BY <1>7, HeapNumbers DEF GrowChunk, ChunkId
    <3>2. loc[g].size \in Nat /\ Bases \subseteq Nat /\ taken <= grown + 1 /\ curCap + loc[g].size \in Nat
      BY LocalFields, HeapNumbers, ArenaAssumption
    <3> QED
      BY <1>7, <3>1, <3>2 DEF GrowChunk, HeapTypeOK
  <2>2. ControlTypeOK'
    BY <1>7 DEF GrowChunk, Goto, Labels, ControlTypeOK
  <2>3. LocalTypeOK'
    <3>0. loc[g] \in Locals /\ grown + 1 \in Nat /\ loc[g].size \in Nat
      BY LocalFields, HeapNumbers
    <3>1. [loc[g] EXCEPT !.cur = grown + 1, !.ctx = "fresh", !.lim = loc[g].size] \in Locals
      BY <3>0, LocalsUpdates
    <3> QED
      BY <1>7, <3>1, SetLocalsType DEF GrowChunk
  <2>4. HeldTypeOK'
    BY <1>7 DEF held, GrowChunk, HeldTypeOK
  <2>5. Stack!StackTypeOK'
    BY <1>7 DEF ghost, GrowChunk, Stack!StackTypeOK
  <2> QED
    BY <2>1, <2>2, <2>3, <2>4, <2>5
<1>8. ASSUME NEW g \in Goroutines, GrowFails(g) PROVE TypeOK'
  <2>1. HeapTypeOK'
    BY <1>8 DEF heap, GrowFails, Return, FailLocked, HeapTypeOK
  <2>2. ControlTypeOK'
    BY <1>8 DEF GrowFails, Return, FailLocked, Goto, Labels, ControlTypeOK
  <2>3. LocalTypeOK'
    BY <1>8, SetLocalsType, ConstantTypes DEF GrowFails, Return, FailLocked, LocalTypeOK
  <2>4. HeldTypeOK'
    BY <1>8 DEF held, GrowFails, Return, FailLocked, HeldTypeOK
  <2>5. Stack!StackTypeOK'
    BY <1>8 DEF ghost, GrowFails, Return, FailLocked, Stack!StackTypeOK
  <2> QED
    BY <2>1, <2>2, <2>3, <2>4, <2>5
<1>9. ASSUME NEW g \in Goroutines, Reset(g) PROVE TypeOK'
  <2>1. HeapTypeOK'
    BY <1>9 DEF heap, Reset, BeginSweep, HeapTypeOK
  <2>2. ControlTypeOK'
    BY <1>9 DEF Reset, BeginSweep, Goto, Labels, ControlTypeOK
  <2>3. LocalTypeOK'
    <3>1. (IF NumChunks > 0 THEN taken + 1 ELSE active) \in 0..MaxChunks
      BY HeapNumbers DEF NumChunks
    <3>2. [NoSweep EXCEPT !.todo = InOrder,
             !.active = IF NumChunks > 0 THEN taken + 1 ELSE active] \in Sweeps
      BY <3>1, InOrderType, ConstantTypes DEF Sweeps
    <3> QED
      BY <1>9, <3>2 DEF Reset, BeginSweep, LocalTypeOK
  <2>4. HeldTypeOK'
    BY <1>9 DEF held, Reset, BeginSweep, HeldTypeOK
  <2>5. Stack!StackTypeOK'
    BY <1>9 DEF ghost, Reset, BeginSweep, Stack!StackTypeOK
  <2> QED
    BY <2>1, <2>2, <2>3, <2>4, <2>5
<1>10. ASSUME NEW g \in Goroutines, NEW s \in Slots, Rewind(g, s) PROVE TypeOK'
  <2>1. HeapTypeOK'
    BY <1>10 DEF heap, Rewind, BeginSweep, HeapTypeOK
  <2>2. ControlTypeOK'
    BY <1>10 DEF Rewind, BeginSweep, Goto, Labels, ControlTypeOK
  <2>3. LocalTypeOK'
    <3> DEFINE m      == marks[s]
               target == taken + m.idx
               after  == [i \in 1..(grown - target) |-> target + i]
    <3>1. m.idx \in Nat \ {0} /\ m.off \in Nat /\ m.stamp \in Nat
      BY DEF HeldTypeOK
    <3>0. m.idx <= NumChunks
      BY <1>10 DEF Rewind, RewindAllowed
    <3>2. target \in 1..grown
      <4> HIDE DEF m
      <4> QED
        BY <3>0, <3>1, HeapNumbers DEF NumChunks
    <3>3. target \in ChunkId /\ target \in 0..MaxChunks
      BY <3>2, HeapNumbers
    <3> HIDE DEF m, target
    <3>4. after \in Seq(ChunkId)
      <4>1. grown - target \in Nat
        BY <3>2, HeapNumbers
      <4>2. ASSUME NEW i \in 1..(grown - target) PROVE target + i \in ChunkId
        <5>1. target + i \in 1..grown
          BY <3>2, HeapNumbers
        <5> QED
          BY <5>1, HeapNumbers
      <4> QED
        BY <4>1, <4>2
    <3> HIDE DEF after
    <3>5. Append(after, target) \in Seq(ChunkId)
      BY <3>3, <3>4
    <3>6. /\ [Zeroes EXCEPT ![target] = m.off] \in [ChunkId -> Nat]
          /\ [Zeroes EXCEPT ![target] = m.stamp] \in [ChunkId -> Nat]
      BY <3>1, <3>3, ConstantTypes
    <3>7. [todo |-> Append(after, target), off |-> [Zeroes EXCEPT ![target] = m.off],
           stamp |-> [Zeroes EXCEPT ![target] = m.stamp], since |-> m.stamp,
           active |-> target] \in Sweeps
      BY <3>1, <3>3, <3>5, <3>6 DEF Sweeps
    <3> QED
      BY <1>10, <3>7 DEF Rewind, BeginSweep, LocalTypeOK, after, m, target
  <2>4. HeldTypeOK'
    BY <1>10 DEF held, Rewind, BeginSweep, HeldTypeOK
  <2>5. Stack!StackTypeOK'
    BY <1>10 DEF ghost, Rewind, BeginSweep, Stack!StackTypeOK
  <2> QED
    BY <2>1, <2>2, <2>3, <2>4, <2>5
<1>11. ASSUME NEW g \in Goroutines, NEW s \in Slots, Rollback(g, s) PROVE TypeOK'
  <2>1. HeapTypeOK'
    BY <1>11 DEF heap, Rollback, BeginSweep, HeapTypeOK
  <2>2. ControlTypeOK'
    BY <1>11 DEF Rollback, BeginSweep, Goto, Labels, ControlTypeOK
  <2>3. LocalTypeOK'
    <3> DEFINE sp == sps[s]
    <3>1. sp.n \in Nat /\ sp.active \in Nat \ {0} /\ sp.since \in Nat
          /\ sp.off \in [ChunkId -> Nat] /\ sp.stamp \in [ChunkId -> Nat]
      BY DEF HeldTypeOK, Savepoints
    <3>a. sp.n <= NumChunks
      BY <1>11 DEF Rollback
    <3> HIDE DEF sp
    <3>2. ASSUME NEW f \in [ChunkId -> Nat] PROVE Saved(sp, f) \in [ChunkId -> Nat]
      <4>1. ASSUME NEW c \in ChunkId, c - taken \in 1..sp.n PROVE c - taken \in ChunkId
        BY <4>1, <3>1, <3>a, HeapNumbers, ChunkFields DEF NumChunks, ChunkId
      <4> QED
        BY <4>1 DEF Saved
    <3>3. (IF sp.active <= NumChunks THEN taken + sp.active ELSE active) \in 0..MaxChunks
      BY <3>1, HeapNumbers DEF NumChunks
    <3>4. [todo |-> InOrder, off |-> Saved(sp, sp.off), stamp |-> Saved(sp, sp.stamp),
           since |-> sp.since,
           active |-> IF sp.active <= NumChunks THEN taken + sp.active ELSE active] \in Sweeps
      BY <3>1, <3>2, <3>3, InOrderType DEF Sweeps
    <3> QED
      BY <1>11, <3>4 DEF Rollback, BeginSweep, LocalTypeOK, sp
  <2>4. HeldTypeOK'
    BY <1>11 DEF held, Rollback, BeginSweep, HeldTypeOK
  <2>5. Stack!StackTypeOK'
    BY <1>11 DEF ghost, Rollback, BeginSweep, Stack!StackTypeOK
  <2> QED
    BY <2>1, <2>2, <2>3, <2>4, <2>5
<1>12. ASSUME NEW g \in Goroutines, StoreOff(g) PROVE TypeOK'
  <2>1. HeapTypeOK'
    <3>1. Head(sweep[g].todo) \in ChunkId
      BY <1>12, SweepFields DEF StoreOff
    <3> QED
      BY <1>12, <3>1, SweepFields DEF StoreOff, HeapTypeOK, heap
  <2>2. ControlTypeOK'
    BY <1>12 DEF StoreOff, ControlTypeOK
  <2>3. LocalTypeOK'
    <3>1. Tail(sweep[g].todo) \in Seq(ChunkId)
      BY <1>12, SweepFields DEF StoreOff
    <3>2. [sweep[g] EXCEPT !.todo = Tail(sweep[g].todo)] \in Sweeps
      BY <3>1, SweepFields DEF Sweeps
    <3> QED
      BY <1>12, <3>2 DEF StoreOff, LocalTypeOK
  <2>4. HeldTypeOK'
    BY <1>12 DEF held, StoreOff, HeldTypeOK
  <2>5. Stack!StackTypeOK'
    BY <1>12 DEF ghost, StoreOff, Stack!StackTypeOK
  <2> QED
    BY <2>1, <2>2, <2>3, <2>4, <2>5
<1>13. ASSUME NEW g \in Goroutines, StoreActive(g) PROVE TypeOK'
  <2>1. HeapTypeOK'
    BY <1>13, SweepFields DEF heap, StoreActive, HeapTypeOK
  <2>2. ControlTypeOK'
    BY <1>13 DEF StoreActive, Goto, Labels, ControlTypeOK
  <2>3. LocalTypeOK'
    BY <1>13, ConstantTypes DEF StoreActive, LocalTypeOK
  <2>4. HeldTypeOK'
    BY <1>13 DEF held, StoreActive, HeldTypeOK
  <2>5. Stack!StackTypeOK'
    BY <1>13 DEF ghost, StoreActive, Stack!StackTypeOK
  <2> QED
    BY <2>1, <2>2, <2>3, <2>4, <2>5
<1>14. ASSUME NEW g \in Goroutines, NEW s \in Slots, Mark(g, s) PROVE TypeOK'
  <2>1. HeapTypeOK'
    BY <1>14 DEF heap, Mark, HeapTypeOK
  <2>2. ControlTypeOK'
    BY <1>14 DEF Mark, ControlTypeOK
  <2>3. LocalTypeOK'
    BY <1>14 DEF Mark, LocalTypeOK
  <2>4. HeldTypeOK'
    <3>1. \A o \in Nat : o % MarkModulus \in Nat
      BY ArenaAssumption
    <3>2. NumChunks > 0 => /\ MarkedChunk - taken \in Nat \ {0}
                           /\ MarkedChunk \in 1..grown
      BY HeapNumbers DEF NumChunks, MarkedChunk, Chunks
    <3>5. NumChunks > 0 => off[MarkedChunk] \in Nat
      BY <3>2, HeapNumbers, ChunkFields
    <3>3. NumChunks > 0 => MakeMark(MarkedChunk - taken, off[MarkedChunk])
                             \in [idx : Nat \ {0}, off : Nat, stamp : Nat]
      BY <3>1, <3>2, <3>5 DEF MakeMark, Stack!StackTypeOK
    <3>4. MakeMark(1, 0) \in [idx : Nat \ {0}, off : Nat, stamp : Nat]
      BY <3>1 DEF MakeMark, Stack!StackTypeOK
    <3> QED
      BY <1>14, <3>3, <3>4 DEF Mark, HeldTypeOK
  <2>5. Stack!StackTypeOK'
    BY <1>14 DEF ghost, Mark, Stack!StackTypeOK
  <2> QED
    BY <2>1, <2>2, <2>3, <2>4, <2>5
<1>15. ASSUME NEW g \in Goroutines, NEW s \in Slots, Savepoint(g, s) PROVE TypeOK'
  <2>1. HeapTypeOK'
    BY <1>15 DEF heap, Savepoint, HeapTypeOK
  <2>2. ControlTypeOK'
    BY <1>15 DEF Savepoint, Goto, Labels, ControlTypeOK
  <2>3. LocalTypeOK'
    <3>1. [loc[g] EXCEPT !.cur = 1, !.slot = s] \in Locals
      BY LocalFields, LocalsUpdates, ArenaAssumption
    <3> QED
      BY <1>15, <3>1, SetLocalsType DEF Savepoint
  <2>4. HeldTypeOK'
    <3>1. (IF active \in Chunks THEN active - taken ELSE 1) \in Nat \ {0}
      BY HeapNumbers DEF Chunks
    <3>2. NumChunks \in Nat /\ clock \in Nat
      BY HeapNumbers DEF NumChunks, Stack!StackTypeOK
    <3>3. [NilSavepoint EXCEPT !.n = NumChunks, !.since = clock,
             !.active = IF active \in Chunks THEN active - taken ELSE 1] \in Savepoints
      BY <3>1, <3>2, ConstantTypes DEF Savepoints
    <3> QED
      BY <1>15, <3>3 DEF Savepoint, HeldTypeOK
  <2>5. Stack!StackTypeOK'
    BY <1>15 DEF ghost, Savepoint, Stack!StackTypeOK
  <2> QED
    BY <2>1, <2>2, <2>3, <2>4, <2>5
<1>16. ASSUME NEW g \in Goroutines, SaveOff(g) PROVE TypeOK'
  <2>1. HeapTypeOK'
    BY <1>16 DEF heap, SaveOff, HeapTypeOK
  <2>2. ControlTypeOK'
    BY <1>16 DEF SaveOff, ControlTypeOK
  <2>3. LocalTypeOK'
    <3>0. loc[g] \in Locals /\ loc[g].cur + 1 \in Nat
      BY LocalFields
    <3>1. [loc[g] EXCEPT !.cur = loc[g].cur + 1] \in Locals
      BY <3>0, LocalsUpdates
    <3> QED
      BY <1>16, <3>1, SetLocalsType DEF SaveOff
  <2>4. HeldTypeOK'
    <3> DEFINE i == loc[g].cur
               s == loc[g].slot
    <3>1. s \in Slots /\ i \in ChunkId /\ taken + i \in ChunkId
      BY <1>16, LocalFields, HeapNumbers DEF SaveOff, LocalsInv, LocalsInvAt, NumChunks, ChunkId
    <3>2. off[taken + i] \in Nat /\ clock \in Nat /\ sps[s] \in Savepoints
      BY <3>1 DEF HeapTypeOK, Stack!StackTypeOK, HeldTypeOK
    <3> HIDE DEF i, s
    <3>3. [sps[s] EXCEPT !.off = [@ EXCEPT ![i] = off[taken + i]], !.stamp = [@ EXCEPT ![i] = clock]]
            \in Savepoints
      BY <3>1, <3>2 DEF Savepoints
    <3> QED
      BY <1>16, <3>1, <3>3 DEF SaveOff, HeldTypeOK, i, s
  <2>5. Stack!StackTypeOK'
    BY <1>16 DEF ghost, SaveOff, Stack!StackTypeOK
  <2> QED
    BY <2>1, <2>2, <2>3, <2>4, <2>5
<1>17. ASSUME NEW g \in Goroutines, SaveDone(g) PROVE TypeOK'
  <2>1. HeapTypeOK'
    BY <1>17 DEF heap, SaveDone, Return, HeapTypeOK
  <2>2. ControlTypeOK'
    BY <1>17 DEF SaveDone, Return, Goto, Labels, ControlTypeOK
  <2>3. LocalTypeOK'
    BY <1>17, SetLocalsType, ConstantTypes DEF SaveDone, Return, LocalTypeOK
  <2>4. HeldTypeOK'
    <3> DEFINE s == loc[g].slot
    <3>1. s \in Slots
      BY <1>17 DEF SaveDone, LocalsInv, LocalsInvAt
    <3>2. sps[s] \in Savepoints
      BY <3>1 DEF HeldTypeOK
    <3> HIDE DEF s
    <3>3. [sps[s] EXCEPT !.state = "valid"] \in Savepoints
      BY <3>2 DEF Savepoints
    <3>4. sps' = [sps EXCEPT ![s] = [sps[s] EXCEPT !.state = "valid"]] /\ marks' = marks
      BY <1>17 DEF SaveDone, s
    <3> QED
      BY <3>3, <3>4 DEF HeldTypeOK
  <2>5. Stack!StackTypeOK'
    BY <1>17 DEF ghost, SaveDone, Return, Stack!StackTypeOK
  <2> QED
    BY <2>1, <2>2, <2>3, <2>4, <2>5
<1>18. ASSUME NEW g \in Goroutines, Close(g) PROVE TypeOK'
  <2>1. HeapTypeOK'
    BY <1>18 DEF heap, Close, HeapTypeOK
  <2>2. ControlTypeOK'
    BY <1>18 DEF Close, Goto, Labels, ControlTypeOK
  <2>3. LocalTypeOK'
    BY <1>18 DEF Close, LocalTypeOK
  <2>4. HeldTypeOK'
    BY <1>18 DEF held, Close, HeldTypeOK
  <2>5. Stack!StackTypeOK'
    BY <1>18 DEF ghost, Close, Stack!StackTypeOK
  <2> QED
    BY <2>1, <2>2, <2>3, <2>4, <2>5
<1>19. ASSUME NEW g \in Goroutines, CloseTake(g) PROVE TypeOK'
  <2>1. HeapTypeOK'
    BY <1>19, HeapNumbers DEF heap, CloseTake, Nil, HeapTypeOK
  <2>2. ControlTypeOK'
    BY <1>19 DEF CloseTake, Goto, Return, Labels, ControlTypeOK
  <2>3. LocalTypeOK'
    <3>0. loc[g] \in Locals /\ taken + 1 \in Nat /\ grown \in Nat
      BY LocalFields, HeapNumbers
    <3>1. [loc[g] EXCEPT !.cur = taken + 1, !.lim = grown] \in Locals
      BY <3>0, LocalsUpdates
    <3> QED
      BY <1>19, <3>1, SetLocalsType, ConstantTypes DEF CloseTake, Return
  <2>4. HeldTypeOK'
    BY <1>19 DEF held, CloseTake, HeldTypeOK
  <2>5. Stack!StackTypeOK'
    BY <1>19 DEF ghost, CloseTake, Stack!StackTypeOK
  <2> QED
    BY <2>1, <2>2, <2>3, <2>4, <2>5
<1>20. ASSUME NEW g \in Goroutines, Unmap(g) PROVE TypeOK'
  <2>1. HeapTypeOK'
    BY <1>20 DEF heap, Unmap, HeapTypeOK
  <2>2. ControlTypeOK'
    BY <1>20 DEF Unmap, Goto, Labels, ControlTypeOK
  <2>3. LocalTypeOK'
    BY <1>20 DEF Unmap, LocalTypeOK
  <2>4. HeldTypeOK'
    BY <1>20 DEF held, Unmap, HeldTypeOK
  <2>5. Stack!StackTypeOK'
    BY <1>20 DEF ghost, Unmap, Stack!StackTypeOK
  <2> QED
    BY <2>1, <2>2, <2>3, <2>4, <2>5
<1>21. ASSUME NEW g \in Goroutines, ClearChunk(g) PROVE TypeOK'
  <2>1. HeapTypeOK'
    BY <1>21 DEF heap, ClearChunk, HeapTypeOK
  <2>2. ControlTypeOK'
    BY <1>21 DEF ClearChunk, Goto, Return, Labels, ControlTypeOK
  <2>3. LocalTypeOK'
    <3>0. loc[g] \in Locals /\ loc[g].cur + 1 \in Nat
      BY LocalFields
    <3>1. [loc[g] EXCEPT !.cur = loc[g].cur + 1] \in Locals
      BY <3>0, LocalsUpdates
    <3> QED
      BY <1>21, <3>1, SetLocalsType, ConstantTypes DEF ClearChunk, Return
  <2>4. HeldTypeOK'
    BY <1>21 DEF held, ClearChunk, HeldTypeOK
  <2>5. Stack!StackTypeOK'
    BY <1>21 DEF ghost, ClearChunk, Stack!StackTypeOK
  <2> QED
    BY <2>1, <2>2, <2>3, <2>4, <2>5
<1>22. CASE UNCHANGED vars
  BY <1>22 DEF vars, heap, held, ghost, HeapTypeOK, ControlTypeOK, LocalTypeOK, HeldTypeOK,
     Stack!StackTypeOK
<1> QED
  BY <1>1, <1>2, <1>3, <1>4, <1>5, <1>6, <1>7, <1>8, <1>9, <1>10, <1>11, <1>12,
     <1>13, <1>14, <1>15, <1>16, <1>17, <1>18, <1>19, <1>20, <1>21, <1>22
     DEF Next, AllocStep, ReclaimStep, SnapshotStep, CloseStep

(***************************************************************************)
(* Of the goroutines, only g moves.                                        *)
(***************************************************************************)
Elsewhere(g) ==
  \A h \in Goroutines \ {g} : pc'[h] = pc[h] /\ loc'[h] = loc[h] /\ sweep'[h] = sweep[h]

(***************************************************************************)
(* A step of one goroutine leaves the locals of the others alone.          *)
(***************************************************************************)
LEMMA OthersUntouched ==
  ASSUME ControlTypeOK, LocalTypeOK, NEW g \in Goroutines,
         AllocStep(g) \/ ReclaimStep(g) \/ SnapshotStep(g) \/ CloseStep(g)
  PROVE  Elsewhere(g)
<1> USE DEF ControlTypeOK, LocalTypeOK, Elsewhere, Goto, SetLocals, Return
<1>1. CASE AllocStep(g)
  BY <1>1 DEF AllocStep, TryAlloc, LoadOff, ScanOn, TryOn, FailLocked, CompareAndSwap, SliceBuf,
     LockSlow, ChooseSize, GrowChunk, GrowFails
<1>2. CASE ReclaimStep(g)
  BY <1>2 DEF ReclaimStep, Reset, Rewind, Rollback, BeginSweep, StoreOff, StoreActive
<1>3. CASE SnapshotStep(g)
  BY <1>3 DEF SnapshotStep, Mark, Savepoint, SaveOff, SaveDone
<1>4. CASE CloseStep(g)
  BY <1>4 DEF CloseStep, Close, CloseTake, Unmap, ClearChunk
<1> QED
  BY <1>1, <1>2, <1>3, <1>4

(***************************************************************************)
(* A step of one goroutine that keeps its own locals consistent, leaves    *)
(* those of the others alone and removes no chunk keeps LocalsInv.         *)
(***************************************************************************)
LEMMA LocalsOthers ==
  ASSUME TypeOK, LocalsInv, TypeOK', NEW g \in Goroutines, LocalsInvAt(g)',
         active' <= grown' /\ grown <= grown', Elsewhere(g)
  PROVE  LocalsInv'
<1> SUFFICES ASSUME NEW h \in Goroutines, h # g PROVE LocalsInvAt(h)'
  BY DEF LocalsInv
<1>1. LocalsInvAt(h) /\ pc'[h] = pc[h] /\ loc'[h] = loc[h] /\ sweep'[h] = sweep[h]
  BY DEF LocalsInv, Elsewhere
<1>2. grown \in Nat /\ grown' \in Nat /\ grown <= grown'
  BY ArenaAssumption DEF TypeOK, HeapTypeOK, ChunkId
<1>3. loc[h].cur \in Nat /\ loc[h].lim \in Nat /\ sweep[h].active \in Nat
  BY LocalFields, SweepFields DEF TypeOK
<1> QED
  BY <1>1, <1>2, <1>3 DEF LocalsInvAt

LEMMA LocalsInit == Init => LocalsInv
  BY DEF Init, LocalsInv, LocalsInvAt, NoSweep, Nil

LEMMA LocalsStep == TypeOK /\ LocalsInv /\ [Next]_vars => LocalsInv'
<1> SUFFICES ASSUME TypeOK, LocalsInv, [Next]_vars PROVE LocalsInv'
  OBVIOUS
<1>a. TypeOK'
  BY TypeStep
<1>b. /\ pc \in [Goroutines -> Labels]
      /\ loc \in [Goroutines -> Locals]
      /\ sweep \in [Goroutines -> Sweeps]
  BY DEF TypeOK, ControlTypeOK, LocalTypeOK
<1>c. HeapTypeOK /\ LocalTypeOK
  BY DEF TypeOK
<1>d. taken \in Nat /\ grown \in Nat /\ taken <= grown /\ 1 <= grown
  BY <1>c, HeapNumbers
<1>1. ASSUME NEW g \in Goroutines, NEW rq \in Requests, TryAlloc(g, rq) PROVE LocalsInv'
  <2>1. LocalsInvAt(g)'
    <3>1. rq.n >= 1
      BY ArenaAssumption
    <3>2. active # Nil => active \in 1..grown
      BY <1>c, <1>d, HeapNumbers DEF LocalsInv, Nil
    <3>3. grown' = grown /\ sweep'[g].active <= grown
      BY <1>1 DEF TryAlloc, heap, LocalsInv, LocalsInvAt
    <3>4. CASE active = Nil
      <4>0. pc'[g] = "lock" /\ loc'[g] = [NoLocals EXCEPT !.req = rq]
        BY <1>1, <1>b, <3>4 DEF TryAlloc, Goto, SetLocals
      <4>1. pc'[g] = "lock" /\ loc'[g].req = rq
        BY <4>0, ConstantTypes, UpdatedFields
      <4> QED
        BY <3>1, <3>3, <4>1 DEF LocalsInvAt
    <3>5. CASE active # Nil
      <4>0. /\ pc'[g] = "try"
            /\ loc'[g] = [NoLocals EXCEPT !.req = rq, !.cur = active, !.lim = cap[active]]
        BY <1>1, <1>b, <3>5 DEF TryAlloc, Goto, SetLocals
      <4>1. pc'[g] = "try" /\ loc'[g].req = rq /\ loc'[g].cur = active
        BY <4>0, ConstantTypes, UpdatedFields
      <4> QED
        BY <3>1, <3>2, <3>3, <3>5, <4>1 DEF LocalsInvAt
    <3> QED
      BY <3>4, <3>5
  <2>2. active' <= grown' /\ grown <= grown'
    BY <1>1, <1>d DEF TryAlloc, Goto, SetLocals, heap, LocalsInv, LocalsInvAt, Nil
  <2>3. Elsewhere(g)
    BY <1>1, <1>b DEF TryAlloc, Goto, SetLocals, heap, Elsewhere
  <2> QED
    BY <1>a, <2>1, <2>2, <2>3, LocalsOthers
<1>2. ASSUME NEW g \in Goroutines, LoadOff(g) PROVE LocalsInv'
  <2>1. LocalsInvAt(g)'
    <3> DEFINE c  == loc[g].cur
               lo == AlignedOff(c, off[c], loc[g].req.align)
               hi == lo + loc[g].req.n
    <3>1. c \in 1..grown /\ loc[g].req.n >= 1 /\ sweep[g].active <= grown
      BY <1>2 DEF LoadOff, LocalsInv, LocalsInvAt
    <3>2. off[c] \in Nat /\ base[c] \in Nat
      BY <1>c, <3>1, HeapNumbers, ChunkFields
    <3>3. lo \in Int
      <4>1. base[c] + off[c] \in Nat
        BY <3>2
      <4> QED
        BY <1>c, <4>1, <3>2, LocalFields, AlignUpType DEF AlignedOff
    <3>4. Fits(loc[g], lo, hi) => off[c] <= lo /\ lo < hi
      <4> HIDE DEF lo
      <4> QED
        BY <1>c, <3>1, <3>2, <3>3, LocalFields DEF Fits
    <3>5. c < grown => c + 1 \in 1..grown
      BY <1>d, <3>1
    <3>8. grown' = grown /\ sweep'[g].active <= grown
      BY <1>2, <3>1 DEF LoadOff, heap
    <3>6. CASE Fits(loc[g], lo, hi)
      <4>1. pc'[g] = "cas" /\ loc'[g] = [loc[g] EXCEPT !.off = off[c], !.lo = lo, !.hi = hi]
        BY <1>2, <1>b, <3>6 DEF LoadOff, Goto, SetLocals
      <4> HIDE DEF c, lo, hi
      <4>2. /\ loc'[g].cur = c /\ loc'[g].req = loc[g].req
            /\ loc'[g].off = off[c] /\ loc'[g].lo = lo /\ loc'[g].hi = hi
        BY <1>b, <4>1, UpdatedFields DEF c
      <4> QED
        BY <3>1, <3>4, <3>6, <3>8, <4>1, <4>2 DEF LocalsInvAt
    <3>7. CASE ~Fits(loc[g], lo, hi)
      <4>1. \/ pc'[g] \in {"lock", "size"} /\ loc'[g] = loc[g]
            \/ /\ pc'[g] = "try" /\ c < grown
               /\ loc'[g] = [loc[g] EXCEPT !.cur = c + 1, !.ctx = "scan", !.lim = cap[c + 1]]
            \/ pc'[g] = "idle"
        BY <1>2, <1>b, <3>7 DEF LoadOff, ScanOn, TryOn, FailLocked, Return, Goto, SetLocals
      <4> HIDE DEF c, lo, hi
      <4>2. CASE pc'[g] \in {"lock", "size"} /\ loc'[g] = loc[g]
        BY <3>1, <3>8, <4>2 DEF LocalsInvAt
      <4>3. CASE /\ pc'[g] = "try" /\ c < grown
                 /\ loc'[g] = [loc[g] EXCEPT !.cur = c + 1, !.ctx = "scan", !.lim = cap[c + 1]]
        <5>1. loc'[g].cur = c + 1 /\ loc'[g].req = loc[g].req
          BY <1>b, <4>3, UpdatedFields
        <5> QED
          BY <3>1, <3>5, <3>8, <4>3, <5>1 DEF LocalsInvAt
      <4>4. CASE pc'[g] = "idle"
        BY <3>8, <4>4 DEF LocalsInvAt
      <4> QED
        BY <4>1, <4>2, <4>3, <4>4
    <3> QED
      BY <3>6, <3>7
  <2>2. active' <= grown' /\ grown <= grown'
    BY <1>2, <1>d DEF LoadOff, ScanOn, TryOn, FailLocked, Return, Goto, SetLocals, heap, LocalsInv, LocalsInvAt, Nil
  <2>3. Elsewhere(g)
    BY <1>2, <1>b DEF LoadOff, ScanOn, TryOn, FailLocked, Return, Goto, SetLocals, heap, Elsewhere
  <2> QED
    BY <1>a, <2>1, <2>2, <2>3, LocalsOthers
<1>3. ASSUME NEW g \in Goroutines, CompareAndSwap(g) PROVE LocalsInv'
  <2>1. LocalsInvAt(g)'
    BY <1>3, <1>b DEF CompareAndSwap, Goto, heap, LocalsInv, LocalsInvAt
  <2>2. active' <= grown' /\ grown <= grown'
    BY <1>3, <1>d DEF CompareAndSwap, Goto, heap, LocalsInv, LocalsInvAt, Nil
  <2>3. Elsewhere(g)
    BY <1>3, <1>b DEF CompareAndSwap, Goto, heap, Elsewhere
  <2> QED
    BY <1>a, <2>1, <2>2, <2>3, LocalsOthers
<1>4. ASSUME NEW g \in Goroutines, SliceBuf(g) PROVE LocalsInv'
  <2>1. LocalsInvAt(g)'
    BY <1>4, <1>b DEF SliceBuf, Return, Goto, SetLocals, heap, LocalsInv, LocalsInvAt
  <2>2. active' <= grown' /\ grown <= grown'
    BY <1>4, <1>d DEF SliceBuf, Return, Goto, SetLocals, heap, LocalsInv, LocalsInvAt, Nil
  <2>3. Elsewhere(g)
    BY <1>4, <1>b DEF SliceBuf, Return, Goto, SetLocals, heap, Elsewhere
  <2> QED
    BY <1>a, <2>1, <2>2, <2>3, LocalsOthers
<1>5. ASSUME NEW g \in Goroutines, LockSlow(g) PROVE LocalsInv'
  <2>1. LocalsInvAt(g)'
    <3>1. active # Nil => active \in 1..grown
      BY <1>c, <1>d, HeapNumbers DEF LocalsInv, Nil
    <3>2. loc[g].req.n >= 1 /\ sweep[g].active <= grown
      BY <1>5 DEF LockSlow, LocalsInv, LocalsInvAt
    <3>3. grown' = grown /\ sweep' = sweep
      BY <1>5 DEF LockSlow, heap
    <3>4. CASE active = Nil
      <4>1. pc'[g] = "size" /\ loc' = loc
        BY <1>5, <1>b, <3>4 DEF LockSlow, Goto
      <4> QED
        BY <3>2, <3>3, <4>1 DEF LocalsInvAt
    <3>5. CASE active # Nil
      <4>0. /\ pc'[g] = "try"
            /\ loc'[g] = [loc[g] EXCEPT !.cur = active, !.ctx = "retry", !.lim = cap[active]]
        BY <1>5, <1>b, <3>5 DEF LockSlow, Goto, TryOn, SetLocals
      <4>1. pc'[g] = "try" /\ loc'[g].cur = active /\ loc'[g].req = loc[g].req
        BY <1>b, <4>0, UpdatedFields
      <4> QED
        BY <3>1, <3>2, <3>3, <3>5, <4>1 DEF LocalsInvAt
    <3> QED
      BY <3>4, <3>5
  <2>2. active' <= grown' /\ grown <= grown'
    BY <1>5, <1>d DEF LockSlow, TryOn, Goto, SetLocals, heap, LocalsInv, LocalsInvAt, Nil
  <2>3. Elsewhere(g)
    BY <1>5, <1>b DEF LockSlow, TryOn, Goto, SetLocals, heap, Elsewhere
  <2> QED
    BY <1>a, <2>1, <2>2, <2>3, LocalsOthers
<1>6. ASSUME NEW g \in Goroutines, ChooseSize(g) PROVE LocalsInv'
  <2>1. LocalsInvAt(g)'
    <3>1. grown' = grown /\ sweep' = sweep /\ sweep[g].active <= grown /\ loc[g].req.n >= 1
      BY <1>6 DEF ChooseSize, heap, LocalsInv, LocalsInvAt
    <3>2. \/ pc'[g] = "idle"
          \/ pc'[g] = "map" /\ loc'[g] = [loc[g] EXCEPT !.size = ClampedSize(loc[g].req.n)]
      BY <1>6, <1>b DEF ChooseSize, FailLocked, Return, Goto, SetLocals
    <3>3. CASE pc'[g] = "idle"
      BY <3>1, <3>3 DEF LocalsInvAt
    <3>4. CASE pc'[g] = "map" /\ loc'[g] = [loc[g] EXCEPT !.size = ClampedSize(loc[g].req.n)]
      <4>1. loc'[g].req = loc[g].req
        BY <1>b, <3>4, UpdatedFields
      <4> QED
        BY <3>1, <3>4, <4>1 DEF LocalsInvAt
    <3> QED
      BY <3>2, <3>3, <3>4
  <2>2. active' <= grown' /\ grown <= grown'
    BY <1>6, <1>d DEF ChooseSize, FailLocked, Return, Goto, SetLocals, heap, LocalsInv, LocalsInvAt, Nil
  <2>3. Elsewhere(g)
    BY <1>6, <1>b DEF ChooseSize, FailLocked, Return, Goto, SetLocals, heap, Elsewhere
  <2> QED
    BY <1>a, <2>1, <2>2, <2>3, LocalsOthers
<1>7. ASSUME NEW g \in Goroutines, GrowChunk(g) PROVE LocalsInv'
  <2>1. LocalsInvAt(g)'
    <3>1. sweep[g].active <= grown /\ sweep[g].active \in Nat
      BY <1>c, SweepFields DEF LocalsInv, LocalsInvAt
    <3>2. grown' = grown + 1 /\ grown + 1 \in 1..(grown + 1) /\ pc'[g] = "try" /\ sweep' = sweep
      BY <1>7, <1>b, <1>d DEF GrowChunk, Goto
    <3>3. loc'[g].cur = grown + 1 /\ loc'[g].req = loc[g].req
      BY <1>7, <1>b, UpdatedFields DEF GrowChunk, SetLocals
    <3>4. loc[g].req.n >= 1
      BY <1>7 DEF GrowChunk, LocalsInv, LocalsInvAt
    <3> QED
      BY <1>d, <3>1, <3>2, <3>3, <3>4 DEF LocalsInvAt
  <2>2. active' <= grown' /\ grown <= grown'
    BY <1>7, <1>d DEF GrowChunk, Goto, SetLocals, LocalsInv, LocalsInvAt, Nil
  <2>3. Elsewhere(g)
    BY <1>7, <1>b DEF GrowChunk, Goto, SetLocals, Elsewhere
  <2> QED
    BY <1>a, <2>1, <2>2, <2>3, LocalsOthers
<1>8. ASSUME NEW g \in Goroutines, GrowFails(g) PROVE LocalsInv'
  <2>1. LocalsInvAt(g)'
    BY <1>8, <1>b DEF GrowFails, FailLocked, Return, Goto, SetLocals, heap, LocalsInv, LocalsInvAt
  <2>2. active' <= grown' /\ grown <= grown'
    BY <1>8, <1>d DEF GrowFails, FailLocked, Return, Goto, SetLocals, heap, LocalsInv, LocalsInvAt, Nil
  <2>3. Elsewhere(g)
    BY <1>8, <1>b DEF GrowFails, FailLocked, Return, Goto, SetLocals, heap, Elsewhere
  <2> QED
    BY <1>a, <2>1, <2>2, <2>3, LocalsOthers
<1>9. ASSUME NEW g \in Goroutines, Reset(g) PROVE LocalsInv'
  <2>1. LocalsInvAt(g)'
    <3>1. (IF NumChunks > 0 THEN taken + 1 ELSE active) <= grown
      BY <1>d DEF NumChunks, LocalsInv
    <3>2. sweep'[g].active = IF NumChunks > 0 THEN taken + 1 ELSE active
      BY <1>9, <1>b DEF Reset, BeginSweep, NoSweep
    <3> QED
      BY <1>9, <1>b, <3>1, <3>2 DEF Reset, BeginSweep, Goto, LocalsInvAt, heap
  <2>2. active' <= grown' /\ grown <= grown'
    BY <1>9, <1>d DEF Reset, BeginSweep, Goto, heap, LocalsInv, LocalsInvAt, Nil
  <2>3. Elsewhere(g)
    BY <1>9, <1>b DEF Reset, BeginSweep, Goto, heap, Elsewhere
  <2> QED
    BY <1>a, <2>1, <2>2, <2>3, LocalsOthers
<1>10. ASSUME NEW g \in Goroutines, NEW s \in Slots, Rewind(g, s) PROVE LocalsInv'
  <2>1. LocalsInvAt(g)'
    <3>1. marks[s].idx \in Nat /\ marks[s].idx <= NumChunks
      BY <1>10 DEF Rewind, RewindAllowed, TypeOK, HeldTypeOK
    <3>2. taken + marks[s].idx <= grown
      BY <1>d, <3>1 DEF NumChunks
    <3>3. sweep'[g].active = taken + marks[s].idx
      BY <1>10, <1>b DEF Rewind, BeginSweep
    <3> QED
      BY <1>10, <1>b, <3>2, <3>3 DEF Rewind, BeginSweep, Goto, LocalsInvAt, heap
  <2>2. active' <= grown' /\ grown <= grown'
    BY <1>10, <1>d DEF Rewind, BeginSweep, Goto, heap, LocalsInv, LocalsInvAt, Nil
  <2>3. Elsewhere(g)
    BY <1>10, <1>b DEF Rewind, BeginSweep, Goto, heap, Elsewhere
  <2> QED
    BY <1>a, <2>1, <2>2, <2>3, LocalsOthers
<1>11. ASSUME NEW g \in Goroutines, NEW s \in Slots, Rollback(g, s) PROVE LocalsInv'
  <2>1. LocalsInvAt(g)'
    <3>1. sps[s].active \in Nat
      BY DEF TypeOK, HeldTypeOK, Savepoints
    <3>2. (IF sps[s].active <= NumChunks THEN taken + sps[s].active ELSE active) <= grown
      BY <1>d, <3>1 DEF NumChunks, LocalsInv
    <3>3. sweep'[g].active = IF sps[s].active <= NumChunks THEN taken + sps[s].active ELSE active
      BY <1>11, <1>b DEF Rollback, BeginSweep
    <3> QED
      BY <1>11, <1>b, <3>2, <3>3 DEF Rollback, BeginSweep, Goto, LocalsInvAt, heap
  <2>2. active' <= grown' /\ grown <= grown'
    BY <1>11, <1>d DEF Rollback, BeginSweep, Goto, heap, LocalsInv, LocalsInvAt, Nil
  <2>3. Elsewhere(g)
    BY <1>11, <1>b DEF Rollback, BeginSweep, Goto, heap, Elsewhere
  <2> QED
    BY <1>a, <2>1, <2>2, <2>3, LocalsOthers
<1>12. ASSUME NEW g \in Goroutines, StoreOff(g) PROVE LocalsInv'
  <2>1. LocalsInvAt(g)'
    BY <1>12, <1>b DEF StoreOff, heap, LocalsInv, LocalsInvAt
  <2>2. active' <= grown' /\ grown <= grown'
    BY <1>12, <1>d DEF StoreOff, heap, LocalsInv, LocalsInvAt, Nil
  <2>3. Elsewhere(g)
    BY <1>12, <1>b DEF StoreOff, heap, Elsewhere
  <2> QED
    BY <1>a, <2>1, <2>2, <2>3, LocalsOthers
<1>13. ASSUME NEW g \in Goroutines, StoreActive(g) PROVE LocalsInv'
  <2>1. LocalsInvAt(g)'
    BY <1>13, <1>b, <1>d DEF StoreActive, Goto, LocalsInv, LocalsInvAt, heap, NoSweep, Nil
  <2>2. active' <= grown' /\ grown <= grown'
    BY <1>13, <1>d DEF StoreActive, Goto, heap, LocalsInv, LocalsInvAt, Nil
  <2>3. Elsewhere(g)
    BY <1>13, <1>b DEF StoreActive, Goto, heap, Elsewhere
  <2> QED
    BY <1>a, <2>1, <2>2, <2>3, LocalsOthers
<1>14. ASSUME NEW g \in Goroutines, NEW s \in Slots, Mark(g, s) PROVE LocalsInv'
  <2>1. LocalsInvAt(g)'
    BY <1>14, <1>b DEF Mark, heap, LocalsInv, LocalsInvAt
  <2>2. active' <= grown' /\ grown <= grown'
    BY <1>14, <1>d DEF Mark, heap, LocalsInv, LocalsInvAt, Nil
  <2>3. Elsewhere(g)
    BY <1>14, <1>b DEF Mark, heap, Elsewhere
  <2> QED
    BY <1>a, <2>1, <2>2, <2>3, LocalsOthers
<1>15. ASSUME NEW g \in Goroutines, NEW s \in Slots, Savepoint(g, s) PROVE LocalsInv'
  <2>1. LocalsInvAt(g)'
    BY <1>15, <1>b DEF Savepoint, Goto, SetLocals, heap, LocalsInv, LocalsInvAt
  <2>2. active' <= grown' /\ grown <= grown'
    BY <1>15, <1>d DEF Savepoint, Goto, SetLocals, heap, LocalsInv, LocalsInvAt, Nil
  <2>3. Elsewhere(g)
    BY <1>15, <1>b DEF Savepoint, Goto, SetLocals, heap, Elsewhere
  <2> QED
    BY <1>a, <2>1, <2>2, <2>3, LocalsOthers
<1>16. ASSUME NEW g \in Goroutines, SaveOff(g) PROVE LocalsInv'
  <2>1. LocalsInvAt(g)'
    <3>1. loc[g].cur \in Nat
      BY <1>c, LocalFields
    <3>2. LocalsInvAt(g)
      BY DEF LocalsInv
    <3> QED
      BY <1>16, <1>b, <3>1, <3>2 DEF SaveOff, SetLocals, LocalsInvAt, heap
  <2>2. active' <= grown' /\ grown <= grown'
    BY <1>16, <1>d DEF SaveOff, SetLocals, heap, LocalsInv, LocalsInvAt, Nil
  <2>3. Elsewhere(g)
    BY <1>16, <1>b DEF SaveOff, SetLocals, heap, Elsewhere
  <2> QED
    BY <1>a, <2>1, <2>2, <2>3, LocalsOthers
<1>17. ASSUME NEW g \in Goroutines, SaveDone(g) PROVE LocalsInv'
  <2>1. LocalsInvAt(g)'
    BY <1>17, <1>b DEF SaveDone, Return, Goto, SetLocals, heap, LocalsInv, LocalsInvAt
  <2>2. active' <= grown' /\ grown <= grown'
    BY <1>17, <1>d DEF SaveDone, Return, Goto, SetLocals, heap, LocalsInv, LocalsInvAt, Nil
  <2>3. Elsewhere(g)
    BY <1>17, <1>b DEF SaveDone, Return, Goto, SetLocals, heap, Elsewhere
  <2> QED
    BY <1>a, <2>1, <2>2, <2>3, LocalsOthers
<1>18. ASSUME NEW g \in Goroutines, Close(g) PROVE LocalsInv'
  <2>1. LocalsInvAt(g)'
    BY <1>18, <1>b DEF Close, Goto, heap, LocalsInv, LocalsInvAt
  <2>2. active' <= grown' /\ grown <= grown'
    BY <1>18, <1>d DEF Close, Goto, heap, LocalsInv, LocalsInvAt, Nil
  <2>3. Elsewhere(g)
    BY <1>18, <1>b DEF Close, Goto, heap, Elsewhere
  <2> QED
    BY <1>a, <2>1, <2>2, <2>3, LocalsOthers
<1>19. ASSUME NEW g \in Goroutines, CloseTake(g) PROVE LocalsInv'
  <2>1. LocalsInvAt(g)'
    <3>1. NumChunks # 0 => taken + 1 <= grown /\ 1 <= taken + 1
      BY <1>d DEF NumChunks
    <3>2. sweep[g].active <= grown
      BY DEF LocalsInv, LocalsInvAt
    <3>3. CASE NumChunks = 0
      BY <1>19, <1>b, <3>2, <3>3 DEF CloseTake, Return, Goto, LocalsInvAt
    <3>4. CASE NumChunks # 0
      <4>1. /\ pc'[g] = "release" /\ loc'[g].cur = taken + 1 /\ loc'[g].lim = grown
            /\ grown' = grown /\ sweep' = sweep
        <5>1. /\ pc'[g] = "release" /\ loc'[g] = [loc[g] EXCEPT !.cur = taken + 1, !.lim = grown]
              /\ grown' = grown /\ sweep' = sweep
          BY <1>19, <1>b, <3>4 DEF CloseTake, Goto, SetLocals
        <5> QED
          BY <1>b, <5>1, UpdatedFields
      <4> QED
        BY <1>d, <3>1, <3>2, <3>4, <4>1 DEF LocalsInvAt
    <3> QED
      BY <3>3, <3>4
  <2>2. active' <= grown' /\ grown <= grown'
    BY <1>19, <1>d DEF CloseTake, Return, Goto, SetLocals, LocalsInv, LocalsInvAt, Nil
  <2>3. Elsewhere(g)
    BY <1>19, <1>b DEF CloseTake, Return, Goto, SetLocals, Elsewhere
  <2> QED
    BY <1>a, <2>1, <2>2, <2>3, LocalsOthers
<1>20. ASSUME NEW g \in Goroutines, Unmap(g) PROVE LocalsInv'
  <2>1. LocalsInvAt(g)'
    BY <1>20, <1>b DEF Unmap, Goto, heap, LocalsInv, LocalsInvAt
  <2>2. active' <= grown' /\ grown <= grown'
    BY <1>20, <1>d DEF Unmap, Goto, heap, LocalsInv, LocalsInvAt, Nil
  <2>3. Elsewhere(g)
    BY <1>20, <1>b DEF Unmap, Goto, heap, Elsewhere
  <2> QED
    BY <1>a, <2>1, <2>2, <2>3, LocalsOthers
<1>21. ASSUME NEW g \in Goroutines, ClearChunk(g) PROVE LocalsInv'
  <2>1. LocalsInvAt(g)'
    <3>1. loc[g].cur \in Nat /\ loc[g].lim \in Nat
      BY <1>c, LocalFields
    <3>2. LocalsInvAt(g)
      BY DEF LocalsInv
    <3>3. CASE MoreToRelease(loc[g])
      <4>1. /\ pc'[g] = "release" /\ loc'[g].cur = loc[g].cur + 1 /\ loc'[g].lim = loc[g].lim
            /\ grown' = grown /\ sweep' = sweep /\ pc[g] = "clear"
        <5>1. /\ pc'[g] = "release" /\ loc'[g] = [loc[g] EXCEPT !.cur = loc[g].cur + 1]
              /\ grown' = grown /\ sweep' = sweep /\ pc[g] = "clear"
          BY <1>21, <1>b, <3>3 DEF ClearChunk, Goto, SetLocals
        <5> QED
          BY <1>b, <5>1, UpdatedFields
      <4> QED
        BY <1>d, <3>1, <3>2, <3>3, <4>1 DEF LocalsInvAt, MoreToRelease
    <3>4. CASE ~MoreToRelease(loc[g])
      BY <1>21, <1>b, <1>d, <3>1, <3>2, <3>4 DEF ClearChunk, Return, Goto, LocalsInvAt
    <3> QED
      BY <3>3, <3>4
  <2>2. active' <= grown' /\ grown <= grown'
    BY <1>21, <1>d DEF ClearChunk, Return, Goto, SetLocals, heap, LocalsInv, LocalsInvAt, Nil
  <2>3. Elsewhere(g)
    BY <1>21, <1>b DEF ClearChunk, Return, Goto, SetLocals, heap, Elsewhere
  <2> QED
    BY <1>a, <2>1, <2>2, <2>3, LocalsOthers
<1>22. CASE UNCHANGED vars
  BY <1>22 DEF vars, heap, LocalsInv, LocalsInvAt
<1> QED
  BY <1>1, <1>2, <1>3, <1>4, <1>5, <1>6, <1>7, <1>8, <1>9, <1>10, <1>11, <1>12,
     <1>13, <1>14, <1>15, <1>16, <1>17, <1>18, <1>19, <1>20, <1>21, <1>22
     DEF Next, AllocStep, ReclaimStep, SnapshotStep, CloseStep

(***************************************************************************)
(* The arena, its goroutines and its marks and savepoints are always well  *)
(* typed, whatever calls race: in particular no step reads a chunk that    *)
(* does not exist.                                                         *)
(***************************************************************************)
THEOREM TypeCorrect == Spec => []TypeOK
<1>1. Init => TypeOK /\ LocalsInv
  BY TypeInit, LocalsInit
<1>2. (TypeOK /\ LocalsInv) /\ [Next]_vars => (TypeOK /\ LocalsInv)'
  BY TypeStep, LocalsStep
<1> QED
  BY <1>1, <1>2, PTL DEF Spec

----------------------------------------------------------------------------
(* An Arena implements RegionStack *)

(***************************************************************************)
(* Everything in use lies below the offset of its chunk, within its bytes, *)
(* and was allocated in the past.                                          *)
(***************************************************************************)
LiveInv ==
  \A r \in live :
    /\ r.chunk <= grown
    /\ r.lo < r.hi
    /\ r.hi <= off[r.chunk]
    /\ r.hi <= cap[r.chunk]
    /\ 1 <= r.at /\ r.at <= clock

(***************************************************************************)
(* Of two ranges of a chunk the younger one lies above the older one.      *)
(***************************************************************************)
OrderInv ==
  \A r, s \in live :
    /\ r.at = s.at => r = s
    /\ r.chunk = s.chunk /\ r.at < s.at => r.hi <= s.lo

(***************************************************************************)
(* An offset o that will be, or may one day be, stored into chunk c covers *)
(* every range that the store means to keep: those made up to instant t.   *)
(***************************************************************************)
Covers(inUse, now, c, o, t) ==
  /\ t <= now
  /\ \A r \in inUse : r.chunk = c /\ r.at <= t => r.hi <= o

SweepInv ==
  \A g \in Goroutines : \A c \in ChunkId :
    Covers(live, clock, c, sweep[g].off[c], sweep[g].stamp[c])

MarkInv ==
  \A s \in Slots : Covers(live, clock, taken + marks[s].idx, marks[s].off, marks[s].stamp)

SaveInv ==
  \A s \in Slots : \A i \in ChunkId :
    Covers(live, clock, taken + i, sps[s].off[i], sps[s].stamp[i])

HeapInv == LiveInv /\ OrderInv /\ SweepInv /\ MarkInv /\ SaveInv

(***************************************************************************)
(* Every offset, capacity and size in the system is one a mark can hold.   *)
(***************************************************************************)
SmallHeap == \A c \in ChunkId : off[c] < MarkModulus /\ cap[c] < MarkModulus

SmallHeld ==
  \A s \in Slots :
    /\ marks[s].off < MarkModulus
    /\ \A i \in ChunkId : sps[s].off[i] < MarkModulus

SmallAt(g) ==
  /\ pc[g] \in {"try", "cas", "lock", "size", "map"} => loc[g].req.n < MarkModulus
  /\ pc[g] \in {"try", "cas"} => loc[g].lim < MarkModulus
  /\ pc[g] = "cas" => loc[g].hi < MarkModulus
  /\ pc[g] = "map" => loc[g].size < MarkModulus
  /\ \A c \in ChunkId : sweep[g].off[c] < MarkModulus

SmallInv == SmallHeap /\ SmallHeld /\ \A g \in Goroutines : SmallAt(g)

----------------------------------------------------------------------------
(* Offsets a mark can hold *)

(***************************************************************************)
(* The size of a new chunk is one a mark can hold.                         *)
(***************************************************************************)
LEMMA SizeSmall ==
  ASSUME OffsetsFitMark, HeapTypeOK, NEW n \in Nat, n < MarkModulus
  PROVE  ClampedSize(n) < MarkModulus
<1>1. WantedSize(n) < MarkModulus
  BY ArenaAssumption DEF OffsetsFitMark, HeapTypeOK, WantedSize
<1> QED
  BY <1>1, SizeType, ArenaAssumption

LEMMA SmallInit == OffsetsFitMark /\ Init => SmallInv
<1> SUFFICES ASSUME OffsetsFitMark, Init PROVE SmallInv
  OBVIOUS
<1>1. 0 < MarkModulus /\ ChunkSize < MarkModulus /\ 1 \in ChunkId
  BY ArenaAssumption, ConstantTypes DEF OffsetsFitMark
<1>2. SmallHeap
  BY <1>1 DEF Init, SmallHeap, Zeroes
<1>3. SmallHeld
  BY <1>1 DEF Init, SmallHeld, ZeroMark, NilSavepoint, Zeroes
<1>4. \A g \in Goroutines : SmallAt(g)
  BY <1>1 DEF Init, SmallAt, NoSweep, Zeroes
<1> QED
  BY <1>2, <1>3, <1>4 DEF SmallInv

(***************************************************************************)
(* A goroutine that makes no allocation, and whose plan for the offsets is *)
(* small, is small.                                                        *)
(***************************************************************************)
LEMMA SmallElsewhere ==
  ASSUME SmallInv, NEW g \in Goroutines, SmallHeap', SmallHeld', SmallAt(g)', Elsewhere(g)
  PROVE  SmallInv'
<1>1. ASSUME NEW h \in Goroutines, h # g PROVE SmallAt(h)'
  BY DEF SmallInv, SmallAt, Elsewhere
<1> QED
  BY <1>1 DEF SmallInv

(***************************************************************************)
(* Positions a Rollback reads, the chunk a Mark names, and what the steps  *)
(* of Savepoint write.                                                     *)
(***************************************************************************)
LEMMA SavedPosition ==
  ASSUME TypeOK, NEW g \in Goroutines, NEW s \in Slots, Rollback(g, s),
         NEW c \in ChunkId, c - taken \in 1..sps[s].n
  PROVE  c - taken \in ChunkId
<1>1. sps[s].n \in Nat /\ sps[s].n <= NumChunks
  BY DEF Rollback, TypeOK, HeldTypeOK, Savepoints
<1>2. HeapTypeOK
  BY DEF TypeOK
<1> QED
  BY <1>1, <1>2, HeapNumbers, ChunkFields DEF NumChunks, ChunkId

LEMMA MarkedChunkType ==
  ASSUME HeapTypeOK, NumChunks > 0
  PROVE  /\ MarkedChunk \in 1..grown /\ MarkedChunk \in ChunkId
         /\ MarkedChunk - taken \in Nat \ {0}
         /\ off[MarkedChunk] \in Nat
<1>1. MarkedChunk - taken \in Nat \ {0} /\ MarkedChunk \in 1..grown
  BY HeapNumbers DEF NumChunks, MarkedChunk, Chunks
<1> QED
  BY <1>1, HeapNumbers, ChunkFields

LEMMA SaveOffInSlot ==
  ASSUME TypeOK, LocalsInv, NEW g \in Goroutines, SaveOff(g)
  PROVE  LET i == loc[g].cur
             s == loc[g].slot
         IN /\ s \in Slots /\ i \in ChunkId /\ taken + i \in ChunkId
            /\ \A j \in ChunkId :
                 /\ sps'[s].off[j] = IF j = i THEN off[taken + i] ELSE sps[s].off[j]
                 /\ sps'[s].stamp[j] = IF j = i THEN clock ELSE sps[s].stamp[j]
            /\ \A t \in Slots \ {s} : sps'[t] = sps[t]
            /\ marks' = marks
<1> DEFINE i == loc[g].cur
           s == loc[g].slot
<1>0. HeapTypeOK /\ LocalTypeOK
  BY DEF TypeOK
<1>1. s \in Slots /\ i \in ChunkId /\ taken + i \in ChunkId
  BY <1>0, LocalFields, HeapNumbers DEF SaveOff, LocalsInv, LocalsInvAt, NumChunks, ChunkId
<1>2. sps' = [sps EXCEPT ![s] = [sps[s] EXCEPT !.off   = [@ EXCEPT ![i] = off[taken + i]],
                                               !.stamp = [@ EXCEPT ![i] = clock]]]
  BY DEF SaveOff
<1>3. sps \in [Slots -> Savepoints] /\ sps[s] \in Savepoints
  BY <1>1 DEF TypeOK, HeldTypeOK
<1>4. marks' = marks
  BY DEF SaveOff
<1> HIDE DEF i, s
<1>5. sps'[s] = [sps[s] EXCEPT !.off   = [@ EXCEPT ![i] = off[taken + i]],
                               !.stamp = [@ EXCEPT ![i] = clock]]
  BY <1>1, <1>2, <1>3
<1>6. \A t \in Slots \ {s} : sps'[t] = sps[t]
  BY <1>1, <1>2, <1>3
<1>7. \A j \in ChunkId :
        /\ sps'[s].off[j] = IF j = i THEN off[taken + i] ELSE sps[s].off[j]
        /\ sps'[s].stamp[j] = IF j = i THEN clock ELSE sps[s].stamp[j]
  BY <1>1, <1>3, <1>5 DEF Savepoints
<1> QED
  BY <1>1, <1>4, <1>6, <1>7 DEF i, s

LEMMA SaveDoneInSlot ==
  ASSUME TypeOK, NEW g \in Goroutines, SaveDone(g)
  PROVE  \A t \in Slots : sps'[t].off = sps[t].off /\ sps'[t].stamp = sps[t].stamp
  BY DEF SaveDone, TypeOK, HeldTypeOK, Savepoints

(***************************************************************************)
(* Every step keeps every offset, capacity and size within what a mark can *)
(* hold.                                                                   *)
(***************************************************************************)
LEMMA SmallStep ==
  OffsetsFitMark /\ TypeOK /\ LocalsInv /\ SmallInv /\ [Next]_vars => SmallInv'
<1> SUFFICES ASSUME OffsetsFitMark, TypeOK, LocalsInv, SmallInv, [Next]_vars PROVE SmallInv'
  OBVIOUS
<1>a. /\ pc \in [Goroutines -> Labels]
      /\ loc \in [Goroutines -> Locals]
      /\ sweep \in [Goroutines -> Sweeps]
  BY DEF TypeOK, ControlTypeOK, LocalTypeOK
<1>b. HeapTypeOK /\ LocalTypeOK /\ ControlTypeOK
  BY DEF TypeOK
<1>c. \A g \in Goroutines :
        AllocStep(g) \/ ReclaimStep(g) \/ SnapshotStep(g) \/ CloseStep(g) => Elsewhere(g)
  BY <1>b, OthersUntouched
<1>d. SmallHeap /\ SmallHeld /\ \A g \in Goroutines : SmallAt(g)
  BY DEF SmallInv
<1>e. 0 < MarkModulus
  BY ArenaAssumption
<1>1. ASSUME NEW g \in Goroutines, NEW rq \in Requests, TryAlloc(g, rq) PROVE SmallInv'
  <2>1. SmallHeap' /\ SmallHeld'
    BY <1>1, <1>d DEF TryAlloc, heap, held, SmallHeap, SmallHeld
  <2>2. SmallAt(g)'
    <3>1. sweep'[g] = sweep[g] /\ rq.n < MarkModulus
      BY <1>1 DEF TryAlloc, OffsetsFitMark
    <3>2. CASE active = Nil
      <4>1. pc'[g] = "lock" /\ loc'[g] = [NoLocals EXCEPT !.req = rq]
        BY <1>1, <1>a, <3>2 DEF TryAlloc, Goto, SetLocals
      <4>2. loc'[g].req = rq
        BY <4>1, ConstantTypes, UpdatedFields
      <4> QED
        BY <1>d, <3>1, <4>1, <4>2 DEF SmallAt
    <3>3. CASE active # Nil
      <4>1. /\ pc'[g] = "try"
            /\ loc'[g] = [NoLocals EXCEPT !.req = rq, !.cur = active, !.lim = cap[active]]
        BY <1>1, <1>a, <3>3 DEF TryAlloc, Goto, SetLocals
      <4>2. loc'[g].req = rq /\ loc'[g].lim = cap[active]
        BY <4>1, ConstantTypes, UpdatedFields
      <4>3. cap[active] < MarkModulus
        BY <1>b, <1>d, <3>3, ActiveChunk DEF SmallHeap
      <4> QED
        BY <1>d, <3>1, <4>1, <4>2, <4>3 DEF SmallAt
    <3> QED
      BY <3>2, <3>3
  <2> QED
    BY <1>1, <1>c, <2>1, <2>2, SmallElsewhere DEF AllocStep
<1>2. ASSUME NEW g \in Goroutines, LoadOff(g) PROVE SmallInv'
  <2>1. SmallHeap' /\ SmallHeld'
    BY <1>2, <1>d DEF LoadOff, heap, held, SmallHeap, SmallHeld
  <2>2. SmallAt(g)'
    <3> DEFINE c  == loc[g].cur
               lo == AlignedOff(c, off[c], loc[g].req.align)
               hi == lo + loc[g].req.n
    <3>1. c \in 1..grown /\ pc[g] = "try" /\ sweep'[g] = sweep[g]
      BY <1>2 DEF LoadOff, LocalsInv, LocalsInvAt
    <3>2. off[c] \in Nat /\ base[c] \in Nat
      BY <1>b, <3>1, HeapNumbers, ChunkFields
    <3>3. lo \in Int
      <4>1. base[c] + off[c] \in Nat
        BY <3>2
      <4> QED
        BY <1>b, <4>1, <3>2, LocalFields, AlignUpType DEF AlignedOff
    <3>4. loc[g].req.n < MarkModulus /\ loc[g].lim < MarkModulus /\ loc[g].lim \in Nat
      BY <1>b, <1>d, <3>1, LocalFields DEF SmallAt
    <3>5. CASE Fits(loc[g], lo, hi)
      <4>1. pc'[g] = "cas" /\ loc'[g] = [loc[g] EXCEPT !.off = off[c], !.lo = lo, !.hi = hi]
        BY <1>2, <1>a, <3>5 DEF LoadOff, Goto, SetLocals
      <4>2. hi <= loc[g].lim
        BY <3>5 DEF Fits
      <4> HIDE DEF c, lo
      <4>3. hi \in Int /\ MarkModulus \in Int
        BY <1>b, <3>3, LocalFields, ArenaAssumption
      <4> HIDE DEF hi
      <4>4. loc'[g].req = loc[g].req /\ loc'[g].lim = loc[g].lim /\ loc'[g].hi = hi
        BY <1>a, <4>1, UpdatedFields
      <4>5. hi < MarkModulus
        BY <3>4, <4>2, <4>3
      <4> QED
        BY <1>d, <3>1, <3>4, <4>1, <4>4, <4>5 DEF SmallAt
    <3>6. CASE ~Fits(loc[g], lo, hi)
      <4>1. \/ pc'[g] \in {"lock", "size"} /\ loc'[g] = loc[g]
            \/ /\ pc'[g] = "try" /\ c < grown
               /\ loc'[g] = [loc[g] EXCEPT !.cur = c + 1, !.ctx = "scan", !.lim = cap[c + 1]]
            \/ pc'[g] = "idle"
        BY <1>2, <1>a, <3>6 DEF LoadOff, ScanOn, TryOn, FailLocked, Return, Goto, SetLocals
      <4> HIDE DEF c, lo, hi
      <4>2. CASE pc'[g] \in {"lock", "size"} /\ loc'[g] = loc[g]
        BY <1>d, <3>1, <3>4, <4>2 DEF SmallAt
      <4>3. CASE /\ pc'[g] = "try" /\ c < grown
                 /\ loc'[g] = [loc[g] EXCEPT !.cur = c + 1, !.ctx = "scan", !.lim = cap[c + 1]]
        <5>1. loc'[g].lim = cap[c + 1] /\ loc'[g].req = loc[g].req
          BY <1>a, <4>3, UpdatedFields
        <5>2. c + 1 \in 1..grown
          BY <1>b, <3>1, <4>3, HeapNumbers
        <5>3. cap[c + 1] < MarkModulus
          BY <1>b, <1>d, <5>2, HeapNumbers DEF SmallHeap
        <5> QED
          BY <1>d, <3>1, <3>4, <4>3, <5>1, <5>3 DEF SmallAt
      <4>4. CASE pc'[g] = "idle"
        BY <1>d, <3>1, <4>4 DEF SmallAt
      <4> QED
        BY <4>1, <4>2, <4>3, <4>4
    <3> QED
      BY <3>5, <3>6
  <2> QED
    BY <1>2, <1>c, <2>1, <2>2, SmallElsewhere DEF AllocStep
<1>3. ASSUME NEW g \in Goroutines, CompareAndSwap(g) PROVE SmallInv'
  <2>1. SmallHeap' /\ SmallHeld'
    <3>1. loc[g].hi < MarkModulus
      BY <1>3, <1>d DEF CompareAndSwap, SmallAt
    <3>2. off \in [ChunkId -> Nat] /\ cap' = cap /\ UNCHANGED held
      BY <1>3, <1>b DEF CompareAndSwap, heap, HeapTypeOK
    <3> QED
      BY <1>3, <1>d, <3>1, <3>2 DEF CompareAndSwap, held, SmallHeap, SmallHeld
  <2>2. SmallAt(g)'
    BY <1>3, <1>a, <1>d DEF CompareAndSwap, Goto, SmallAt
  <2> QED
    BY <1>3, <1>c, <2>1, <2>2, SmallElsewhere DEF AllocStep
<1>4. ASSUME NEW g \in Goroutines, SliceBuf(g) PROVE SmallInv'
  <2>1. SmallHeap' /\ SmallHeld'
    BY <1>4, <1>d DEF SliceBuf, heap, held, SmallHeap, SmallHeld
  <2>2. SmallAt(g)'
    BY <1>4, <1>a, <1>d DEF SliceBuf, Return, Goto, SmallAt
  <2> QED
    BY <1>4, <1>c, <2>1, <2>2, SmallElsewhere DEF AllocStep
<1>5. ASSUME NEW g \in Goroutines, LockSlow(g) PROVE SmallInv'
  <2>1. SmallHeap' /\ SmallHeld'
    BY <1>5, <1>d DEF LockSlow, heap, held, SmallHeap, SmallHeld
  <2>2. SmallAt(g)'
    <3>1. sweep'[g] = sweep[g] /\ loc[g].req.n < MarkModulus
      BY <1>5, <1>d DEF LockSlow, SmallAt
    <3>2. CASE active = Nil
      BY <1>5, <1>a, <1>d, <3>1, <3>2 DEF LockSlow, Goto, SmallAt
    <3>3. CASE active # Nil
      <4>1. /\ pc'[g] = "try"
            /\ loc'[g] = [loc[g] EXCEPT !.cur = active, !.ctx = "retry", !.lim = cap[active]]
        BY <1>5, <1>a, <3>3 DEF LockSlow, Goto, TryOn, SetLocals
      <4>2. loc'[g].req = loc[g].req /\ loc'[g].lim = cap[active]
        BY <1>a, <4>1, UpdatedFields
      <4>3. cap[active] < MarkModulus
        BY <1>b, <1>d, <3>3, ActiveChunk DEF SmallHeap
      <4> QED
        BY <1>d, <3>1, <4>1, <4>2, <4>3 DEF SmallAt
    <3> QED
      BY <3>2, <3>3
  <2> QED
    BY <1>5, <1>c, <2>1, <2>2, SmallElsewhere DEF AllocStep
<1>6. ASSUME NEW g \in Goroutines, ChooseSize(g) PROVE SmallInv'
  <2>1. SmallHeap' /\ SmallHeld'
    BY <1>6, <1>d DEF ChooseSize, heap, held, SmallHeap, SmallHeld
  <2>2. SmallAt(g)'
    <3>1. sweep'[g] = sweep[g] /\ loc[g].req.n < MarkModulus /\ loc[g].req.n \in Nat
      BY <1>6, <1>b, <1>d, LocalFields DEF ChooseSize, SmallAt
    <3>2. \/ pc'[g] = "idle"
          \/ pc'[g] = "map" /\ loc'[g] = [loc[g] EXCEPT !.size = ClampedSize(loc[g].req.n)]
      BY <1>6, <1>a DEF ChooseSize, FailLocked, Return, Goto, SetLocals
    <3>3. CASE pc'[g] = "idle"
      BY <1>d, <3>1, <3>3 DEF SmallAt
    <3>4. CASE pc'[g] = "map" /\ loc'[g] = [loc[g] EXCEPT !.size = ClampedSize(loc[g].req.n)]
      <4>1. loc'[g].req = loc[g].req /\ loc'[g].size = ClampedSize(loc[g].req.n)
        BY <1>a, <3>4, UpdatedFields
      <4>2. ClampedSize(loc[g].req.n) < MarkModulus
        BY <1>b, <3>1, SizeSmall
      <4> QED
        BY <1>d, <3>1, <3>4, <4>1, <4>2 DEF SmallAt
    <3> QED
      BY <3>2, <3>3, <3>4
  <2> QED
    BY <1>6, <1>c, <2>1, <2>2, SmallElsewhere DEF AllocStep
<1>7. ASSUME NEW g \in Goroutines, GrowChunk(g) PROVE SmallInv'
  <2>0. loc[g].size < MarkModulus /\ loc[g].req.n < MarkModulus
    BY <1>7, <1>d DEF GrowChunk, SmallAt
  <2>1. SmallHeap' /\ SmallHeld'
    <3>1. off \in [ChunkId -> Nat] /\ cap \in [ChunkId -> Nat]
      BY <1>b DEF HeapTypeOK
    <3> QED
      BY <1>7, <1>d, <1>e, <2>0, <3>1 DEF GrowChunk, held, SmallHeap, SmallHeld
  <2>2. SmallAt(g)'
    <3>1. /\ pc'[g] = "try" /\ sweep' = sweep
          /\ loc'[g] = [loc[g] EXCEPT !.cur = grown + 1, !.ctx = "fresh", !.lim = loc[g].size]
      BY <1>7, <1>a DEF GrowChunk, Goto, SetLocals
    <3>2. loc'[g].req = loc[g].req /\ loc'[g].lim = loc[g].size
      BY <1>a, <3>1, UpdatedFields
    <3> QED
      BY <1>d, <2>0, <3>1, <3>2 DEF SmallAt
  <2> QED
    BY <1>7, <1>c, <2>1, <2>2, SmallElsewhere DEF AllocStep
<1>8. ASSUME NEW g \in Goroutines, GrowFails(g) PROVE SmallInv'
  <2>1. SmallHeap' /\ SmallHeld'
    BY <1>8, <1>d DEF GrowFails, heap, held, SmallHeap, SmallHeld
  <2>2. SmallAt(g)'
    BY <1>8, <1>a, <1>d DEF GrowFails, FailLocked, Return, Goto, SmallAt
  <2> QED
    BY <1>8, <1>c, <2>1, <2>2, SmallElsewhere DEF AllocStep
<1>9. ASSUME NEW g \in Goroutines, Reset(g) PROVE SmallInv'
  <2>1. SmallHeap' /\ SmallHeld'
    BY <1>9, <1>d DEF Reset, BeginSweep, heap, held, SmallHeap, SmallHeld
  <2>2. SmallAt(g)'
    <3>1. pc'[g] = "sweep" /\ sweep'[g].off = Zeroes
      BY <1>9, <1>a DEF Reset, BeginSweep, Goto, NoSweep
    <3> QED
      BY <1>e, <3>1 DEF SmallAt, Zeroes
  <2> QED
    BY <1>9, <1>c, <2>1, <2>2, SmallElsewhere DEF ReclaimStep
<1>10. ASSUME NEW g \in Goroutines, NEW s \in Slots, Rewind(g, s) PROVE SmallInv'
  <2>1. SmallHeap' /\ SmallHeld'
    BY <1>10, <1>d DEF Rewind, BeginSweep, heap, held, SmallHeap, SmallHeld
  <2>2. SmallAt(g)'
    <3>1. pc'[g] = "sweep" /\ sweep'[g].off = [Zeroes EXCEPT ![taken + marks[s].idx] = marks[s].off]
      BY <1>10, <1>a DEF Rewind, BeginSweep, Goto
    <3>2. marks[s].off < MarkModulus
      BY <1>d DEF SmallHeld
    <3> QED
      BY <1>e, <3>1, <3>2 DEF SmallAt, Zeroes
  <2> QED
    BY <1>10, <1>c, <2>1, <2>2, SmallElsewhere DEF ReclaimStep
<1>11. ASSUME NEW g \in Goroutines, NEW s \in Slots, Rollback(g, s) PROVE SmallInv'
  <2>1. SmallHeap' /\ SmallHeld'
    BY <1>11, <1>d DEF Rollback, BeginSweep, heap, held, SmallHeap, SmallHeld
  <2>2. SmallAt(g)'
    <3>1. pc'[g] = "sweep" /\ sweep'[g].off = Saved(sps[s], sps[s].off)
      BY <1>11, <1>a DEF Rollback, BeginSweep, Goto
    <3>2. ASSUME NEW c \in ChunkId, c - taken \in 1..sps[s].n PROVE c - taken \in ChunkId
      BY <1>11, <1>b, <3>2, SavedPosition
    <3>3. \A c \in ChunkId : Saved(sps[s], sps[s].off)[c] < MarkModulus
      BY <1>d, <1>e, <3>2 DEF SmallHeld, Saved
    <3> QED
      BY <3>1, <3>3 DEF SmallAt
  <2> QED
    BY <1>11, <1>c, <2>1, <2>2, SmallElsewhere DEF ReclaimStep
<1>12. ASSUME NEW g \in Goroutines, StoreOff(g) PROVE SmallInv'
  <2>1. SmallHeap' /\ SmallHeld'
    <3> DEFINE c == Head(sweep[g].todo)
    <3>1. c \in ChunkId
      BY <1>12, <1>b, SweepFields DEF StoreOff
    <3>2. sweep[g].off[c] < MarkModulus
      BY <1>d, <3>1 DEF SmallAt
    <3>3. off \in [ChunkId -> Nat] /\ cap' = cap /\ off' = [off EXCEPT ![c] = sweep[g].off[c]]
      BY <1>12, <1>b DEF StoreOff, heap, HeapTypeOK
    <3> HIDE DEF c
    <3>4. SmallHeap'
      BY <1>d, <3>2, <3>3 DEF SmallHeap
    <3> QED
      BY <1>12, <1>d, <3>4 DEF StoreOff, held, SmallHeld
  <2>2. SmallAt(g)'
    <3>1. pc' = pc /\ loc' = loc /\ pc[g] = "sweep" /\ sweep'[g].off = sweep[g].off
      BY <1>12, <1>a DEF StoreOff, Sweeps
    <3> QED
      BY <1>d, <3>1 DEF SmallAt
  <2> QED
    BY <1>12, <1>c, <2>1, <2>2, SmallElsewhere DEF ReclaimStep
<1>13. ASSUME NEW g \in Goroutines, StoreActive(g) PROVE SmallInv'
  <2>1. SmallHeap' /\ SmallHeld'
    BY <1>13, <1>d DEF StoreActive, heap, held, SmallHeap, SmallHeld
  <2>2. SmallAt(g)'
    BY <1>13, <1>a, <1>e DEF StoreActive, Goto, SmallAt, NoSweep, Zeroes
  <2> QED
    BY <1>13, <1>c, <2>1, <2>2, SmallElsewhere DEF ReclaimStep
<1>14. ASSUME NEW g \in Goroutines, NEW s \in Slots, Mark(g, s) PROVE SmallInv'
  <2>1. SmallHeap' /\ SmallAt(g)'
    BY <1>14, <1>d DEF Mark, heap, SmallHeap, SmallAt
  <2>2. SmallHeld'
    <3>1. \A o \in Nat : o % MarkModulus < MarkModulus
      BY ArenaAssumption
    <3>2. NumChunks > 0 => off[MarkedChunk] \in Nat
      BY <1>b, MarkedChunkType
    <3>3. \E i \in Nat, o \in Nat : marks' = [marks EXCEPT ![s] = MakeMark(i, o)]
      BY <1>14, <1>b, <3>2, MarkedChunkType DEF Mark
    <3>4. marks'[s].off < MarkModulus
      BY <3>1, <3>3 DEF MakeMark, TypeOK, HeldTypeOK
    <3> QED
      BY <1>14, <1>d, <3>3, <3>4 DEF Mark, SmallHeld, TypeOK, HeldTypeOK
  <2> QED
    BY <1>14, <1>c, <2>1, <2>2, SmallElsewhere DEF SnapshotStep
<1>15. ASSUME NEW g \in Goroutines, NEW s \in Slots, Savepoint(g, s) PROVE SmallInv'
  <2>1. SmallHeap' /\ SmallAt(g)'
    BY <1>15, <1>a, <1>d DEF Savepoint, Goto, heap, SmallHeap, SmallAt
  <2>2. SmallHeld'
    <3>1. sps'[s].off = Zeroes /\ \A t \in Slots \ {s} : sps'[t] = sps[t]
      BY <1>15 DEF Savepoint, NilSavepoint, TypeOK, HeldTypeOK
    <3> QED
      BY <1>15, <1>d, <1>e, <3>1 DEF Savepoint, SmallHeld, Zeroes
  <2> QED
    BY <1>15, <1>c, <2>1, <2>2, SmallElsewhere DEF SnapshotStep
<1>16. ASSUME NEW g \in Goroutines, SaveOff(g) PROVE SmallInv'
  <2>1. SmallHeap' /\ SmallAt(g)'
    BY <1>16, <1>a, <1>d DEF SaveOff, heap, SmallHeap, SmallAt
  <2>2. SmallHeld'
    <3> DEFINE i == loc[g].cur
               s == loc[g].slot
    <3>1. /\ s \in Slots /\ i \in ChunkId /\ taken + i \in ChunkId
          /\ \A j \in ChunkId : sps'[s].off[j] = IF j = i THEN off[taken + i] ELSE sps[s].off[j]
          /\ \A t \in Slots \ {s} : sps'[t] = sps[t]
          /\ marks' = marks
      BY <1>16, SaveOffInSlot
    <3> HIDE DEF i, s
    <3> QED
      BY <1>d, <3>1 DEF SmallHeap, SmallHeld
  <2> QED
    BY <1>16, <1>c, <2>1, <2>2, SmallElsewhere DEF SnapshotStep
<1>17. ASSUME NEW g \in Goroutines, SaveDone(g) PROVE SmallInv'
  <2>1. SmallHeap' /\ SmallAt(g)'
    BY <1>17, <1>a, <1>d DEF SaveDone, Return, Goto, heap, SmallHeap, SmallAt
  <2>2. SmallHeld'
    <3>1. \A t \in Slots : sps'[t].off = sps[t].off
      BY <1>17, SaveDoneInSlot
    <3> QED
      BY <1>17, <1>d, <3>1 DEF SaveDone, SmallHeld
  <2> QED
    BY <1>17, <1>c, <2>1, <2>2, SmallElsewhere DEF SnapshotStep
<1>18. ASSUME NEW g \in Goroutines, Close(g) PROVE SmallInv'
  <2>1. SmallHeap' /\ SmallHeld' /\ SmallAt(g)'
    BY <1>18, <1>a, <1>d DEF Close, Goto, heap, held, SmallHeap, SmallHeld, SmallAt
  <2> QED
    BY <1>18, <1>c, <2>1, SmallElsewhere DEF CloseStep
<1>19. ASSUME NEW g \in Goroutines, CloseTake(g) PROVE SmallInv'
  <2>1. SmallHeap' /\ SmallHeld' /\ SmallAt(g)'
    BY <1>19, <1>a, <1>d DEF CloseTake, Return, Goto, held, SmallHeap, SmallHeld, SmallAt
  <2> QED
    BY <1>19, <1>c, <2>1, SmallElsewhere DEF CloseStep
<1>20. ASSUME NEW g \in Goroutines, Unmap(g) PROVE SmallInv'
  <2>1. SmallHeap' /\ SmallHeld' /\ SmallAt(g)'
    BY <1>20, <1>a, <1>d DEF Unmap, Goto, held, SmallHeap, SmallHeld, SmallAt
  <2> QED
    BY <1>20, <1>c, <2>1, SmallElsewhere DEF CloseStep
<1>21. ASSUME NEW g \in Goroutines, ClearChunk(g) PROVE SmallInv'
  <2>1. SmallHeap'
    <3>1. off \in [ChunkId -> Nat] /\ cap \in [ChunkId -> Nat]
      BY <1>b DEF HeapTypeOK
    <3> QED
      BY <1>21, <1>d, <1>e, <3>1 DEF ClearChunk, SmallHeap
  <2>2. SmallHeld' /\ SmallAt(g)'
    BY <1>21, <1>a, <1>d DEF ClearChunk, Return, Goto, held, SmallHeld, SmallAt
  <2> QED
    BY <1>21, <1>c, <2>1, <2>2, SmallElsewhere DEF CloseStep
<1>22. CASE UNCHANGED vars
  BY <1>22 DEF vars, heap, held, SmallInv, SmallHeap, SmallHeld, SmallAt
<1> QED
  BY <1>1, <1>2, <1>3, <1>4, <1>5, <1>6, <1>7, <1>8, <1>9, <1>10, <1>11, <1>12,
     <1>13, <1>14, <1>15, <1>16, <1>17, <1>18, <1>19, <1>20, <1>21, <1>22
     DEF Next, AllocStep, ReclaimStep, SnapshotStep, CloseStep

----------------------------------------------------------------------------
(* Ranges in use *)

(***************************************************************************)
(* The types of a range in use.                                            *)
(***************************************************************************)
LEMMA LiveTypes ==
  ASSUME TypeOK
  PROVE  /\ clock \in Nat
         /\ \A r \in live : /\ r.chunk \in ChunkId /\ r.chunk \in Nat
                            /\ r.lo \in Nat /\ r.hi \in Nat /\ r.at \in Nat
  BY DEF TypeOK, Stack!StackTypeOK, Stack!Region, ChunkId

(***************************************************************************)
(* An offset that covers goes on covering when ranges are dropped, and     *)
(* when younger ones are added.                                            *)
(***************************************************************************)
LEMMA CoversStable ==
  ASSUME NEW L, NEW K, NEW now \in Nat, NEW later \in Nat, now <= later,
         \A r \in K : r.at \in Nat,
         \A r \in K : r \in L \/ r.at > now,
         NEW c, NEW o, NEW t \in Nat, Covers(L, now, c, o, t)
  PROVE  Covers(K, later, c, o, t)
  BY DEF Covers

(***************************************************************************)
(* Nothing allocated is as old as instant 0, so nothing is kept by a store *)
(* whose instant is 0.                                                     *)
(***************************************************************************)
LEMMA CoversNothing ==
  ASSUME TypeOK, LiveInv, NEW c, NEW o
  PROVE  Covers(live, clock, c, o, 0)
  BY LiveTypes DEF LiveInv, Covers

(***************************************************************************)
(* The present offset of a chunk covers all that is in use there.          *)
(***************************************************************************)
LEMMA CoversNow ==
  ASSUME TypeOK, LiveInv, NEW c
  PROVE  Covers(live, clock, c, off[c], clock)
  BY LiveTypes DEF LiveInv, Covers

(***************************************************************************)
(* What is remembered in plans, marks and savepoints goes on covering if   *)
(* no range older than now appears.                                        *)
(***************************************************************************)
Younger == clock <= clock' /\ \A r \in live' : r \in live \/ r.at > clock

LEMMA PlansStable ==
  ASSUME TypeOK, TypeOK', HeapInv, Younger,
         taken' = taken, UNCHANGED held, NEW g \in Goroutines, Elsewhere(g),
         \A c \in ChunkId : sweep'[g].off[c] = sweep[g].off[c] /\ sweep'[g].stamp[c] = sweep[g].stamp[c]
  PROVE  SweepInv' /\ MarkInv' /\ SaveInv'
<1>1. clock \in Nat /\ clock' \in Nat /\ clock <= clock' /\ \A r \in live' : r.at \in Nat
  BY LiveTypes DEF Younger, TypeOK, Stack!StackTypeOK, Stack!Region
<1>2. ASSUME NEW c, NEW o, NEW t \in Nat, Covers(live, clock, c, o, t)
      PROVE  Covers(live', clock', c, o, t)
  BY <1>1, <1>2, CoversStable DEF Younger
<1>3. SweepInv'
  <2> SUFFICES ASSUME NEW h \in Goroutines, NEW c \in ChunkId
               PROVE  Covers(live', clock', c, sweep'[h].off[c], sweep'[h].stamp[c])
    BY DEF SweepInv
  <2>1. sweep'[h].off[c] = sweep[h].off[c] /\ sweep'[h].stamp[c] = sweep[h].stamp[c]
    BY DEF Elsewhere
  <2>2. sweep[h].stamp[c] \in Nat /\ Covers(live, clock, c, sweep[h].off[c], sweep[h].stamp[c])
    BY SweepFields DEF TypeOK, HeapInv, SweepInv
  <2> QED
    BY <1>2, <2>1, <2>2
<1>4. MarkInv'
  <2> SUFFICES ASSUME NEW s \in Slots
               PROVE  Covers(live', clock', taken + marks[s].idx, marks[s].off, marks[s].stamp)
    BY DEF MarkInv, held
  <2>1. /\ marks[s].stamp \in Nat
        /\ Covers(live, clock, taken + marks[s].idx, marks[s].off, marks[s].stamp)
    BY DEF TypeOK, HeldTypeOK, HeapInv, MarkInv
  <2> QED
    BY <1>2, <2>1
<1>5. SaveInv'
  <2> SUFFICES ASSUME NEW s \in Slots, NEW i \in ChunkId
               PROVE  Covers(live', clock', taken + i, sps[s].off[i], sps[s].stamp[i])
    BY DEF SaveInv, held
  <2>1. /\ sps[s].stamp[i] \in Nat
        /\ Covers(live, clock, taken + i, sps[s].off[i], sps[s].stamp[i])
    BY DEF TypeOK, HeldTypeOK, Savepoints, HeapInv, SaveInv
  <2> QED
    BY <1>2, <2>1
<1> QED
  BY <1>3, <1>4, <1>5

(***************************************************************************)
(* Dropping ranges, and growing the list of chunks, keeps what is known of *)
(* the ranges in use if the offsets and capacities of those kept suffice.  *)
(***************************************************************************)
LEMMA RangesStable ==
  ASSUME TypeOK, TypeOK', LiveInv, OrderInv, live' \subseteq live, clock' = clock, grown <= grown',
         \A r \in live' : r.hi <= off'[r.chunk] /\ r.hi <= cap'[r.chunk]
  PROVE  LiveInv' /\ OrderInv' /\ Younger
<1>1. grown \in Nat /\ grown' \in Nat
  BY ArenaAssumption DEF TypeOK, HeapTypeOK, ChunkId
<1>2. LiveInv'
  BY <1>1, LiveTypes DEF LiveInv
<1>3. OrderInv'
  BY DEF OrderInv
<1>4. Younger
  BY LiveTypes DEF Younger
<1> QED
  BY <1>2, <1>3, <1>4

LEMMA HeapInit == Init => HeapInv
<1> SUFFICES ASSUME Init PROVE HeapInv
  OBVIOUS
<1>1. LiveInv /\ OrderInv
  BY DEF Init, LiveInv, OrderInv
<1>2. SweepInv
  BY DEF Init, SweepInv, Covers, NoSweep, Zeroes
<1>3. MarkInv
  BY DEF Init, MarkInv, Covers, ZeroMark
<1>4. SaveInv
  BY DEF Init, SaveInv, Covers, NilSavepoint, Zeroes
<1> QED
  BY <1>1, <1>2, <1>3, <1>4 DEF HeapInv

(***************************************************************************)
(* Steps that move no offset and hand out or take back no byte.            *)
(***************************************************************************)
LEMMA HeapQuiet ==
  ASSUME TypeOK, TypeOK', HeapInv, NEW g \in Goroutines, Elsewhere(g),
         UNCHANGED <<heap, off, held, ghost>>,
         \A c \in ChunkId : sweep'[g].off[c] = sweep[g].off[c] /\ sweep'[g].stamp[c] = sweep[g].stamp[c]
  PROVE  HeapInv'
<1>0. UNCHANGED <<taken, grown, cap, off, live, clock>>
  BY DEF heap, ghost
<1>1. LiveInv /\ OrderInv /\ grown \in Nat
  BY HeapNumbers DEF HeapInv, TypeOK
<1>2. LiveInv' /\ OrderInv' /\ Younger
  BY <1>0, <1>1, RangesStable DEF LiveInv
<1>3. SweepInv' /\ MarkInv' /\ SaveInv'
  BY <1>0, <1>2, PlansStable
<1> QED
  BY <1>2, <1>3 DEF HeapInv

(***************************************************************************)
(* A reclaim begins: the plan covers what it keeps.                        *)
(***************************************************************************)
LEMMA HeapPlan ==
  ASSUME TypeOK, TypeOK', HeapInv, NEW g \in Goroutines, NEW plan, BeginSweep(g, plan),
         \A c \in ChunkId : Covers(live, clock, c, plan.off[c], plan.stamp[c])
  PROVE  HeapInv'
<1>0. UNCHANGED <<taken, grown, cap, off, live, clock, marks, sps>>
  BY DEF BeginSweep, heap, ghost, held
<1>1. \A h \in Goroutines : sweep'[h] = IF h = g THEN plan ELSE sweep[h]
  BY DEF BeginSweep, TypeOK, LocalTypeOK
<1>2. SweepInv'
  <2> SUFFICES ASSUME NEW h \in Goroutines, NEW c \in ChunkId
               PROVE  Covers(live, clock, c, sweep'[h].off[c], sweep'[h].stamp[c])
    BY <1>0 DEF SweepInv
  <2> QED
    BY <1>1 DEF HeapInv, SweepInv
<1>3. LiveInv' /\ OrderInv'
  BY <1>0 DEF HeapInv, LiveInv, OrderInv
<1>4. MarkInv' /\ SaveInv'
  BY <1>0 DEF HeapInv, MarkInv, SaveInv
<1> QED
  BY <1>2, <1>3, <1>4 DEF HeapInv

(***************************************************************************)
(* A mark or savepoint is filled in: it covers what was made before.       *)
(***************************************************************************)
LEMMA HeapSnapshot ==
  ASSUME HeapInv, UNCHANGED <<heap, off, ghost, sweep>>, MarkInv', SaveInv'
  PROVE  HeapInv'
<1>0. UNCHANGED <<taken, grown, cap, off, live, clock>>
  BY DEF heap, ghost
<1>1. LiveInv' /\ OrderInv' /\ SweepInv'
  BY <1>0 DEF HeapInv, LiveInv, OrderInv, SweepInv
<1> QED
  BY <1>1 DEF HeapInv

(***************************************************************************)
(* Every step keeps the ranges in use apart, below their offsets, and      *)
(* covered by every plan, mark and savepoint that means to keep them.      *)
(***************************************************************************)
LEMMA HeapStep ==
  TypeOK /\ LocalsInv /\ SmallInv /\ HeapInv /\ [Next]_vars => HeapInv'
<1> SUFFICES ASSUME TypeOK, LocalsInv, SmallInv, HeapInv, [Next]_vars PROVE HeapInv'
  OBVIOUS
<1>a. TypeOK'
  BY TypeStep
<1>b. HeapTypeOK /\ LocalTypeOK /\ ControlTypeOK
  BY DEF TypeOK
<1>c. \A g \in Goroutines :
        AllocStep(g) \/ ReclaimStep(g) \/ SnapshotStep(g) \/ CloseStep(g) => Elsewhere(g)
  BY <1>b, OthersUntouched
<1>d. LiveInv /\ OrderInv /\ SweepInv /\ MarkInv /\ SaveInv
  BY DEF HeapInv
<1>e. /\ cap \in [ChunkId -> Nat] /\ off \in [ChunkId -> Nat]
      /\ grown \in Nat /\ taken \in Nat /\ taken <= grown
  BY <1>b, HeapNumbers DEF HeapTypeOK
<1>1. ASSUME NEW g \in Goroutines, NEW rq \in Requests, TryAlloc(g, rq) PROVE HeapInv'
  <2>1. UNCHANGED <<heap, off, held, ghost, sweep>>
    BY <1>1 DEF TryAlloc
  <2>2. Elsewhere(g)
    BY <1>1, <1>c DEF AllocStep
  <2> QED
    BY <1>a, <2>1, <2>2, HeapQuiet
<1>2. ASSUME NEW g \in Goroutines, LoadOff(g) PROVE HeapInv'
  <2>1. UNCHANGED <<heap, off, held, ghost, sweep>>
    BY <1>2 DEF LoadOff
  <2>2. Elsewhere(g)
    BY <1>2, <1>c DEF AllocStep
  <2> QED
    BY <1>a, <2>1, <2>2, HeapQuiet
<1>3. ASSUME NEW g \in Goroutines, CompareAndSwap(g) PROVE HeapInv'
  <2> DEFINE l == loc[g]
             r == [chunk |-> l.cur, lo |-> l.lo, hi |-> l.hi, at |-> clock + 1,
                   align |-> l.req.align]
  <2>1. l.cur \in 1..grown /\ l.off <= l.lo /\ l.lo < l.hi
    BY <1>3 DEF CompareAndSwap, LocalsInv, LocalsInvAt
  <2>2. l.cur \in ChunkId /\ l.lo \in Nat /\ l.hi \in Nat /\ l.off \in Nat
    BY <1>b, <2>1, HeapNumbers, LocalFields
  <2>3. UNCHANGED <<taken, grown, cap, sweep, held>> /\ Elsewhere(g)
    BY <1>3, <1>c DEF CompareAndSwap, heap, AllocStep
  <2>4. \/ UNCHANGED <<off, live, clock>>
        \/ /\ off[l.cur] = l.off /\ off' = [off EXCEPT ![l.cur] = l.hi]
           /\ UNCHANGED <<live, clock>>
        \/ /\ off[l.cur] = l.off /\ off' = [off EXCEPT ![l.cur] = l.hi]
           /\ l.hi <= cap[l.cur] /\ live' = live \cup {r} /\ clock' = clock + 1
    BY <1>3 DEF CompareAndSwap, Unmoved, ghost
  <2>5. r.chunk = l.cur /\ r.lo = l.lo /\ r.hi = l.hi /\ r.at = clock + 1
    OBVIOUS
  <2> HIDE DEF l, r
  <2>6. ASSUME off[l.cur] = l.off, off' = [off EXCEPT ![l.cur] = l.hi]
        PROVE  /\ \A s \in live : s.chunk = l.cur => s.hi <= l.lo
               /\ \A s \in live : s.hi <= off'[s.chunk]
    <3>1. ASSUME NEW s \in live PROVE /\ s.chunk = l.cur => s.hi <= l.lo
                                      /\ s.hi <= off'[s.chunk]
      <4>1. s.hi \in Nat /\ s.chunk \in ChunkId /\ s.hi <= off[s.chunk]
        BY <1>d, LiveTypes DEF LiveInv
      <4>2. s.chunk = l.cur => s.hi <= l.lo /\ s.hi <= l.hi
        BY <2>1, <2>2, <2>6, <4>1
      <4>3. off'[s.chunk] = IF s.chunk = l.cur THEN l.hi ELSE off[s.chunk]
        BY <1>e, <2>6, <4>1
      <4> QED
        BY <4>1, <4>2, <4>3
    <3> QED
      BY <3>1
  <2>7. LiveInv' /\ OrderInv' /\ Younger
    <3>1. CASE UNCHANGED <<off, live, clock>>
      BY <1>a, <1>d, <1>e, <2>3, <3>1, RangesStable DEF LiveInv
    <3>2. CASE /\ off[l.cur] = l.off /\ off' = [off EXCEPT ![l.cur] = l.hi]
               /\ UNCHANGED <<live, clock>>
      <4>1. \A s \in live' : s.hi <= off'[s.chunk] /\ s.hi <= cap'[s.chunk]
        BY <1>d, <2>3, <2>6, <3>2 DEF LiveInv
      <4> QED
        BY <1>a, <1>d, <1>e, <2>3, <3>2, <4>1, RangesStable
    <3>3. CASE /\ off[l.cur] = l.off /\ off' = [off EXCEPT ![l.cur] = l.hi]
               /\ l.hi <= cap[l.cur] /\ live' = live \cup {r} /\ clock' = clock + 1
      <4>1. \A s \in live : s.at \in Nat /\ s.at <= clock
        BY <1>d, LiveTypes DEF LiveInv
      <4>2. clock \in Nat
        BY LiveTypes
      <4>3. Younger
        BY <2>5, <3>3, <4>2 DEF Younger
      <4>4. LiveInv'
        <5> SUFFICES ASSUME NEW s \in live'
                     PROVE  /\ s.chunk <= grown /\ s.lo < s.hi
                            /\ s.hi <= off'[s.chunk] /\ s.hi <= cap[s.chunk]
                            /\ 1 <= s.at /\ s.at <= clock + 1
          BY <2>3, <3>3 DEF LiveInv
        <5>1. CASE s \in live
          BY <1>d, <2>6, <3>3, <4>1, <4>2, <5>1 DEF LiveInv
        <5>2. CASE s = r
          <6>1. off'[l.cur] = l.hi
            BY <1>e, <2>2, <3>3
          <6> QED
            BY <1>e, <2>1, <2>2, <2>5, <3>3, <4>2, <5>2, <6>1
        <5> QED
          BY <3>3, <5>1, <5>2
      <4>5. OrderInv'
        <5> SUFFICES ASSUME NEW s \in live', NEW t \in live'
                     PROVE  /\ s.at = t.at => s = t
                            /\ s.chunk = t.chunk /\ s.at < t.at => s.hi <= t.lo
          BY DEF OrderInv
        <5>1. CASE s \in live /\ t \in live
          BY <1>d, <5>1 DEF OrderInv
        <5>2. CASE s \in live /\ t = r
          BY <2>5, <2>6, <3>3, <4>1, <4>2, <5>2
        <5>3. CASE s = r /\ t \in live
          BY <2>5, <4>1, <4>2, <5>3
        <5>4. CASE s = r /\ t = r
          BY <2>5, <4>2, <5>4
        <5> QED
          BY <3>3, <5>1, <5>2, <5>3, <5>4
      <4> QED
        BY <4>3, <4>4, <4>5
    <3> QED
      BY <2>4, <3>1, <3>2, <3>3
  <2>8. SweepInv' /\ MarkInv' /\ SaveInv'
    BY <1>a, <2>3, <2>7, PlansStable
  <2> QED
    BY <2>7, <2>8 DEF HeapInv
<1>4. ASSUME NEW g \in Goroutines, SliceBuf(g) PROVE HeapInv'
  <2>1. UNCHANGED <<heap, off, held, ghost, sweep>>
    BY <1>4 DEF SliceBuf
  <2>2. Elsewhere(g)
    BY <1>4, <1>c DEF AllocStep
  <2> QED
    BY <1>a, <2>1, <2>2, HeapQuiet
<1>5. ASSUME NEW g \in Goroutines, LockSlow(g) PROVE HeapInv'
  <2>1. UNCHANGED <<heap, off, held, ghost, sweep>>
    BY <1>5 DEF LockSlow
  <2>2. Elsewhere(g)
    BY <1>5, <1>c DEF AllocStep
  <2> QED
    BY <1>a, <2>1, <2>2, HeapQuiet
<1>6. ASSUME NEW g \in Goroutines, ChooseSize(g) PROVE HeapInv'
  <2>1. UNCHANGED <<heap, off, held, ghost, sweep>>
    BY <1>6 DEF ChooseSize
  <2>2. Elsewhere(g)
    BY <1>6, <1>c DEF AllocStep
  <2> QED
    BY <1>a, <2>1, <2>2, HeapQuiet
<1>7. ASSUME NEW g \in Goroutines, GrowChunk(g) PROVE HeapInv'
  <2>1. /\ UNCHANGED <<taken, sweep, held, live, clock>> /\ Elsewhere(g)
        /\ grown' = grown + 1
        /\ off' = [off EXCEPT ![grown + 1] = 0]
        /\ cap' = [cap EXCEPT ![grown + 1] = loc[g].size]
    BY <1>7, <1>c DEF GrowChunk, AllocStep, ghost
  <2>2. \A r \in live' : r.hi <= off'[r.chunk] /\ r.hi <= cap'[r.chunk]
    <3> SUFFICES ASSUME NEW r \in live PROVE r.hi <= off'[r.chunk] /\ r.hi <= cap'[r.chunk]
      BY <2>1
    <3>1. r.chunk \in ChunkId /\ r.chunk \in Nat /\ r.chunk <= grown
          /\ r.hi <= off[r.chunk] /\ r.hi <= cap[r.chunk]
      BY <1>d, LiveTypes DEF LiveInv
    <3>2. r.chunk # grown + 1
      BY <1>e, <3>1
    <3> QED
      BY <1>e, <2>1, <3>1, <3>2
  <2>3. LiveInv' /\ OrderInv' /\ Younger
    BY <1>a, <1>d, <1>e, <2>1, <2>2, RangesStable
  <2>4. SweepInv' /\ MarkInv' /\ SaveInv'
    BY <1>a, <2>1, <2>3, PlansStable
  <2> QED
    BY <2>3, <2>4 DEF HeapInv
<1>8. ASSUME NEW g \in Goroutines, GrowFails(g) PROVE HeapInv'
  <2>1. UNCHANGED <<heap, off, held, ghost, sweep>>
    BY <1>8 DEF GrowFails
  <2>2. Elsewhere(g)
    BY <1>8, <1>c DEF AllocStep
  <2> QED
    BY <1>a, <2>1, <2>2, HeapQuiet
<1>9. ASSUME NEW g \in Goroutines, Reset(g) PROVE HeapInv'
  <2> DEFINE plan == [NoSweep EXCEPT !.todo = InOrder,
                        !.active = IF NumChunks > 0 THEN taken + 1 ELSE active]
  <2>1. BeginSweep(g, plan)
    BY <1>9 DEF Reset
  <2>2. plan.off = Zeroes /\ plan.stamp = Zeroes
    BY DEF NoSweep
  <2> HIDE DEF plan
  <2>3. \A c \in ChunkId : Covers(live, clock, c, plan.off[c], plan.stamp[c])
    BY <1>d, <2>2, CoversNothing DEF Zeroes
  <2> QED
    BY <1>a, <2>1, <2>3, HeapPlan
<1>10. ASSUME NEW g \in Goroutines, NEW s \in Slots, Rewind(g, s) PROVE HeapInv'
  <2> DEFINE m      == marks[s]
             target == taken + m.idx
             plan   == [todo |-> Append([i \in 1..(grown - target) |-> target + i], target),
                        off |-> [Zeroes EXCEPT ![target] = m.off],
                        stamp |-> [Zeroes EXCEPT ![target] = m.stamp],
                        since |-> m.stamp, active |-> target]
  <2>1. BeginSweep(g, plan)
    BY <1>10 DEF Rewind
  <2>2. /\ plan.off = [Zeroes EXCEPT ![target] = m.off]
        /\ plan.stamp = [Zeroes EXCEPT ![target] = m.stamp]
    OBVIOUS
  <2>3. Covers(live, clock, target, m.off, m.stamp)
    BY <1>d DEF MarkInv
  <2> HIDE DEF plan, m, target
  <2>4. \A c \in ChunkId : Covers(live, clock, c, plan.off[c], plan.stamp[c])
    <3> SUFFICES ASSUME NEW c \in ChunkId PROVE Covers(live, clock, c, plan.off[c], plan.stamp[c])
      OBVIOUS
    <3>1. CASE c = target
      BY <2>2, <2>3, <3>1 DEF Zeroes
    <3>2. CASE c # target
      <4>1. plan.stamp[c] = 0
        BY <2>2, <3>2 DEF Zeroes
      <4> QED
        BY <1>d, <4>1, CoversNothing
    <3> QED
      BY <3>1, <3>2
  <2> QED
    BY <1>a, <2>1, <2>4, HeapPlan
<1>11. ASSUME NEW g \in Goroutines, NEW s \in Slots, Rollback(g, s) PROVE HeapInv'
  <2> DEFINE sp   == sps[s]
             plan == [todo |-> InOrder, off |-> Saved(sp, sp.off), stamp |-> Saved(sp, sp.stamp),
                      since |-> sp.since,
                      active |-> IF sp.active <= NumChunks THEN taken + sp.active ELSE active]
  <2>1. BeginSweep(g, plan)
    BY <1>11 DEF Rollback
  <2>2. plan.off = Saved(sp, sp.off) /\ plan.stamp = Saved(sp, sp.stamp)
    OBVIOUS
  <2> HIDE DEF plan
  <2>3. \A c \in ChunkId : Covers(live, clock, c, plan.off[c], plan.stamp[c])
    <3> SUFFICES ASSUME NEW c \in ChunkId PROVE Covers(live, clock, c, plan.off[c], plan.stamp[c])
      OBVIOUS
    <3>1. CASE c - taken \in 1..sp.n
      <4>1. c - taken \in ChunkId /\ taken + (c - taken) = c
        BY <1>11, <1>b, <1>e, <3>1, SavedPosition, ChunkFields
      <4>2. Covers(live, clock, taken + (c - taken), sp.off[c - taken], sp.stamp[c - taken])
        BY <1>d, <4>1 DEF SaveInv
      <4>3. plan.off[c] = sp.off[c - taken] /\ plan.stamp[c] = sp.stamp[c - taken]
        BY <2>2, <3>1 DEF Saved
      <4> QED
        BY <4>1, <4>2, <4>3
    <3>2. CASE c - taken \notin 1..sp.n
      <4>1. plan.stamp[c] = 0
        BY <2>2, <3>2 DEF Saved
      <4> QED
        BY <1>d, <4>1, CoversNothing
    <3> QED
      BY <3>1, <3>2
  <2> QED
    BY <1>a, <2>1, <2>3, HeapPlan
<1>12. ASSUME NEW g \in Goroutines, StoreOff(g) PROVE HeapInv'
  <2> DEFINE c == Head(sweep[g].todo)
             t == sweep[g].stamp[c]
             o == sweep[g].off[c]
  <2>1. /\ off' = [off EXCEPT ![c] = o]
        /\ live' = {r \in live : r.chunk = c => r.at <= t}
        /\ sweep'[g].off = sweep[g].off /\ sweep'[g].stamp = sweep[g].stamp
        /\ UNCHANGED <<taken, grown, cap, held, clock>>
    BY <1>12, <1>b DEF StoreOff, heap, LocalTypeOK, Sweeps
  <2>2. c \in ChunkId
    BY <1>12, <1>b, SweepFields DEF StoreOff
  <2>3. Covers(live, clock, c, o, t)
    BY <1>d, <2>2 DEF SweepInv
  <2>4. Elsewhere(g)
    BY <1>12, <1>c DEF ReclaimStep
  <2> HIDE DEF c, o, t
  <2>5. \A r \in live' : r.hi <= off'[r.chunk] /\ r.hi <= cap'[r.chunk]
    BY <1>d, <1>e, <2>1, <2>2, <2>3, LiveTypes DEF LiveInv, Covers
  <2>6. LiveInv' /\ OrderInv' /\ Younger
    BY <1>a, <1>d, <1>e, <2>1, <2>5, RangesStable
  <2>7. SweepInv' /\ MarkInv' /\ SaveInv'
    BY <1>a, <2>1, <2>4, <2>6, PlansStable
  <2> QED
    BY <2>6, <2>7 DEF HeapInv
<1>13. ASSUME NEW g \in Goroutines, StoreActive(g) PROVE HeapInv'
  <2>1. UNCHANGED <<taken, grown, cap, off, live, clock, marks, sps>>
    BY <1>13 DEF StoreActive, heap, ghost, held
  <2>2. \A h \in Goroutines : sweep'[h] = IF h = g THEN NoSweep ELSE sweep[h]
    BY <1>13, <1>b DEF StoreActive, LocalTypeOK
  <2>3. SweepInv'
    <3> SUFFICES ASSUME NEW h \in Goroutines, NEW c \in ChunkId
                 PROVE  Covers(live, clock, c, sweep'[h].off[c], sweep'[h].stamp[c])
      BY <2>1 DEF SweepInv
    <3>1. CASE h = g
      <4>1. sweep'[h].stamp[c] = 0
        BY <2>2, <3>1 DEF NoSweep, Zeroes
      <4> QED
        BY <1>d, <4>1, CoversNothing
    <3>2. CASE h # g
      BY <1>d, <2>2, <3>2 DEF SweepInv
    <3> QED
      BY <3>1, <3>2
  <2>4. LiveInv' /\ OrderInv' /\ MarkInv' /\ SaveInv'
    BY <1>d, <2>1 DEF LiveInv, OrderInv, MarkInv, SaveInv
  <2> QED
    BY <2>3, <2>4 DEF HeapInv
<1>14. ASSUME NEW g \in Goroutines, NEW s \in Slots, Mark(g, s) PROVE HeapInv'
  <2>1. UNCHANGED <<heap, off, ghost, sweep, sps>>
    BY <1>14 DEF Mark
  <2>2. UNCHANGED <<taken, live, clock>>
    BY <2>1 DEF heap, ghost
  <2>3. Covers(live, clock, taken + marks'[s].idx, marks'[s].off, marks'[s].stamp)
    <3>0. marks \in [Slots -> [idx : Nat \ {0}, off : Nat, stamp : Nat]] /\ clock \in Nat
      BY LiveTypes DEF TypeOK, HeldTypeOK
    <3>1. CASE NumChunks > 0
      <4> DEFINE c == MarkedChunk
      <4>1. c \in ChunkId /\ off[c] \in Nat /\ c \in Nat
        BY <1>b, <3>1, MarkedChunkType DEF ChunkId
      <4>2. marks'[s] = MakeMark(c - taken, off[c])
        BY <1>14, <3>0, <3>1 DEF Mark
      <4> HIDE DEF c
      <4>3. off[c] < MarkModulus
        BY <4>1 DEF SmallInv, SmallHeap
      <4>4. off[c] % MarkModulus = off[c]
        BY <4>1, <4>3, ArenaAssumption
      <4>5. /\ taken + marks'[s].idx = c /\ marks'[s].off = off[c]
            /\ marks'[s].stamp = clock
        BY <1>e, <4>1, <4>2, <4>4 DEF MakeMark
      <4> QED
        BY <1>d, <4>5, CoversNow
    <3>2. CASE ~(NumChunks > 0)
      <4>1. marks'[s] = MakeMark(1, 0)
        BY <1>14, <3>0, <3>2 DEF Mark
      <4>2. marks'[s].idx = 1 /\ marks'[s].stamp = clock
        BY <4>1 DEF MakeMark
      <4>3. \A r \in live : r.chunk # taken + 1
        BY <1>d, <1>e, <3>2, LiveTypes DEF LiveInv, NumChunks
      <4> QED
        BY <3>0, <4>2, <4>3 DEF Covers
    <3> QED
      BY <3>1, <3>2
  <2>4. \A u \in Slots \ {s} : marks'[u] = marks[u]
    BY <1>14 DEF Mark, TypeOK, HeldTypeOK
  <2>5. MarkInv'
    <3> SUFFICES ASSUME NEW u \in Slots
                 PROVE  Covers(live, clock, taken + marks'[u].idx, marks'[u].off, marks'[u].stamp)
      BY <2>2 DEF MarkInv
    <3> QED
      BY <1>d, <2>3, <2>4 DEF MarkInv
  <2>6. SaveInv'
    BY <1>d, <2>1, <2>2 DEF SaveInv
  <2> QED
    BY <2>1, <2>5, <2>6, HeapSnapshot
<1>15. ASSUME NEW g \in Goroutines, NEW s \in Slots, Savepoint(g, s) PROVE HeapInv'
  <2>1. UNCHANGED <<heap, off, ghost, sweep, marks>>
    BY <1>15 DEF Savepoint
  <2>2. UNCHANGED <<taken, live, clock>>
    BY <2>1 DEF heap, ghost
  <2>3. sps'[s].stamp = Zeroes /\ \A u \in Slots \ {s} : sps'[u] = sps[u]
    BY <1>15 DEF Savepoint, NilSavepoint, TypeOK, HeldTypeOK
  <2>4. SaveInv'
    <3> SUFFICES ASSUME NEW u \in Slots, NEW i \in ChunkId
                 PROVE  Covers(live, clock, taken + i, sps'[u].off[i], sps'[u].stamp[i])
      BY <2>2 DEF SaveInv
    <3>1. CASE u = s
      <4>1. sps'[u].stamp[i] = 0
        BY <2>3, <3>1 DEF Zeroes
      <4> QED
        BY <1>d, <4>1, CoversNothing
    <3>2. CASE u # s
      BY <1>d, <2>3, <3>2 DEF SaveInv
    <3> QED
      BY <3>1, <3>2
  <2>5. MarkInv'
    BY <1>d, <2>1, <2>2 DEF MarkInv
  <2> QED
    BY <2>1, <2>4, <2>5, HeapSnapshot
<1>16. ASSUME NEW g \in Goroutines, SaveOff(g) PROVE HeapInv'
  <2> DEFINE j == loc[g].cur
             s == loc[g].slot
  <2>1. UNCHANGED <<heap, off, ghost, sweep, marks>>
    BY <1>16 DEF SaveOff
  <2>2. UNCHANGED <<taken, live, clock>>
    BY <2>1 DEF heap, ghost
  <2>3. /\ s \in Slots /\ j \in ChunkId /\ taken + j \in ChunkId
        /\ \A i \in ChunkId :
             /\ sps'[s].off[i] = IF i = j THEN off[taken + j] ELSE sps[s].off[i]
             /\ sps'[s].stamp[i] = IF i = j THEN clock ELSE sps[s].stamp[i]
        /\ \A u \in Slots \ {s} : sps'[u] = sps[u]
    BY <1>16, SaveOffInSlot
  <2> HIDE DEF j, s
  <2>4. SaveInv'
    <3> SUFFICES ASSUME NEW u \in Slots, NEW i \in ChunkId
                 PROVE  Covers(live, clock, taken + i, sps'[u].off[i], sps'[u].stamp[i])
      BY <2>2 DEF SaveInv
    <3>1. CASE u = s /\ i = j
      BY <1>d, <2>3, <3>1, CoversNow
    <3>2. CASE u = s /\ i # j
      <4>1. sps'[u].off[i] = sps[u].off[i] /\ sps'[u].stamp[i] = sps[u].stamp[i]
        BY <2>3, <3>2
      <4> QED
        BY <1>d, <4>1 DEF SaveInv
    <3>3. CASE u # s
      BY <1>d, <2>3, <3>3 DEF SaveInv
    <3> QED
      BY <3>1, <3>2, <3>3
  <2>5. MarkInv'
    BY <1>d, <2>1, <2>2 DEF MarkInv
  <2> QED
    BY <2>1, <2>4, <2>5, HeapSnapshot
<1>17. ASSUME NEW g \in Goroutines, SaveDone(g) PROVE HeapInv'
  <2>1. UNCHANGED <<heap, off, ghost, sweep, marks>>
    BY <1>17 DEF SaveDone
  <2>2. UNCHANGED <<taken, live, clock>>
    BY <2>1 DEF heap, ghost
  <2>3. \A u \in Slots : sps'[u].off = sps[u].off /\ sps'[u].stamp = sps[u].stamp
    BY <1>17, SaveDoneInSlot
  <2>4. SaveInv'
    <3> SUFFICES ASSUME NEW u \in Slots, NEW i \in ChunkId
                 PROVE  Covers(live, clock, taken + i, sps'[u].off[i], sps'[u].stamp[i])
      BY <2>2 DEF SaveInv
    <3> QED
      BY <1>d, <2>3 DEF SaveInv
  <2>5. MarkInv'
    BY <1>d, <2>1, <2>2 DEF MarkInv
  <2> QED
    BY <2>1, <2>4, <2>5, HeapSnapshot
<1>18. ASSUME NEW g \in Goroutines, Close(g) PROVE HeapInv'
  <2>1. UNCHANGED <<heap, off, held, ghost, sweep>>
    BY <1>18 DEF Close
  <2>2. Elsewhere(g)
    BY <1>18, <1>c DEF CloseStep
  <2> QED
    BY <1>a, <2>1, <2>2, HeapQuiet
<1>19. ASSUME NEW g \in Goroutines, CloseTake(g) PROVE HeapInv'
  <2>1. UNCHANGED <<grown, cap, off, live, clock, sweep, marks, sps>> /\ taken' = grown
    BY <1>19 DEF CloseTake, ghost, held
  <2>2. LiveInv' /\ OrderInv' /\ SweepInv'
    BY <1>d, <2>1 DEF LiveInv, OrderInv, SweepInv
  <2>3. ASSUME NEW i \in Nat \ {0} PROVE \A r \in live : r.chunk # grown + i
    BY <1>d, <1>e, LiveTypes DEF LiveInv
  <2>4. MarkInv'
    <3> SUFFICES ASSUME NEW u \in Slots
                 PROVE  Covers(live, clock, grown + marks[u].idx, marks[u].off, marks[u].stamp)
      BY <2>1 DEF MarkInv
    <3>1. marks[u].idx \in Nat \ {0} /\ marks[u].stamp <= clock
      BY <1>d DEF TypeOK, HeldTypeOK, MarkInv, Covers
    <3> QED
      BY <2>3, <3>1 DEF Covers
  <2>5. SaveInv'
    <3> SUFFICES ASSUME NEW u \in Slots, NEW i \in ChunkId
                 PROVE  Covers(live, clock, grown + i, sps[u].off[i], sps[u].stamp[i])
      BY <2>1 DEF SaveInv
    <3>1. i \in Nat \ {0} /\ sps[u].stamp[i] <= clock
      BY <1>d DEF SaveInv, Covers, ChunkId
    <3> QED
      BY <2>3, <3>1 DEF Covers
  <2> QED
    BY <2>2, <2>4, <2>5 DEF HeapInv
<1>20. ASSUME NEW g \in Goroutines, Unmap(g) PROVE HeapInv'
  <2>1. /\ UNCHANGED <<taken, grown, cap, off, clock, sweep, held>>
        /\ live' \subseteq live
    BY <1>20 DEF Unmap
  <2>2. Elsewhere(g)
    BY <1>20, <1>c DEF CloseStep
  <2>3. LiveInv' /\ OrderInv' /\ Younger
    <3>1. \A r \in live' : r.hi <= off'[r.chunk] /\ r.hi <= cap'[r.chunk]
      BY <1>d, <2>1 DEF LiveInv
    <3> QED
      BY <1>a, <1>d, <1>e, <2>1, <3>1, RangesStable
  <2>4. SweepInv' /\ MarkInv' /\ SaveInv'
    BY <1>a, <2>1, <2>2, <2>3, PlansStable
  <2> QED
    BY <2>3, <2>4 DEF HeapInv
<1>21. ASSUME NEW g \in Goroutines, ClearChunk(g) PROVE HeapInv'
  <2> DEFINE c == loc[g].cur
  <2>1. /\ UNCHANGED <<taken, grown, clock, sweep, held>>
        /\ live' = {r \in live : r.chunk # c}
        /\ cap' = [cap EXCEPT ![c] = 0] /\ off' = [off EXCEPT ![c] = 0]
    BY <1>21 DEF ClearChunk
  <2>2. Elsewhere(g)
    BY <1>21, <1>c DEF CloseStep
  <2> HIDE DEF c
  <2>3. LiveInv' /\ OrderInv' /\ Younger
    <3>1. \A r \in live' : r.hi <= off'[r.chunk] /\ r.hi <= cap'[r.chunk]
      BY <1>d, <1>e, <2>1, LiveTypes DEF LiveInv
    <3> QED
      BY <1>a, <1>d, <1>e, <2>1, <3>1, RangesStable
  <2>4. SweepInv' /\ MarkInv' /\ SaveInv'
    BY <1>a, <2>1, <2>2, <2>3, PlansStable
  <2> QED
    BY <2>3, <2>4 DEF HeapInv
<1>22. CASE UNCHANGED vars
  BY <1>22, <1>d DEF vars, heap, held, ghost, HeapInv, LiveInv, OrderInv, SweepInv, MarkInv, SaveInv
<1> QED
  BY <1>1, <1>2, <1>3, <1>4, <1>5, <1>6, <1>7, <1>8, <1>9, <1>10, <1>11, <1>12,
     <1>13, <1>14, <1>15, <1>16, <1>17, <1>18, <1>19, <1>20, <1>21, <1>22
     DEF Next, AllocStep, ReclaimStep, SnapshotStep, CloseStep

----------------------------------------------------------------------------
(* What callers see *)

(***************************************************************************)
(* The inductive invariant.                                                *)
(***************************************************************************)
ArenaInv == TypeOK /\ LocalsInv /\ SmallInv /\ HeapInv

LEMMA ArenaInvariant == OffsetsFitMark => (Spec => []ArenaInv)
<1> SUFFICES ASSUME OffsetsFitMark PROVE Spec => []ArenaInv
  OBVIOUS
<1>1. Init => ArenaInv
  BY TypeInit, LocalsInit, SmallInit, HeapInit DEF ArenaInv
<1>2. ArenaInv /\ [Next]_vars => ArenaInv'
  BY TypeStep, LocalsStep, SmallStep, HeapStep DEF ArenaInv
<1> QED
  BY <1>1, <1>2, PTL DEF Spec

(***************************************************************************)
(* For any number of goroutines that allocate, reset, rewind, roll back    *)
(* and close in any interleaving, no byte is handed out while another      *)
(* allocation that uses it is still in use.                                *)
(***************************************************************************)
THEOREM AllocationsDisjoint == OffsetsFitMark => (Spec => []NoOverlap)
<1> SUFFICES ASSUME OffsetsFitMark PROVE Spec => []NoOverlap
  OBVIOUS
<1>1. ArenaInv => NoOverlap
  <2> SUFFICES ASSUME ArenaInv, NEW r \in live, NEW s \in live, r # s, r.chunk = s.chunk
               PROVE  r.hi <= s.lo \/ s.hi <= r.lo
    BY DEF NoOverlap, Stack!StackDisjoint, Stack!Disjoint
  <2>1. r.at \in Nat /\ s.at \in Nat
    BY LiveTypes DEF ArenaInv
  <2>2. /\ r.at # s.at
        /\ r.at < s.at => r.hi <= s.lo
        /\ s.at < r.at => s.hi <= r.lo
    BY DEF ArenaInv, HeapInv, OrderInv
  <2> QED
    BY <2>1, <2>2
<1> QED
  BY <1>1, ArenaInvariant, PTL

(***************************************************************************)
(* Every step of the arena is an allocation above all ranges in use of a   *)
(* chunk, gives back the youngest ranges of a chunk, or is invisible.      *)
(***************************************************************************)
LEMMA StepRefines ==
  ASSUME ArenaInv, [Next]_vars
  PROVE  [Stack!StackNext]_(Stack!rvars)
<1>a. TypeOK /\ LocalsInv /\ HeapInv
  BY DEF ArenaInv
<1>b. clock \in Nat /\ \A r \in live : r.at \in Nat /\ 1 <= r.at
  BY <1>a, LiveTypes DEF HeapInv, LiveInv
<1>c. LocalTypeOK /\ HeapTypeOK
  BY <1>a DEF TypeOK
<1>1. ASSUME NEW g \in Goroutines, CompareAndSwap(g)
      PROVE  Stack!Push \/ UNCHANGED Stack!rvars
  <2> DEFINE l == loc[g]
             r == [chunk |-> l.cur, lo |-> l.lo, hi |-> l.hi, at |-> clock + 1,
                   align |-> l.req.align]
  <2>1. l.cur \in 1..grown /\ l.off <= l.lo /\ l.lo < l.hi
    BY <1>a, <1>1 DEF CompareAndSwap, LocalsInv, LocalsInvAt
  <2>2. l.cur \in ChunkId /\ l.lo \in Nat /\ l.hi \in Nat /\ l.off \in Nat
    BY <1>c, <2>1, HeapNumbers, LocalFields
  <2>3. \/ UNCHANGED <<live, clock>>
        \/ /\ off[l.cur] = l.off /\ live' = live \cup {r} /\ clock' = clock + 1
    BY <1>1 DEF CompareAndSwap, Unmoved, ghost
  <2>4. r.chunk = l.cur /\ r.lo = l.lo /\ r.hi = l.hi /\ r.at = clock + 1
    OBVIOUS
  <2> HIDE DEF l, r
  <2>5. ASSUME off[l.cur] = l.off, live' = live \cup {r}, clock' = clock + 1 PROVE Stack!Push
    <3>1. \A s \in live : s.chunk = r.chunk => s.hi <= r.lo
      <4> SUFFICES ASSUME NEW s \in live, s.chunk = l.cur PROVE s.hi <= l.lo
        BY <2>4
      <4>1. s.hi \in Nat /\ s.hi <= off[l.cur]
        BY <1>a, LiveTypes DEF HeapInv, LiveInv
      <4> QED
        BY <2>1, <2>2, <2>5, <4>1
    <3> QED
      BY <2>1, <2>4, <2>5, <3>1 DEF Stack!Push
  <2> QED
    BY <2>3, <2>5 DEF Stack!rvars
<1>2. ASSUME NEW c \in ChunkId, clock' = clock, live' = {r \in live : r.chunk # c}
      PROVE  Stack!Pop(c)
  <2>1. live' = {r \in live : r.chunk = c => r.at <= 0}
    BY <1>b, <1>2
  <2> QED
    BY <1>b, <1>2, <2>1 DEF Stack!Pop
<1>3. ASSUME NEW g \in Goroutines, StoreOff(g) PROVE \E c \in ChunkId : Stack!Pop(c)
  <2> DEFINE c == Head(sweep[g].todo)
             t == sweep[g].stamp[c]
  <2>1. c \in ChunkId /\ t \in Nat
    BY <1>3, <1>c, SweepFields DEF StoreOff
  <2>2. t <= clock
    BY <1>a, <2>1 DEF HeapInv, SweepInv, Covers
  <2>3. live' = {r \in live : r.chunk = c => r.at <= t} /\ clock' = clock
    BY <1>3 DEF StoreOff
  <2> HIDE DEF c, t
  <2>4. Stack!Pop(c)
    BY <1>b, <2>1, <2>2, <2>3 DEF Stack!Pop
  <2> QED
    BY <2>1, <2>4
<1>4. ASSUME NEW g \in Goroutines, Unmap(g) \/ ClearChunk(g) PROVE \E c \in ChunkId : Stack!Pop(c)
  <2>1. loc[g].cur \in ChunkId
    <3>1. 1 <= loc[g].cur /\ loc[g].cur <= loc[g].lim /\ loc[g].lim <= grown
      BY <1>a, <1>4 DEF Unmap, ClearChunk, LocalsInv, LocalsInvAt
    <3> QED
      BY <1>c, <3>1, HeapNumbers, LocalFields
  <2>2. clock' = clock /\ live' = {r \in live : r.chunk # loc[g].cur}
    BY <1>4 DEF Unmap, ClearChunk
  <2> QED
    BY <1>2, <2>1, <2>2
<1>5. ASSUME NEW g \in Goroutines, AllocStep(g), ~CompareAndSwap(g) PROVE UNCHANGED ghost
  BY <1>5 DEF AllocStep, TryAlloc, LoadOff, SliceBuf, LockSlow, ChooseSize, GrowChunk, GrowFails
<1>6. ASSUME NEW g \in Goroutines, ReclaimStep(g), ~StoreOff(g) PROVE UNCHANGED ghost
  BY <1>6 DEF ReclaimStep, Reset, Rewind, Rollback, BeginSweep, StoreActive
<1>7. ASSUME NEW g \in Goroutines, SnapshotStep(g) PROVE UNCHANGED ghost
  BY <1>7 DEF SnapshotStep, Mark, Savepoint, SaveOff, SaveDone
<1>8. ASSUME NEW g \in Goroutines, CloseStep(g), ~(Unmap(g) \/ ClearChunk(g)) PROVE UNCHANGED ghost
  BY <1>8 DEF CloseStep, Close, CloseTake
<1>9. UNCHANGED vars => UNCHANGED ghost
  BY DEF vars
<1>10. UNCHANGED ghost => UNCHANGED Stack!rvars
  BY DEF ghost, Stack!rvars
<1> QED
  BY <1>1, <1>3, <1>4, <1>5, <1>6, <1>7, <1>8, <1>9, <1>10 DEF Next, Stack!StackNext

(***************************************************************************)
(* The arena implements the abstract stack of ranges: whatever races, its  *)
(* callers see allocations put on top of what is in use and memory taken   *)
(* back from the top only.                                                 *)
(***************************************************************************)
THEOREM ArenaImplementsStack == OffsetsFitMark => (Spec => ImplementsStack)
<1> SUFFICES ASSUME OffsetsFitMark PROVE Spec => ImplementsStack
  OBVIOUS
<1>1. Init => Stack!StackInit
  BY DEF Init, Stack!StackInit
<1>2. ArenaInv /\ [Next]_vars => [Stack!StackNext]_(Stack!rvars)
  BY StepRefines
<1> QED
  BY <1>1, <1>2, ArenaInvariant, PTL DEF Spec, ImplementsStack, Stack!StackSpec
=============================================================================
