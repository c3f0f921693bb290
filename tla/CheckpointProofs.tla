-------------------------- MODULE CheckpointProofs --------------------------
(***************************************************************************)
(* First the list of chunks, the active pointer, the offsets and the       *)
(* growth of an Arena: what the mutex protects, and what the lock-free     *)
(* fast path may find changed under it.  Then what Mark, Rewind,           *)
(* Savepoint, Rollback and Transaction keep: Rewind and Rollback take back *)
(* nothing that is older than the mark or savepoint, if clients            *)
(* synchronise, and a failed transaction of a goroutine that had the arena *)
(* to itself leaves the arena as it found it.                              *)
(***************************************************************************)
EXTENDS Transaction, ArenaProofs, SequenceTheorems

----------------------------------------------------------------------------
(* The list of chunks *)

(***************************************************************************)
(* A goroutine in allocSlow, in a reclaiming call or in Savepoint holds    *)
(* the mutex.                                                              *)
(***************************************************************************)
Trying == {"try", "cas", "slice"}

Critical(g) ==
  \/ pc[g] \in {"size", "map", "sweep", "save"}
  \/ pc[g] \in Trying /\ loc[g].ctx # "fast"

MutexInv == \A g \in Goroutines : Critical(g) => mu = g

(***************************************************************************)
(* What may be stored into the active pointer.                             *)
(***************************************************************************)
Listed(c) ==
  /\ c = Nil <=> Chunks = {}
  /\ c # Nil => c \in Chunks

(***************************************************************************)
(* Inside allocSlow the chunk is one of the list; whoever holds a chunk of *)
(* the list, on the fast path too, knows its length; a chunk that Close    *)
(* clears is no longer in the list.                                        *)
(***************************************************************************)
ListAt(g) ==
  /\ pc[g] \in Trying /\ loc[g].ctx # "fast" => loc[g].cur > taken
  /\ pc[g] \in {"try", "cas"} /\ loc[g].cur > taken => loc[g].lim <= cap[loc[g].cur]
  /\ pc[g] = "cas" => loc[g].hi <= loc[g].lim
  /\ pc[g] = "slice" /\ loc[g].cur > taken => loc[g].hi <= cap[loc[g].cur]
  /\ pc[g] = "sweep" => Listed(sweep[g].active)
  /\ pc[g] = "sweep" => Reopened \/ \A c \in Chunks : sweep[g].off[c] <= cap[c]
  /\ pc[g] \in {"take", "release", "clear"} => closed = 1
  /\ pc[g] \in {"release", "clear"} => loc[g].lim <= taken

(***************************************************************************)
(* Until Close, a savepoint keeps offsets of chunks that are still there.  *)
(***************************************************************************)
SavedInv ==
  taken = 0 =>
    \A s \in Slots : \A i \in ChunkId :
      sps[s].off[i] = 0 \/ (i <= grown /\ sps[s].off[i] <= cap[i])

ListInv ==
  /\ Listed(active)
  /\ UsedWithinCapacity
  /\ SavedInv
  /\ taken > 0 => closed = 1
  /\ \A g \in Goroutines : ListAt(g)

(***************************************************************************)
(* The size that was chosen is within maxCap and large enough, and is so   *)
(* still when the chunk is made.                                           *)
(***************************************************************************)
GrowthAt(g) ==
  /\ pc[g] = "map" => /\ MaxCap = 0 \/ curCap + loc[g].size <= MaxCap
                      /\ loc[g].req.n <= loc[g].size
  /\ pc[g] \in {"try", "cas"} /\ loc[g].ctx = "fresh" => loc[g].req.n <= loc[g].lim

GrowthInv == CapacityBounded /\ \A g \in Goroutines : GrowthAt(g)

(***************************************************************************)
(* A range about to be claimed is aligned, unless Close has taken its      *)
(* chunk away meanwhile.                                                   *)
(***************************************************************************)
AlignAt(g) ==
  pc[g] = "cas" =>
    cap[loc[g].cur] = 0 \/ (base[loc[g].cur] + loc[g].lo) % loc[g].req.align = 0

AlignInv ==
  /\ \A r \in live : r.chunk <= grown
  /\ AddressesAligned
  /\ \A g \in Goroutines : AlignAt(g)

(***************************************************************************)
(* If clients synchronise, a reclaiming call or Close runs alone.          *)
(***************************************************************************)
SyncInv ==
  /\ \A g, h \in Goroutines : pc[g] \in Reclaiming /\ h # g => pc[h] = "idle"
  /\ \A g \in Goroutines : pc[g] \in Trying => loc[g].cur > taken
  /\ NoSlicePanic

(***************************************************************************)
(* If besides nobody uses the arena after Close, the call of Close still   *)
(* has every chunk to release that is mapped.                              *)
(***************************************************************************)
ToRelease(g) ==
  \/ pc[g] = "take" /\ taken = 0
  \/ pc[g] = "release" /\ mapped \subseteq loc[g].cur..loc[g].lim
  \/ pc[g] = "clear" /\ mapped \subseteq (loc[g].cur + 1)..loc[g].lim

ReleaseInv ==
  /\ mapped \subseteq 1..grown
  /\ closed = 1 => \A g \in Goroutines : pc[g] \in {"idle", "take", "release", "clear"}
  /\ closed = 1 /\ mapped # {} => \E g \in Goroutines : ToRelease(g)

----------------------------------------------------------------------------
(* What a step does to the goroutine that takes it *)

LEMMA GoroutineTypes ==
  ASSUME TypeOK
  PROVE  /\ HeapTypeOK /\ LocalTypeOK /\ ControlTypeOK
         /\ pc \in [Goroutines -> Labels]
         /\ loc \in [Goroutines -> Locals]
         /\ sweep \in [Goroutines -> Sweeps]
  BY DEF TypeOK, ControlTypeOK, LocalTypeOK

LEMMA TryAllocEffect ==
  ASSUME TypeOK, NEW g \in Goroutines, NEW rq \in Requests, TryAlloc(g, rq)
  PROVE  /\ pc[g] = "idle" /\ loc'[g].ctx = "fast" /\ loc'[g].req = rq
         /\ \/ pc'[g] = "lock" /\ active = Nil
            \/ /\ pc'[g] = "try" /\ active # Nil
               /\ loc'[g].cur = active /\ loc'[g].lim = cap[active]
         /\ UNCHANGED <<heap, off, active, mu, closed, sweep, held, ghost>>
<1>1. pc[g] = "idle" /\ UNCHANGED <<heap, off, active, mu, closed, sweep, held, ghost>>
  BY DEF TryAlloc, MayUse
<1>2. NoLocals.ctx = "fast"
  BY DEF NoLocals
<1>3. CASE active = Nil
  <2>1. pc'[g] = "lock" /\ loc'[g] = [NoLocals EXCEPT !.req = rq]
    BY <1>3, GoroutineTypes DEF TryAlloc, Goto, SetLocals
  <2> QED
    BY <1>1, <1>2, <1>3, <2>1, ConstantTypes, UpdatedFields
<1>4. CASE active # Nil
  <2>1. /\ pc'[g] = "try"
        /\ loc'[g] = [NoLocals EXCEPT !.req = rq, !.cur = active, !.lim = cap[active]]
    BY <1>4, GoroutineTypes DEF TryAlloc, Goto, SetLocals
  <2> QED
    BY <1>1, <1>2, <1>4, <2>1, ConstantTypes, UpdatedFields
<1> QED
  BY <1>3, <1>4

LEMMA LoadOffEffect ==
  ASSUME TypeOK, LocalsInv, NEW g \in Goroutines, LoadOff(g)
  PROVE  /\ pc[g] = "try" /\ loc[g].cur \in 1..grown
         /\ UNCHANGED <<heap, off, active, closed, sweep, held, ghost>>
         /\ \/ /\ pc'[g] = "cas" /\ mu' = mu
               /\ loc'[g].cur = loc[g].cur /\ loc'[g].lim = loc[g].lim
               /\ loc'[g].ctx = loc[g].ctx /\ loc'[g].req = loc[g].req
               /\ loc'[g].lo = AlignedOff(loc[g].cur, off[loc[g].cur], loc[g].req.align)
               /\ loc'[g].hi <= loc[g].lim
            \/ pc'[g] = "lock" /\ mu' = mu
            \/ /\ pc'[g] = "try" /\ mu' = mu
               /\ loc[g].ctx \in {"retry", "scan"} /\ loc[g].cur < grown
               /\ loc'[g].cur = loc[g].cur + 1 /\ loc'[g].lim = cap[loc[g].cur + 1]
               /\ loc'[g].ctx = "scan" /\ loc'[g].req = loc[g].req
            \/ /\ pc'[g] = "size" /\ mu' = mu /\ loc'[g] = loc[g]
               /\ loc[g].ctx \in {"retry", "scan"}
            \/ pc'[g] = "idle" /\ mu' = NoOne /\ loc[g].ctx = "fresh"
<1> DEFINE c  == loc[g].cur
           lo == AlignedOff(c, off[c], loc[g].req.align)
           hi == lo + loc[g].req.n
<1>1. /\ pc[g] = "try" /\ c \in 1..grown
      /\ UNCHANGED <<heap, off, active, closed, sweep, held, ghost>>
  BY DEF LoadOff, LocalsInv, LocalsInvAt
<1>2. CASE Fits(loc[g], lo, hi)
  <2>1. /\ pc'[g] = "cas" /\ mu' = mu
        /\ loc'[g] = [loc[g] EXCEPT !.off = off[c], !.lo = lo, !.hi = hi]
    BY <1>2, GoroutineTypes DEF LoadOff, Goto, SetLocals
  <2>2. hi <= loc[g].lim
    BY <1>2 DEF Fits
  <2> HIDE DEF c, lo, hi
  <2>3. /\ loc'[g].cur = c /\ loc'[g].lim = loc[g].lim /\ loc'[g].ctx = loc[g].ctx
        /\ loc'[g].req = loc[g].req /\ loc'[g].lo = lo /\ loc'[g].hi = hi
    BY <2>1, GoroutineTypes, UpdatedFields DEF c
  <2> QED
    BY <1>1, <2>1, <2>2, <2>3 DEF c, lo
<1>3. CASE ~Fits(loc[g], lo, hi)
  <2>1. \/ pc'[g] = "lock" /\ mu' = mu
        \/ /\ pc'[g] = "try" /\ mu' = mu /\ c < grown /\ loc[g].ctx \in {"retry", "scan"}
           /\ loc'[g] = [loc[g] EXCEPT !.cur = c + 1, !.ctx = "scan", !.lim = cap[c + 1]]
        \/ pc'[g] = "size" /\ mu' = mu /\ loc'[g] = loc[g] /\ loc[g].ctx \in {"retry", "scan"}
        \/ pc'[g] = "idle" /\ mu' = NoOne /\ loc[g].ctx = "fresh"
    BY <1>3, GoroutineTypes DEF LoadOff, ScanOn, TryOn, FailLocked, Return, Goto, SetLocals
  <2>2. ASSUME loc'[g] = [loc[g] EXCEPT !.cur = c + 1, !.ctx = "scan", !.lim = cap[c + 1]]
        PROVE  /\ loc'[g].cur = c + 1 /\ loc'[g].lim = cap[c + 1]
               /\ loc'[g].ctx = "scan" /\ loc'[g].req = loc[g].req
    <3> HIDE DEF c
    <3> QED
      BY <2>2, GoroutineTypes, UpdatedFields
  <2> HIDE DEF lo, hi
  <2> QED
    BY <1>1, <2>1, <2>2
<1> QED
  BY <1>2, <1>3

LEMMA CompareAndSwapEffect ==
  ASSUME TypeOK, LocalsInv, NEW g \in Goroutines, CompareAndSwap(g)
  PROVE  /\ pc[g] = "cas" /\ loc'[g] = loc[g] /\ loc[g].cur \in 1..grown
         /\ loc[g].lo < loc[g].hi
         /\ UNCHANGED <<heap, active, mu, closed, loc, sweep, held, outcome>>
         /\ \/ /\ pc'[g] = "slice"
               /\ \A c \in ChunkId : off'[c] = IF c = loc[g].cur THEN loc[g].hi ELSE off[c]
               /\ \/ /\ loc[g].hi <= cap[loc[g].cur] /\ clock' = clock + 1
                     /\ live' = live \cup {[chunk |-> loc[g].cur, lo |-> loc[g].lo,
                                            hi |-> loc[g].hi, at |-> clock + 1,
                                            align |-> loc[g].req.align]}
                  \/ live' = live /\ clock' = clock
            \/ pc'[g] = "try" /\ off' = off /\ live' = live /\ clock' = clock
<1>1. /\ pc[g] = "cas" /\ loc'[g] = loc[g] /\ loc[g].cur \in 1..grown /\ loc[g].lo < loc[g].hi
      /\ UNCHANGED <<heap, active, mu, closed, loc, sweep, held, outcome>>
  BY DEF CompareAndSwap, LocalsInv, LocalsInvAt
<1>2. off \in [ChunkId -> Nat]
  BY DEF TypeOK, HeapTypeOK
<1>3. CASE Unmoved(loc[g])
  <2>1. /\ pc'[g] = "slice" /\ off' = [off EXCEPT ![loc[g].cur] = loc[g].hi]
        /\ \/ /\ loc[g].hi <= cap[loc[g].cur] /\ clock' = clock + 1
              /\ live' = live \cup {[chunk |-> loc[g].cur, lo |-> loc[g].lo,
                                     hi |-> loc[g].hi, at |-> clock + 1,
                                     align |-> loc[g].req.align]}
           \/ live' = live /\ clock' = clock
    BY <1>3, GoroutineTypes DEF CompareAndSwap, Goto, ghost
  <2> QED
    BY <1>1, <1>2, <2>1
<1>4. CASE ~Unmoved(loc[g])
  BY <1>1, <1>4, GoroutineTypes DEF CompareAndSwap, Goto, ghost
<1> QED
  BY <1>3, <1>4

LEMMA SliceBufEffect ==
  ASSUME TypeOK, LocalsInv, NEW g \in Goroutines, SliceBuf(g)
  PROVE  /\ pc[g] = "slice" /\ pc'[g] = "idle" /\ loc[g].cur \in 1..grown
         /\ UNCHANGED <<heap, off, closed, sweep, held, ghost>>
         /\ \/ active' = active
            \/ active' = loc[g].cur /\ loc[g].ctx = "scan" /\ loc[g].hi <= cap[loc[g].cur]
         /\ loc[g].ctx = "scan" /\ loc[g].hi <= cap[loc[g].cur] => active' = loc[g].cur
         /\ loc[g].ctx = "fast" => mu' = mu
         /\ loc[g].hi <= cap[loc[g].cur] => outcome' = [outcome EXCEPT ![g] = "ok"]
  BY GoroutineTypes DEF SliceBuf, Return, Goto, LocalsInv, LocalsInvAt

LEMMA LockSlowEffect ==
  ASSUME TypeOK, NEW g \in Goroutines, LockSlow(g)
  PROVE  /\ pc[g] = "lock" /\ mu = NoOne /\ mu' = g /\ loc'[g].req = loc[g].req
         /\ UNCHANGED <<heap, off, active, closed, sweep, held, ghost, outcome>>
         /\ \/ pc'[g] = "size"
            \/ /\ pc'[g] = "try" /\ active # Nil
               /\ loc'[g].cur = active /\ loc'[g].lim = cap[active] /\ loc'[g].ctx = "retry"
<1>1. /\ pc[g] = "lock" /\ mu = NoOne /\ mu' = g
      /\ UNCHANGED <<heap, off, active, closed, sweep, held, ghost, outcome>>
  BY DEF LockSlow
<1>2. CASE active = Nil
  BY <1>1, <1>2, GoroutineTypes DEF LockSlow, Goto
<1>3. CASE active # Nil
  <2>1. /\ pc'[g] = "try"
        /\ loc'[g] = [loc[g] EXCEPT !.cur = active, !.ctx = "retry", !.lim = cap[active]]
    BY <1>3, GoroutineTypes DEF LockSlow, TryOn, Goto, SetLocals
  <2> QED
    BY <1>1, <1>3, <2>1, GoroutineTypes, UpdatedFields
<1> QED
  BY <1>2, <1>3

LEMMA ChooseSizeEffect ==
  ASSUME TypeOK, NEW g \in Goroutines, ChooseSize(g)
  PROVE  /\ pc[g] = "size"
         /\ UNCHANGED <<heap, off, active, closed, sweep, held, ghost>>
         /\ \/ pc'[g] = "idle" /\ mu' = NoOne
            \/ /\ pc'[g] = "map" /\ mu' = mu /\ loc'[g].req = loc[g].req
               /\ loc'[g].size = ClampedSize(loc[g].req.n) /\ loc'[g].size # 0
<1>1. pc[g] = "size" /\ UNCHANGED <<heap, off, active, closed, sweep, held, ghost>>
  BY DEF ChooseSize
<1> DEFINE size == ClampedSize(loc[g].req.n)
<1>2. CASE size = 0
  BY <1>1, <1>2, GoroutineTypes DEF ChooseSize, FailLocked, Return, Goto
<1>3. CASE size # 0
  <2>1. pc'[g] = "map" /\ mu' = mu /\ loc'[g] = [loc[g] EXCEPT !.size = size]
    BY <1>3, GoroutineTypes DEF ChooseSize, Goto, SetLocals
  <2> HIDE DEF size
  <2>2. loc'[g].size = size /\ loc'[g].req = loc[g].req
    BY <2>1, GoroutineTypes, UpdatedFields
  <2> QED
    BY <1>1, <1>3, <2>1, <2>2 DEF size
<1> QED
  BY <1>2, <1>3

LEMMA GrowChunkEffect ==
  ASSUME TypeOK, NEW g \in Goroutines, GrowChunk(g)
  PROVE  /\ pc[g] = "map" /\ pc'[g] = "try"
         /\ grown' = grown + 1 /\ grown + 1 \in ChunkId /\ active' = grown + 1
         /\ mapped' = mapped \cup {grown + 1}
         /\ \A c \in ChunkId : c # grown + 1 =>
              cap'[c] = cap[c] /\ off'[c] = off[c] /\ base'[c] = base[c]
         /\ cap'[grown + 1] = loc[g].size /\ off'[grown + 1] = 0
         /\ curCap' = curCap + loc[g].size
         /\ loc'[g].cur = grown + 1 /\ loc'[g].ctx = "fresh" /\ loc'[g].lim = loc[g].size
         /\ loc'[g].req = loc[g].req
         /\ UNCHANGED <<taken, mu, closed, sweep, held, ghost, outcome>>
<1>1. /\ cap \in [ChunkId -> Nat] /\ off \in [ChunkId -> Nat] /\ base \in [ChunkId -> Nat]
      /\ grown \in Nat /\ 1 <= grown
  BY GoroutineTypes, HeapNumbers DEF HeapTypeOK
<1>2. grown + 1 \in ChunkId
  BY <1>1, ArenaAssumption DEF GrowChunk, ChunkId
<1> DEFINE c == grown + 1
<1>3. /\ cap' = [cap EXCEPT ![c] = loc[g].size] /\ off' = [off EXCEPT ![c] = 0]
      /\ \E b \in Bases : base' = [base EXCEPT ![c] = b]
      /\ mapped' = mapped \cup {c}
      /\ curCap' = curCap + loc[g].size
      /\ grown' = c /\ active' = c /\ pc[g] = "map"
      /\ UNCHANGED <<taken, mu, closed, sweep, held, ghost, outcome>>
  BY DEF GrowChunk
<1>4. pc'[g] = "try" /\ loc'[g] = [loc[g] EXCEPT !.cur = c, !.ctx = "fresh", !.lim = loc[g].size]
  BY GoroutineTypes DEF GrowChunk, Goto, SetLocals
<1> HIDE DEF c
<1>5. /\ loc'[g].cur = c /\ loc'[g].ctx = "fresh" /\ loc'[g].lim = loc[g].size
      /\ loc'[g].req = loc[g].req
  BY <1>4, GoroutineTypes, UpdatedFields
<1>6. \A d \in ChunkId : d # c => cap'[d] = cap[d] /\ off'[d] = off[d] /\ base'[d] = base[d]
  BY <1>1, <1>3
<1>7. cap'[c] = loc[g].size /\ off'[c] = 0
  BY <1>1, <1>2, <1>3 DEF c
<1> QED
  BY <1>2, <1>3, <1>4, <1>5, <1>6, <1>7 DEF c

LEMMA GrowFailsEffect ==
  ASSUME TypeOK, NEW g \in Goroutines, GrowFails(g)
  PROVE  /\ pc[g] = "map" /\ pc'[g] = "idle" /\ mu' = NoOne
         /\ UNCHANGED <<heap, off, active, closed, sweep, held, ghost>>
  BY GoroutineTypes DEF GrowFails, FailLocked, Return, Goto

LEMMA BeginSweepEffect ==
  ASSUME TypeOK, NEW g \in Goroutines, NEW plan, BeginSweep(g, plan)
  PROVE  /\ pc[g] = "idle" /\ pc'[g] = "sweep" /\ mu = NoOne /\ mu' = g
         /\ sweep'[g] = plan
         /\ UseAfterClose \/ closed = 0
         /\ ClientSync => \A h \in Goroutines : pc[h] = "idle"
         /\ UNCHANGED <<heap, off, active, closed, loc, held, ghost, outcome>>
  BY GoroutineTypes DEF BeginSweep, MayReclaim, Goto

LEMMA StoreOffEffect ==
  ASSUME TypeOK, NEW g \in Goroutines, StoreOff(g)
  PROVE  LET c == Head(sweep[g].todo)
         IN /\ pc[g] = "sweep" /\ pc' = pc /\ c \in ChunkId
            /\ \A d \in ChunkId : off'[d] = IF d = c THEN sweep[g].off[c] ELSE off[d]
            /\ live' = {r \in live : r.chunk = c => r.at <= sweep[g].stamp[c]}
            /\ sweep'[g].todo = Tail(sweep[g].todo)
            /\ sweep'[g].off = sweep[g].off /\ sweep'[g].stamp = sweep[g].stamp
            /\ sweep'[g].since = sweep[g].since /\ sweep'[g].active = sweep[g].active
            /\ sweep[g].todo # <<>>
            /\ UNCHANGED <<heap, active, mu, closed, loc, held, clock, outcome>>
<1> DEFINE c == Head(sweep[g].todo)
           q == sweep[g]
<1>1. /\ pc[g] = "sweep" /\ q.todo # <<>> /\ off' = [off EXCEPT ![c] = q.off[c]]
      /\ live' = {r \in live : r.chunk = c => r.at <= q.stamp[c]}
      /\ sweep' = [sweep EXCEPT ![g] = [q EXCEPT !.todo = Tail(@)]]
      /\ pc' = pc
      /\ UNCHANGED <<heap, active, mu, closed, loc, held, clock, outcome>>
  BY DEF StoreOff
<1>2. q \in Sweeps /\ q.todo \in Seq(ChunkId) /\ off \in [ChunkId -> Nat]
  BY GoroutineTypes, SweepFields DEF HeapTypeOK
<1>3. c \in ChunkId
  BY <1>1, <1>2
<1>4. sweep'[g] = [q EXCEPT !.todo = Tail(@)]
  BY <1>1, GoroutineTypes
<1>5. \A d \in ChunkId : off'[d] = IF d = c THEN q.off[c] ELSE off[d]
  BY <1>1, <1>2, <1>3
<1> HIDE DEF c, q
<1>6. /\ sweep'[g].todo = Tail(q.todo) /\ sweep'[g].off = q.off /\ sweep'[g].stamp = q.stamp
      /\ sweep'[g].since = q.since /\ sweep'[g].active = q.active
  BY <1>2, <1>4 DEF Sweeps
<1> QED
  BY <1>1, <1>3, <1>5, <1>6 DEF c, q

LEMMA StoreActiveEffect ==
  ASSUME TypeOK, NEW g \in Goroutines, StoreActive(g)
  PROVE  /\ pc[g] = "sweep" /\ pc'[g] = "idle" /\ active' = sweep[g].active /\ mu' = NoOne
         /\ sweep[g].todo = <<>>
         /\ UNCHANGED <<heap, off, closed, loc, held, ghost, outcome>>
  BY GoroutineTypes DEF StoreActive, Goto

LEMMA SavepointEffect ==
  ASSUME TypeOK, NEW g \in Goroutines, NEW s \in Slots, Savepoint(g, s)
  PROVE  /\ pc[g] = "idle" /\ pc'[g] = "save" /\ mu = NoOne /\ mu' = g
         /\ loc'[g].cur = 1 /\ loc'[g].slot = s
         /\ \A t \in Slots : t # s => sps'[t] = sps[t]
         /\ sps'[s].state = "nil" /\ sps'[s].n = NumChunks /\ sps'[s].since = clock
         /\ sps'[s].active = IF active \in Chunks THEN active - taken ELSE 1
         /\ sps'[s].off = Zeroes /\ sps'[s].stamp = Zeroes
         /\ UNCHANGED <<heap, off, active, closed, sweep, marks, ghost, outcome>>
<1>1. /\ pc[g] = "idle" /\ mu = NoOne /\ mu' = g
      /\ UNCHANGED <<heap, off, active, closed, sweep, marks, ghost, outcome>>
  BY DEF Savepoint, MayUse
<1>2. pc'[g] = "save" /\ loc'[g] = [loc[g] EXCEPT !.cur = 1, !.slot = s]
  BY GoroutineTypes DEF Savepoint, Goto, SetLocals
<1>3. loc'[g].cur = 1 /\ loc'[g].slot = s
  BY <1>2, GoroutineTypes DEF Locals
<1> DEFINE k == IF active \in Chunks THEN active - taken ELSE 1
<1>4. sps' = [sps EXCEPT ![s] = [NilSavepoint EXCEPT !.n = NumChunks, !.since = clock, !.active = k]]
  BY DEF Savepoint
<1>5. sps \in [Slots -> Savepoints]
  BY DEF TypeOK, HeldTypeOK
<1> HIDE DEF k
<1>6. sps'[s] = [NilSavepoint EXCEPT !.n = NumChunks, !.since = clock, !.active = k]
  BY <1>4, <1>5
<1>7. \A t \in Slots : t # s => sps'[t] = sps[t]
  BY <1>4, <1>5
<1>8. /\ sps'[s].state = "nil" /\ sps'[s].n = NumChunks /\ sps'[s].since = clock
      /\ sps'[s].active = k /\ sps'[s].off = Zeroes /\ sps'[s].stamp = Zeroes
  BY <1>6 DEF NilSavepoint
<1> QED
  BY <1>1, <1>2, <1>3, <1>7, <1>8 DEF k

LEMMA SaveOffEffect ==
  ASSUME TypeOK, LocalsInv, NEW g \in Goroutines, SaveOff(g)
  PROVE  LET i == loc[g].cur
             s == loc[g].slot
         IN /\ pc[g] = "save" /\ pc' = pc /\ s \in Slots
            /\ i \in ChunkId /\ i <= NumChunks /\ taken + i \in ChunkId
            /\ loc'[g].cur = i + 1 /\ loc'[g].slot = s
            /\ \A j \in ChunkId :
                 /\ sps'[s].off[j] = IF j = i THEN off[taken + i] ELSE sps[s].off[j]
                 /\ sps'[s].stamp[j] = IF j = i THEN clock ELSE sps[s].stamp[j]
            /\ sps'[s].n = sps[s].n /\ sps'[s].since = sps[s].since
            /\ sps'[s].active = sps[s].active /\ sps'[s].state = sps[s].state
            /\ \A t \in Slots : t # s => sps'[t] = sps[t]
            /\ UNCHANGED <<heap, off, active, mu, closed, sweep, marks, ghost, outcome>>
<1> DEFINE i == loc[g].cur
           s == loc[g].slot
<1>1. /\ pc[g] = "save" /\ pc' = pc /\ i <= NumChunks
      /\ UNCHANGED <<heap, off, active, mu, closed, sweep, marks, ghost, outcome>>
  BY DEF SaveOff
<1>2. s \in Slots /\ i >= 1 /\ i \in Nat
  BY <1>1, GoroutineTypes, LocalFields DEF LocalsInv, LocalsInvAt
<1>3. i \in ChunkId /\ taken + i \in ChunkId
  BY <1>1, <1>2, GoroutineTypes, HeapNumbers DEF NumChunks, ChunkId
<1>4. loc'[g] = [loc[g] EXCEPT !.cur = i + 1]
  BY GoroutineTypes DEF SaveOff, SetLocals
<1>5. loc'[g].cur = i + 1 /\ loc'[g].slot = s
  BY <1>4, GoroutineTypes DEF Locals
<1>6. sps' = [sps EXCEPT ![s] = [sps[s] EXCEPT !.off   = [@ EXCEPT ![i] = off[taken + i]],
                                               !.stamp = [@ EXCEPT ![i] = clock]]]
  BY DEF SaveOff
<1>7. sps \in [Slots -> Savepoints] /\ sps[s] \in Savepoints
  BY <1>2 DEF TypeOK, HeldTypeOK
<1> HIDE DEF i, s
<1>8. sps'[s] = [sps[s] EXCEPT !.off   = [@ EXCEPT ![i] = off[taken + i]],
                               !.stamp = [@ EXCEPT ![i] = clock]]
  BY <1>2, <1>6, <1>7
<1>9. \A t \in Slots : t # s => sps'[t] = sps[t]
  BY <1>6, <1>7
<1>10. /\ sps'[s].off = [sps[s].off EXCEPT ![i] = off[taken + i]]
       /\ sps'[s].stamp = [sps[s].stamp EXCEPT ![i] = clock]
       /\ sps'[s].n = sps[s].n /\ sps'[s].since = sps[s].since
       /\ sps'[s].active = sps[s].active /\ sps'[s].state = sps[s].state
  BY <1>7, <1>8 DEF Savepoints
<1>11. sps[s].off \in [ChunkId -> Nat] /\ sps[s].stamp \in [ChunkId -> Nat]
  BY <1>7 DEF Savepoints
<1>12. \A j \in ChunkId :
         /\ sps'[s].off[j] = IF j = i THEN off[taken + i] ELSE sps[s].off[j]
         /\ sps'[s].stamp[j] = IF j = i THEN clock ELSE sps[s].stamp[j]
  BY <1>10, <1>11
<1> QED
  BY <1>1, <1>2, <1>3, <1>5, <1>9, <1>10, <1>12 DEF i, s

LEMMA SaveDoneEffect ==
  ASSUME TypeOK, LocalsInv, NEW g \in Goroutines, SaveDone(g)
  PROVE  LET s == loc[g].slot
         IN /\ pc[g] = "save" /\ pc'[g] = "idle" /\ mu' = NoOne /\ s \in Slots
            /\ loc[g].cur > NumChunks
            /\ sps'[s].off = sps[s].off /\ sps'[s].stamp = sps[s].stamp /\ sps'[s].n = sps[s].n
            /\ sps'[s].since = sps[s].since /\ sps'[s].active = sps[s].active /\ sps'[s].state = "valid"
            /\ \A t \in Slots : t # s => sps'[t] = sps[t]
            /\ UNCHANGED <<heap, off, active, closed, sweep, marks, ghost, outcome>>
<1> DEFINE s == loc[g].slot
<1>1. /\ pc[g] = "save" /\ pc'[g] = "idle" /\ mu' = NoOne /\ loc[g].cur > NumChunks
      /\ UNCHANGED <<heap, off, active, closed, sweep, marks, ghost, outcome>>
  BY GoroutineTypes DEF SaveDone, Return, Goto
<1>2. s \in Slots
  BY <1>1 DEF LocalsInv, LocalsInvAt
<1>3. sps' = [sps EXCEPT ![s] = [sps[s] EXCEPT !.state = "valid"]]
  BY DEF SaveDone
<1>4. sps \in [Slots -> Savepoints] /\ sps[s] \in Savepoints
  BY <1>2 DEF TypeOK, HeldTypeOK
<1> HIDE DEF s
<1>5. sps'[s] = [sps[s] EXCEPT !.state = "valid"] /\ \A t \in Slots : t # s => sps'[t] = sps[t]
  BY <1>2, <1>3, <1>4
<1>6. /\ sps'[s].off = sps[s].off /\ sps'[s].stamp = sps[s].stamp /\ sps'[s].n = sps[s].n
      /\ sps'[s].since = sps[s].since /\ sps'[s].active = sps[s].active /\ sps'[s].state = "valid"
  BY <1>4, <1>5 DEF Savepoints
<1> QED
  BY <1>1, <1>2, <1>5, <1>6 DEF s

LEMMA CloseEffect ==
  ASSUME TypeOK, NEW g \in Goroutines, Close(g)
  PROVE  /\ pc[g] = "idle" /\ closed' = 1
         /\ IF closed = 1 THEN pc' = pc ELSE pc'[g] = "take"
         /\ ClientSync => \A h \in Goroutines : pc[h] = "idle"
         /\ UNCHANGED <<heap, off, active, mu, loc, sweep, held, ghost, outcome>>
  BY GoroutineTypes DEF Close, Goto

LEMMA CloseTakeEffect ==
  ASSUME TypeOK, NEW g \in Goroutines, CloseTake(g)
  PROVE  /\ pc[g] = "take" /\ mu = NoOne
         /\ taken' = grown /\ curCap' = 0 /\ active' = Nil
         /\ \/ NumChunks = 0 /\ pc'[g] = "idle"
            \/ /\ NumChunks # 0 /\ pc'[g] = "release"
               /\ loc'[g].cur = taken + 1 /\ loc'[g].lim = grown
         /\ UNCHANGED <<grown, cap, base, mapped, off, mu, closed, sweep, held, ghost, outcome>>
<1>1. /\ pc[g] = "take" /\ mu = NoOne /\ taken' = grown /\ curCap' = 0 /\ active' = Nil
      /\ UNCHANGED <<grown, cap, base, mapped, off, mu, closed, sweep, held, ghost, outcome>>
  BY DEF CloseTake
<1>2. CASE NumChunks = 0
  BY <1>1, <1>2, GoroutineTypes DEF CloseTake, Return, Goto
<1>3. CASE NumChunks # 0
  <2>1. pc'[g] = "release" /\ loc'[g] = [loc[g] EXCEPT !.cur = taken + 1, !.lim = grown]
    BY <1>3, GoroutineTypes DEF CloseTake, Goto, SetLocals
  <2> QED
    BY <1>1, <1>3, <2>1, GoroutineTypes, UpdatedFields
<1> QED
  BY <1>2, <1>3

LEMMA UnmapEffect ==
  ASSUME TypeOK, NEW g \in Goroutines, Unmap(g)
  PROVE  /\ pc[g] = "release" /\ pc'[g] = "clear"
         /\ mapped' = mapped \ {loc[g].cur}
         /\ live' = {r \in live : r.chunk # loc[g].cur}
         /\ UNCHANGED <<taken, grown, cap, base, curCap, off, active, mu, closed, loc,
                        sweep, held, clock, outcome>>
  BY GoroutineTypes DEF Unmap, Goto

LEMMA ClearChunkEffect ==
  ASSUME TypeOK, LocalsInv, NEW g \in Goroutines, ClearChunk(g)
  PROVE  LET c == loc[g].cur
         IN /\ pc[g] = "clear" /\ c \in ChunkId /\ c <= loc[g].lim
            /\ \A d \in ChunkId :
                 IF d = c THEN cap'[d] = 0 /\ base'[d] = 0 /\ off'[d] = 0
                          ELSE cap'[d] = cap[d] /\ base'[d] = base[d] /\ off'[d] = off[d]
            /\ live' = {r \in live : r.chunk # c}
            /\ \/ /\ pc'[g] = "release" /\ c < loc[g].lim
                  /\ loc'[g].cur = c + 1 /\ loc'[g].lim = loc[g].lim
               \/ pc'[g] = "idle" /\ c = loc[g].lim
            /\ UNCHANGED <<taken, grown, mapped, curCap, active, mu, closed, sweep, held,
                           clock, outcome>>
<1> DEFINE c == loc[g].cur
<1>1. /\ pc[g] = "clear" /\ live' = {r \in live : r.chunk # c}
      /\ cap' = [cap EXCEPT ![c] = 0] /\ base' = [base EXCEPT ![c] = 0]
      /\ off' = [off EXCEPT ![c] = 0]
      /\ UNCHANGED <<taken, grown, mapped, curCap, active, mu, closed, sweep, held,
                     clock, outcome>>
  BY DEF ClearChunk
<1>2. 1 <= c /\ c <= loc[g].lim /\ loc[g].lim <= grown /\ c \in Nat /\ loc[g].lim \in Nat
  BY <1>1, GoroutineTypes, LocalFields DEF LocalsInv, LocalsInvAt
<1>3. c \in ChunkId
  BY <1>2, GoroutineTypes, HeapNumbers
<1>4. cap \in [ChunkId -> Nat] /\ off \in [ChunkId -> Nat] /\ base \in [ChunkId -> Nat]
  BY GoroutineTypes DEF HeapTypeOK
<1>5. \A d \in ChunkId :
        IF d = c THEN cap'[d] = 0 /\ base'[d] = 0 /\ off'[d] = 0
                 ELSE cap'[d] = cap[d] /\ base'[d] = base[d] /\ off'[d] = off[d]
  <2> HIDE DEF c
  <2> QED
    BY <1>1, <1>4
<1>6. \/ pc'[g] = "release" /\ c < loc[g].lim /\ loc'[g] = [loc[g] EXCEPT !.cur = c + 1]
      \/ pc'[g] = "idle" /\ ~(c < loc[g].lim)
  BY GoroutineTypes DEF ClearChunk, MoreToRelease, Return, Goto, SetLocals
<1>7. \/ /\ pc'[g] = "release" /\ c < loc[g].lim
         /\ loc'[g].cur = c + 1 /\ loc'[g].lim = loc[g].lim
      \/ pc'[g] = "idle" /\ c = loc[g].lim
  <2>1. ASSUME loc'[g] = [loc[g] EXCEPT !.cur = c + 1]
        PROVE  loc'[g].cur = c + 1 /\ loc'[g].lim = loc[g].lim
    <3> HIDE DEF c
    <3> QED
      BY <2>1, GoroutineTypes, UpdatedFields
  <2> QED
    BY <1>2, <1>6, <2>1
<1> HIDE DEF c
<1> QED
  BY <1>1, <1>2, <1>3, <1>5, <1>7 DEF c

----------------------------------------------------------------------------
(* The mutex *)

(***************************************************************************)
(* Inside a critical section, and outside any, a step changes the owner of *)
(* the mutex only if nobody else owns it.                                  *)
(***************************************************************************)
LEMMA OwnerStep ==
  ASSUME TypeOK, LocalsInv, MutexInv, NEW g \in Goroutines,
         AllocStep(g) \/ ReclaimStep(g) \/ SnapshotStep(g) \/ CloseStep(g)
  PROVE  /\ Critical(g)' => mu' = g
         /\ mu' = mu \/ mu = NoOne \/ mu = g
<1>0. Critical(g) => mu = g
  BY DEF MutexInv
<1> USE DEF Critical, Trying
<1>1. ASSUME NEW rq \in Requests, TryAlloc(g, rq) PROVE ~Critical(g)' /\ mu' = mu
  BY <1>1, TryAllocEffect
<1>2. ASSUME LoadOff(g) PROVE (Critical(g)' => mu' = g) /\ (mu' = mu \/ mu = g)
  BY <1>0, <1>2, LoadOffEffect
<1>3. ASSUME CompareAndSwap(g) PROVE (Critical(g)' => mu' = g) /\ mu' = mu
  BY <1>0, <1>3, CompareAndSwapEffect
<1>4. ASSUME SliceBuf(g) PROVE ~Critical(g)' /\ (mu' = mu \/ mu = g)
  BY <1>0, <1>4, SliceBufEffect
<1>5. ASSUME LockSlow(g) PROVE mu' = g /\ mu = NoOne
  BY <1>5, LockSlowEffect
<1>6. ASSUME ChooseSize(g) PROVE (Critical(g)' => mu' = g) /\ mu = g
  BY <1>0, <1>6, ChooseSizeEffect
<1>7. ASSUME GrowChunk(g) PROVE mu' = g /\ mu = g
  BY <1>0, <1>7, GrowChunkEffect
<1>8. ASSUME GrowFails(g) PROVE ~Critical(g)' /\ mu = g
  BY <1>0, <1>8, GrowFailsEffect
<1>9. ASSUME NEW plan, BeginSweep(g, plan) PROVE mu' = g /\ mu = NoOne
  BY <1>9, BeginSweepEffect
<1>10. ASSUME StoreOff(g) PROVE mu' = g /\ mu = g
  BY <1>0, <1>10, StoreOffEffect
<1>11. ASSUME StoreActive(g) PROVE ~Critical(g)' /\ mu = g
  BY <1>0, <1>11, StoreActiveEffect
<1>12. ASSUME NEW s \in Slots, Mark(g, s) PROVE ~Critical(g)' /\ mu' = mu
  BY <1>12 DEF Mark, MayUse
<1>13. ASSUME NEW s \in Slots, Savepoint(g, s) PROVE mu' = g /\ mu = NoOne
  BY <1>13, SavepointEffect
<1>14. ASSUME SaveOff(g) PROVE mu' = g /\ mu = g
  BY <1>0, <1>14, SaveOffEffect
<1>15. ASSUME SaveDone(g) PROVE ~Critical(g)' /\ mu = g
  BY <1>0, <1>15, SaveDoneEffect
<1>16. ASSUME Close(g) PROVE ~Critical(g)' /\ mu' = mu
  BY <1>16, CloseEffect
<1>17. ASSUME CloseTake(g) PROVE ~Critical(g)' /\ mu' = mu
  BY <1>17, CloseTakeEffect
<1>18. ASSUME Unmap(g) PROVE ~Critical(g)' /\ mu' = mu
  BY <1>18, UnmapEffect
<1>19. ASSUME ClearChunk(g) PROVE ~Critical(g)' /\ mu' = mu
  BY <1>19, ClearChunkEffect
<1>20. ASSUME AllocStep(g) PROVE (Critical(g)' => mu' = g) /\ (mu' = mu \/ mu = NoOne \/ mu = g)
  BY <1>20, <1>1, <1>2, <1>3, <1>4, <1>5, <1>6, <1>7, <1>8, Zenon DEF AllocStep
<1>21. ASSUME ReclaimStep(g) PROVE (Critical(g)' => mu' = g) /\ (mu' = mu \/ mu = NoOne \/ mu = g)
  BY <1>21, <1>9, <1>10, <1>11 DEF ReclaimStep, Reset, Rewind, Rollback
<1>22. ASSUME SnapshotStep(g) PROVE (Critical(g)' => mu' = g) /\ (mu' = mu \/ mu = NoOne \/ mu = g)
  BY <1>22, <1>12, <1>13, <1>14, <1>15, Zenon DEF SnapshotStep
<1>23. ASSUME CloseStep(g) PROVE (Critical(g)' => mu' = g) /\ (mu' = mu \/ mu = NoOne \/ mu = g)
  BY <1>23, <1>16, <1>17, <1>18, <1>19, Zenon DEF CloseStep
<1> QED
  BY <1>20, <1>21, <1>22, <1>23

LEMMA MutexInit == Init => MutexInv
  BY DEF Init, MutexInv, Critical, Trying

LEMMA MutexStep == TypeOK /\ LocalsInv /\ MutexInv /\ [Next]_vars => MutexInv'
<1> SUFFICES ASSUME TypeOK, LocalsInv, MutexInv, [Next]_vars PROVE MutexInv'
  OBVIOUS
<1>1. CASE UNCHANGED vars
  BY <1>1 DEF vars, MutexInv, Critical
<1>2. ASSUME NEW g \in Goroutines,
             AllocStep(g) \/ ReclaimStep(g) \/ SnapshotStep(g) \/ CloseStep(g)
      PROVE  MutexInv'
  <2>1. Elsewhere(g)
    BY <1>2, GoroutineTypes, OthersUntouched
  <2>2. (Critical(g)' => mu' = g) /\ (mu' = mu \/ mu = NoOne \/ mu = g)
    BY <1>2, OwnerStep
  <2>3. ASSUME NEW h \in Goroutines, h # g, Critical(h)' PROVE mu' = h
    <3>1. Critical(h)
      BY <2>1, <2>3 DEF Critical, Elsewhere
    <3>2. mu = h
      BY <3>1 DEF MutexInv
    <3> QED
      BY <2>2, <2>3, <3>2, ArenaAssumption
  <2> QED
    BY <2>2, <2>3 DEF MutexInv
<1> QED
  BY <1>1, <1>2 DEF Next

----------------------------------------------------------------------------
(* What one goroutine may change under the others *)

(***************************************************************************)
(* Chunks of the list keep their length, chunks that Close cleared lose    *)
(* it, and the list changes only while no other goroutine is in a critical *)
(* section.                                                                *)
(***************************************************************************)
Calm(g) ==
  /\ taken <= taken' /\ grown <= grown' /\ (closed = 1 => closed' = 1)
  /\ \A c \in 1..grown : c > taken' => cap'[c] = cap[c]
  /\ \A c \in 1..grown : cap'[c] = 0 \/ (cap'[c] = cap[c] /\ base'[c] = base[c])
  /\ \/ taken' = taken /\ grown' = grown /\ curCap' = curCap
     \/ \A h \in Goroutines : h # g => ~Critical(h)

LEMMA QuietHeap ==
  ASSUME TypeOK, NEW g \in Goroutines, UNCHANGED heap, closed = 1 => closed' = 1
  PROVE  Calm(g)
  BY GoroutineTypes, HeapNumbers DEF Calm, heap

LEMMA AloneInside ==
  ASSUME MutexInv, NEW g \in Goroutines, mu = g \/ mu = NoOne
  PROVE  \A h \in Goroutines : h # g => ~Critical(h)
  BY ArenaAssumption DEF MutexInv

LEMMA CalmStep ==
  ASSUME TypeOK, LocalsInv, MutexInv, ListInv, NEW g \in Goroutines,
         AllocStep(g) \/ ReclaimStep(g) \/ SnapshotStep(g) \/ CloseStep(g)
  PROVE  Calm(g)
<1>0. /\ taken \in Nat /\ grown \in Nat /\ taken <= grown /\ \A c \in 1..grown : c \in ChunkId
  BY GoroutineTypes, HeapNumbers
<1>1. ASSUME GrowChunk(g) PROVE Calm(g)
  <2>1. mu = g
    BY <1>1, GrowChunkEffect DEF MutexInv, Critical
  <2>2. /\ taken' = taken /\ grown' = grown + 1 /\ closed' = closed
        /\ \A c \in ChunkId : c # grown + 1 => cap'[c] = cap[c] /\ base'[c] = base[c]
    BY <1>1, GrowChunkEffect
  <2>3. \A c \in 1..grown : c # grown + 1
    BY <1>0
  <2> QED
    BY <1>0, <2>1, <2>2, <2>3, AloneInside DEF Calm
<1>2. ASSUME CloseTake(g) PROVE Calm(g)
  <2>1. /\ mu = NoOne /\ taken' = grown
        /\ grown' = grown /\ cap' = cap /\ base' = base /\ closed' = closed
    BY <1>2, CloseTakeEffect
  <2> QED
    BY <1>0, <2>1, AloneInside DEF Calm
<1>3. ASSUME ClearChunk(g) PROVE Calm(g)
  <2> DEFINE c == loc[g].cur
  <2>1. /\ pc[g] = "clear" /\ c \in ChunkId /\ c <= loc[g].lim
        /\ \A d \in ChunkId : IF d = c THEN cap'[d] = 0
                                       ELSE cap'[d] = cap[d] /\ base'[d] = base[d]
        /\ taken' = taken /\ grown' = grown /\ curCap' = curCap /\ closed' = closed
    BY <1>3, ClearChunkEffect
  <2>2. loc[g].lim <= taken /\ loc[g].lim \in Nat /\ c \in Nat
    BY <2>1, GoroutineTypes, LocalFields DEF ListInv, ListAt
  <2>3. ~(c > taken)
    BY <1>0, <2>1, <2>2
  <2> HIDE DEF c
  <2> QED
    BY <1>0, <2>1, <2>3 DEF Calm
<1>4. ASSUME AllocStep(g) PROVE Calm(g)
  <2>1. GrowChunk(g) \/ (UNCHANGED heap /\ closed' = closed)
    BY <1>4 DEF AllocStep, TryAlloc, LoadOff, CompareAndSwap, SliceBuf, LockSlow, ChooseSize, GrowFails
  <2> QED
    BY <1>1, <2>1, QuietHeap
<1>5. ASSUME ReclaimStep(g) \/ SnapshotStep(g) PROVE Calm(g)
  <2>1. UNCHANGED heap /\ closed' = closed
    BY <1>5 DEF ReclaimStep, Reset, Rewind, Rollback, BeginSweep, StoreOff, StoreActive, SnapshotStep,
       Mark, Savepoint, SaveOff, SaveDone
  <2> QED
    BY <2>1, QuietHeap
<1>6. ASSUME CloseStep(g) PROVE Calm(g)
  <2>1. ASSUME Close(g) PROVE Calm(g)
    BY <2>1, QuietHeap, CloseEffect
  <2>2. ASSUME Unmap(g) PROVE Calm(g)
    <3>1. taken' = taken /\ grown' = grown /\ curCap' = curCap /\ cap' = cap /\ base' = base /\ closed' = closed
      BY <2>2, UnmapEffect
    <3> QED
      BY <1>0, <3>1 DEF Calm
  <2> QED
    BY <1>2, <1>3, <1>6, <2>1, <2>2 DEF CloseStep
<1> QED
  BY <1>4, <1>5, <1>6

----------------------------------------------------------------------------
(* The list of chunks *)

(***************************************************************************)
(* A step of one goroutine keeps what the others know of the list.         *)
(***************************************************************************)
LEMMA ListOthers ==
  ASSUME TypeOK, TypeOK', LocalsInv, ListInv, NEW g \in Goroutines, Elsewhere(g), Calm(g)
  PROVE  \A h \in Goroutines : h # g => ListAt(h)'
<1> SUFFICES ASSUME NEW h \in Goroutines, h # g PROVE ListAt(h)'
  OBVIOUS
<1>1. /\ ListAt(h) /\ LocalsInvAt(h)
      /\ pc'[h] = pc[h] /\ loc'[h] = loc[h] /\ sweep'[h] = sweep[h]
  BY DEF ListInv, LocalsInv, Elsewhere
<1>0. taken' \in Nat
  BY DEF TypeOK, HeapTypeOK
<1>2. /\ taken \in Nat /\ grown \in Nat /\ taken' \in Nat /\ taken <= taken'
      /\ \A c \in 1..grown : c > taken' => cap'[c] = cap[c]
      /\ closed = 1 => closed' = 1
      /\ Critical(h) => taken' = taken /\ grown' = grown
  BY <1>0, GoroutineTypes, HeapNumbers DEF Calm
<1>3. loc[h].cur \in Nat /\ loc[h].lim \in Nat
  BY GoroutineTypes, LocalFields
<1>4. /\ pc[h] \in Trying /\ loc[h].ctx # "fast" => loc[h].cur > taken'
      /\ pc[h] \in {"release", "clear"} => loc[h].lim <= taken'
      /\ pc[h] \in {"take", "release", "clear"} => closed' = 1
  BY <1>1, <1>2, <1>3 DEF ListAt, Critical
<1>5. ASSUME pc[h] \in Trying, loc[h].cur > taken'
      PROVE  loc[h].cur > taken /\ cap'[loc[h].cur] = cap[loc[h].cur]
  BY <1>1, <1>2, <1>3, <1>5 DEF LocalsInvAt, Trying
<1>6. /\ pc[h] \in {"try", "cas"} /\ loc[h].cur > taken' => loc[h].lim <= cap'[loc[h].cur]
      /\ pc[h] = "slice" /\ loc[h].cur > taken' => loc[h].hi <= cap'[loc[h].cur]
  BY <1>1, <1>5 DEF ListAt, Trying
<1>7. ASSUME pc[h] = "sweep"
      PROVE  /\ Listed(sweep[h].active)'
             /\ Reopened' \/ \A c \in Chunks' : sweep[h].off[c] <= cap'[c]
  <2>1. taken' = taken /\ grown' = grown
    BY <1>2, <1>7 DEF Critical
  <2>2. \A c \in Chunks : cap'[c] = cap[c]
    BY <1>2, <2>1 DEF Chunks
  <2> QED
    BY <1>1, <1>7, <2>1, <2>2 DEF ListAt, Listed, Chunks, Reopened
<1> QED
  BY <1>1, <1>4, <1>6, <1>7 DEF ListAt, Listed

(***************************************************************************)
(* A step that touches neither the heap nor savepoints keeps what is said  *)
(* of them.                                                                *)
(***************************************************************************)
ListGlobal ==
  Listed(active) /\ UsedWithinCapacity /\ SavedInv /\ (taken > 0 => closed = 1)

LEMMA ListQuiet ==
  ASSUME ListInv, UNCHANGED <<heap, off, active, closed, sps>>
  PROVE  ListGlobal'
<1>1. /\ taken' = taken /\ grown' = grown /\ cap' = cap /\ off' = off /\ active' = active
      /\ closed' = closed /\ sps' = sps
  BY DEF heap
<1> QED
  BY <1>1 DEF ListInv, ListGlobal, Listed, UsedWithinCapacity, SavedInv, Chunks, Reopened

(***************************************************************************)
(* What a goroutine that has just taken the active chunk knows.            *)
(***************************************************************************)
LEMMA TakesActive ==
  ASSUME TypeOK, ListInv, active # Nil, NEW g \in Goroutines, UNCHANGED heap,
         pc'[g] = "try", loc'[g].cur = active, loc'[g].lim = cap[active]
  PROVE  ListAt(g)'
<1>1. active > taken /\ active \in ChunkId
  BY GoroutineTypes, ActiveChunk, HeapNumbers DEF ListInv, Listed, Chunks
<1>2. taken' = taken /\ cap' = cap /\ cap[active] \in Nat
  BY <1>1, GoroutineTypes, ChunkFields DEF heap
<1> QED
  BY <1>1, <1>2 DEF ListAt

LEMMA ListAlloc ==
  ASSUME TypeOK, TypeOK', LocalsInv, MutexInv, ListInv, NEW g \in Goroutines, AllocStep(g)
  PROVE  ListGlobal' /\ ListAt(g)'
<1>0. /\ taken \in Nat /\ grown \in Nat /\ taken <= grown /\ 1 <= grown
      /\ \A c \in 1..grown : c \in ChunkId /\ cap[c] \in Nat /\ off[c] \in Nat
  BY GoroutineTypes, HeapNumbers, ChunkFields
<1>b. /\ Listed(active) /\ UsedWithinCapacity /\ SavedInv /\ (taken > 0 => closed = 1)
      /\ ListAt(g)
  BY DEF ListInv
<1>c. loc[g].cur \in Nat /\ loc[g].lim \in Nat /\ loc[g].hi \in Nat /\ loc[g].size \in Nat
  BY GoroutineTypes, LocalFields
<1>1. ASSUME NEW rq \in Requests, TryAlloc(g, rq) PROVE ListGlobal' /\ ListAt(g)'
  <2>1. ListGlobal'
    BY <1>1, TryAllocEffect, ListQuiet DEF held
  <2>2. CASE pc'[g] = "lock"
    BY <2>1, <2>2 DEF ListAt, Trying
  <2>3. CASE pc'[g] # "lock"
    BY <1>1, <2>1, <2>3, TryAllocEffect, TakesActive
  <2> QED
    BY <2>2, <2>3
<1>2. ASSUME LoadOff(g) PROVE ListGlobal' /\ ListAt(g)'
  <2>1. UNCHANGED <<heap, off, active, closed, sweep, held>> /\ pc[g] = "try" /\ loc[g].cur \in 1..grown
    BY <1>2, LoadOffEffect
  <2>2. ListGlobal' /\ taken' = taken /\ cap' = cap
    BY <2>1, ListQuiet DEF held, heap
  <2>3. CASE /\ pc'[g] = "cas"
             /\ loc'[g].cur = loc[g].cur /\ loc'[g].lim = loc[g].lim
             /\ loc'[g].ctx = loc[g].ctx /\ loc'[g].hi <= loc[g].lim
    BY <1>b, <2>1, <2>2, <2>3 DEF ListAt, Trying
  <2>4. CASE /\ pc'[g] = "try" /\ loc[g].ctx \in {"retry", "scan"} /\ loc[g].cur < grown
             /\ loc'[g].cur = loc[g].cur + 1 /\ loc'[g].lim = cap[loc[g].cur + 1]
    <3>1. loc[g].cur > taken
      BY <1>b, <2>1, <2>4 DEF ListAt, Trying
    <3>2. loc[g].cur + 1 > taken /\ cap[loc[g].cur + 1] \in Nat
      BY <1>0, <1>c, <2>4, <3>1
    <3> QED
      BY <2>2, <2>4, <3>2 DEF ListAt, Trying
  <2>5. CASE pc'[g] \in {"lock", "size", "idle"}
    BY <2>2, <2>5 DEF ListAt, Trying
  <2> QED
    BY <1>2, <2>3, <2>4, <2>5, LoadOffEffect
<1>3. ASSUME CompareAndSwap(g) PROVE ListGlobal' /\ ListAt(g)'
  <2>1. /\ pc[g] = "cas" /\ loc'[g] = loc[g] /\ loc[g].cur \in 1..grown
        /\ UNCHANGED <<heap, active, closed, sps>>
    BY <1>3, CompareAndSwapEffect DEF held
  <2>2. taken' = taken /\ grown' = grown /\ cap' = cap /\ closed' = closed /\ sps' = sps /\ active' = active
    BY <2>1 DEF heap
  <2>3. loc[g].cur > taken => loc[g].hi <= cap[loc[g].cur] /\ loc[g].lim <= cap[loc[g].cur]
    BY <1>0, <1>b, <1>c, <2>1 DEF ListAt
  <2>4. pc'[g] \in {"slice", "try"}
    BY <1>3, CompareAndSwapEffect
  <2>5. ListAt(g)'
    BY <1>b, <2>1, <2>2, <2>3, <2>4 DEF ListAt, Trying
  <2>6. Chunks' = Chunks /\ \A c \in Chunks : c \in 1..grown /\ c > taken
    BY <1>0, <2>2 DEF Chunks
  <2>7. \A c \in ChunkId : off'[c] = off[c] \/ (c = loc[g].cur /\ off'[c] = loc[g].hi)
    BY <1>3, CompareAndSwapEffect
  <2>8. UsedWithinCapacity'
    BY <1>0, <1>b, <2>2, <2>3, <2>6, <2>7 DEF UsedWithinCapacity, Reopened
  <2> QED
    BY <1>b, <2>2, <2>5, <2>6, <2>8 DEF ListGlobal, Listed, SavedInv
<1>4. ASSUME SliceBuf(g) PROVE ListGlobal' /\ ListAt(g)'
  <2>1. /\ pc[g] = "slice" /\ pc'[g] = "idle" /\ loc[g].cur \in 1..grown
        /\ UNCHANGED <<heap, off, closed, sps>>
        /\ active' = active \/ (active' = loc[g].cur /\ loc[g].ctx = "scan")
    BY <1>4, SliceBufEffect DEF held
  <2>2. taken' = taken /\ grown' = grown /\ cap' = cap /\ off' = off /\ closed' = closed /\ sps' = sps
    BY <2>1 DEF heap
  <2>3. loc[g].ctx = "scan" => loc[g].cur > taken
    BY <1>b, <2>1 DEF ListAt, Trying
  <2>4. loc[g].ctx = "scan" => loc[g].cur \in Chunks /\ loc[g].cur # Nil
    BY <1>0, <2>1, <2>3 DEF Chunks, Nil
  <2>5. Listed(active)' /\ Chunks' = Chunks
    BY <1>b, <2>1, <2>2, <2>4 DEF Listed, Chunks
  <2>6. ListAt(g)'
    BY <2>1 DEF ListAt, Trying
  <2> QED
    BY <1>b, <2>2, <2>5, <2>6 DEF ListGlobal, UsedWithinCapacity, SavedInv, Reopened
<1>5. ASSUME LockSlow(g) PROVE ListGlobal' /\ ListAt(g)'
  <2>1. ListGlobal'
    BY <1>5, LockSlowEffect, ListQuiet DEF held
  <2>2. CASE pc'[g] = "size"
    BY <2>1, <2>2 DEF ListAt, Trying
  <2>3. CASE pc'[g] # "size"
    BY <1>5, <2>1, <2>3, LockSlowEffect, TakesActive
  <2> QED
    BY <2>2, <2>3
<1>6. ASSUME ChooseSize(g) \/ GrowFails(g) PROVE ListGlobal' /\ ListAt(g)'
  <2>1. UNCHANGED <<heap, off, active, closed, sps>> /\ pc'[g] \in {"idle", "map"}
    BY <1>6, ChooseSizeEffect, GrowFailsEffect DEF held
  <2> QED
    BY <2>1, ListQuiet DEF ListAt, Trying
<1>7. ASSUME GrowChunk(g) PROVE ListGlobal' /\ ListAt(g)'
  <2> DEFINE c == grown + 1
  <2>1. /\ pc'[g] = "try" /\ grown' = c /\ c \in ChunkId /\ active' = c
        /\ \A d \in ChunkId : d # c => cap'[d] = cap[d] /\ off'[d] = off[d]
        /\ cap'[c] = loc[g].size /\ off'[c] = 0
        /\ loc'[g].cur = c /\ loc'[g].lim = loc[g].size
        /\ taken' = taken /\ closed' = closed /\ sps' = sps
    BY <1>7, GrowChunkEffect DEF held
  <2>2. c > taken /\ c \in Chunks' /\ c # Nil /\ c \in Nat
    BY <1>0, <2>1 DEF Chunks, Nil
  <2>3. \A d \in Chunks' : d = c \/ (d \in Chunks /\ d \in 1..grown)
    BY <1>0, <2>1 DEF Chunks
  <2>4. \A d \in 1..grown : d # c /\ d \in ChunkId
    BY <1>0
  <2>5. ListAt(g)'
    BY <1>c, <2>1, <2>2 DEF ListAt, Trying
  <2>6. UsedWithinCapacity'
    BY <1>b, <1>c, <2>1, <2>3, <2>4 DEF UsedWithinCapacity, Reopened
  <2>7. SavedInv'
    <3> SUFFICES ASSUME taken = 0, NEW s \in Slots, NEW i \in ChunkId
                 PROVE  sps[s].off[i] = 0 \/ (i <= grown + 1 /\ sps[s].off[i] <= cap'[i])
      BY <2>1 DEF SavedInv
    <3>1. sps[s].off[i] = 0 \/ (i <= grown /\ sps[s].off[i] <= cap[i])
      BY <1>b DEF SavedInv
    <3>2. i <= grown => i \in 1..grown /\ cap'[i] = cap[i]
      BY <1>0, <2>1, <2>4 DEF ChunkId
    <3>3. i \in Nat
      BY DEF ChunkId
    <3> QED
      BY <1>0, <3>1, <3>2, <3>3
  <2>8. Listed(active)'
    BY <2>1, <2>2 DEF Listed
  <2> QED
    BY <1>b, <2>1, <2>5, <2>6, <2>7, <2>8 DEF ListGlobal
<1> QED
  BY <1>1, <1>2, <1>3, <1>4, <1>5, <1>6, <1>7 DEF AllocStep

(***************************************************************************)
(* The plans of Reset, Rewind and Rollback, once the mutex is theirs: the  *)
(* last pointer they store is to a chunk of the list, the offsets are      *)
(* within the chunks.                                                      *)
(***************************************************************************)
LEMMA NonEmptyList == HeapTypeOK => (NumChunks > 0 <=> Chunks # {})
<1> SUFFICES ASSUME HeapTypeOK PROVE NumChunks > 0 <=> Chunks # {}
  OBVIOUS
<1>1. taken \in Nat /\ grown \in Nat
  BY HeapNumbers
<1>2. CASE NumChunks > 0
  <2>1. taken + 1 \in Chunks
    BY <1>1, <1>2 DEF Chunks, NumChunks
  <2> QED
    BY <1>2, <2>1
<1>3. CASE ~(NumChunks > 0)
  BY <1>1, <1>3 DEF Chunks, NumChunks
<1> QED
  BY <1>2, <1>3

LEMMA ResetPlan ==
  ASSUME TypeOK, ListInv, NEW g \in Goroutines, Reset(g)
  PROVE  /\ \E plan : BeginSweep(g, plan)
         /\ sweep'[g].todo = InOrder
         /\ sweep'[g].off = Zeroes /\ sweep'[g].stamp = Zeroes /\ sweep'[g].since = 0
         /\ Listed(sweep'[g].active)
         /\ NumChunks > 0 => sweep'[g].active = taken + 1
<1> DEFINE k    == IF NumChunks > 0 THEN taken + 1 ELSE active
           plan == [NoSweep EXCEPT !.todo = InOrder, !.active = k]
<1>1. BeginSweep(g, plan)
  BY DEF Reset
<1> HIDE DEF k
<1>2. /\ plan.todo = InOrder /\ plan.off = Zeroes /\ plan.stamp = Zeroes /\ plan.since = 0
      /\ plan.active = k
  BY DEF NoSweep
<1> HIDE DEF plan
<1>3. Listed(k)
  <2>1. taken \in Nat /\ grown \in Nat /\ Listed(active)
    BY GoroutineTypes, HeapNumbers DEF ListInv
  <2>2. CASE NumChunks > 0
    <3>1. taken + 1 \in Chunks /\ taken + 1 # Nil
      BY <2>1, <2>2 DEF Chunks, NumChunks, Nil
    <3> QED
      BY <2>2, <3>1 DEF Listed, k
  <2>3. CASE ~(NumChunks > 0)
    BY <2>1, <2>3 DEF k
  <2> QED
    BY <2>2, <2>3
<1>4. sweep'[g] = plan
  BY <1>1, BeginSweepEffect
<1> QED
  BY <1>1, <1>2, <1>3, <1>4 DEF k

LEMMA RewindPlan ==
  ASSUME TypeOK, ListInv, NEW g \in Goroutines, NEW s \in Slots, Rewind(g, s)
  PROVE  LET target == taken + marks[s].idx
         IN /\ \E plan : BeginSweep(g, plan)
            /\ sweep'[g].todo = Append([i \in 1..(grown - target) |-> target + i], target)
            /\ target \in Chunks /\ target \in ChunkId /\ target <= active
            /\ marks[s].off <= cap[target]
            /\ \A c \in ChunkId :
                 /\ sweep'[g].off[c] = IF c = target THEN marks[s].off ELSE 0
                 /\ sweep'[g].stamp[c] = IF c = target THEN marks[s].stamp ELSE 0
            /\ sweep'[g].since = marks[s].stamp
            /\ sweep'[g].active = target
<1> DEFINE target == taken + marks[s].idx
           order  == Append([i \in 1..(grown - target) |-> target + i], target)
           offs   == [Zeroes EXCEPT ![target] = marks[s].off]
           stamps == [Zeroes EXCEPT ![target] = marks[s].stamp]
           plan   == [todo |-> order, off |-> offs, stamp |-> stamps,
                      since |-> marks[s].stamp, active |-> target]
<1>1. BeginSweep(g, plan) /\ RewindAllowed(marks[s])
  BY DEF Rewind
<1>2. marks[s].idx \in Nat \ {0}
  BY DEF TypeOK, HeldTypeOK
<1>3. /\ marks[s].idx <= NumChunks /\ marks[s].off <= cap[target] /\ target <= active
  BY <1>1 DEF RewindAllowed
<1>4. taken \in Nat /\ grown \in Nat /\ \A c \in 1..grown : c \in ChunkId
  BY GoroutineTypes, HeapNumbers
<1>5. target \in Chunks /\ target \in 1..grown
  BY <1>2, <1>3, <1>4 DEF Chunks, NumChunks
<1>6. sweep'[g] = plan
  BY <1>1, BeginSweepEffect
<1> HIDE DEF target, order, offs, stamps
<1>7. /\ sweep'[g].todo = order /\ sweep'[g].off = offs /\ sweep'[g].stamp = stamps
      /\ sweep'[g].since = marks[s].stamp /\ sweep'[g].active = target
  BY <1>6
<1> HIDE DEF plan
<1>8. \A c \in ChunkId :
        /\ sweep'[g].off[c] = IF c = target THEN marks[s].off ELSE 0
        /\ sweep'[g].stamp[c] = IF c = target THEN marks[s].stamp ELSE 0
  BY <1>7 DEF Zeroes, offs, stamps
<1> QED
  BY <1>1, <1>3, <1>4, <1>5, <1>7, <1>8 DEF target, order

LEMMA RollbackPlan ==
  ASSUME TypeOK, ListInv, NEW g \in Goroutines, NEW s \in Slots, Rollback(g, s)
  PROVE  /\ \E plan : BeginSweep(g, plan)
         /\ sps[s].state = "valid" /\ sps[s].n <= NumChunks /\ sps[s].n \in Nat
         /\ sweep'[g].todo = InOrder
         /\ \A c \in ChunkId :
              /\ c - taken \in 1..sps[s].n => c - taken \in ChunkId
              /\ sweep'[g].off[c] = IF c - taken \in 1..sps[s].n THEN sps[s].off[c - taken] ELSE 0
              /\ sweep'[g].stamp[c] = IF c - taken \in 1..sps[s].n THEN sps[s].stamp[c - taken] ELSE 0
         /\ sweep'[g].since = sps[s].since
         /\ sweep'[g].active = IF sps[s].active <= NumChunks THEN taken + sps[s].active ELSE active
         /\ Listed(sweep'[g].active)
<1> DEFINE k    == IF sps[s].active <= NumChunks THEN taken + sps[s].active ELSE active
           plan == [todo   |-> InOrder,
                    off    |-> Saved(sps[s], sps[s].off),
                    stamp  |-> Saved(sps[s], sps[s].stamp),
                    since  |-> sps[s].since,
                    active |-> k]
<1>1. BeginSweep(g, plan) /\ sps[s].state = "valid" /\ sps[s].n <= NumChunks
  BY DEF Rollback
<1>2. sps[s].n \in Nat /\ sps[s].active \in Nat \ {0}
  BY DEF TypeOK, HeldTypeOK, Savepoints
<1>3. taken \in Nat /\ grown \in Nat /\ grown <= MaxChunks /\ MaxChunks \in Nat /\ Listed(active)
  BY GoroutineTypes, HeapNumbers DEF ListInv
<1>4. sweep'[g] = plan
  BY <1>1, BeginSweepEffect
<1> HIDE DEF k
<1>5. /\ sweep'[g].todo = InOrder
      /\ sweep'[g].off = Saved(sps[s], sps[s].off) /\ sweep'[g].stamp = Saved(sps[s], sps[s].stamp)
      /\ sweep'[g].since = sps[s].since /\ sweep'[g].active = k
  BY <1>4
<1> HIDE DEF plan
<1>6. \A c \in ChunkId :
        /\ sweep'[g].off[c] = IF c - taken \in 1..sps[s].n THEN sps[s].off[c - taken] ELSE 0
        /\ sweep'[g].stamp[c] = IF c - taken \in 1..sps[s].n THEN sps[s].stamp[c - taken] ELSE 0
  BY <1>5 DEF Saved
<1>7. \A c \in ChunkId : c - taken \in 1..sps[s].n => c - taken \in ChunkId
  BY <1>1, <1>2, <1>3 DEF ChunkId, NumChunks
<1>8. Listed(k)
  <2>1. CASE sps[s].active <= NumChunks
    <3>1. k \in Chunks /\ k # Nil
      BY <1>2, <1>3, <2>1 DEF k, Chunks, NumChunks, Nil
    <3> QED
      BY <3>1 DEF Listed
  <2>2. CASE ~(sps[s].active <= NumChunks)
    BY <1>3, <2>2 DEF k
  <2> QED
    BY <2>1, <2>2
<1> QED
  BY <1>1, <1>2, <1>5, <1>6, <1>7, <1>8 DEF k

LEMMA ListReclaim ==
  ASSUME TypeOK, TypeOK', LocalsInv, MutexInv, ListInv, NEW g \in Goroutines, ReclaimStep(g)
  PROVE  ListGlobal' /\ ListAt(g)'
<1>0. /\ taken \in Nat /\ grown \in Nat
      /\ \A c \in 1..grown : c \in ChunkId /\ cap[c] \in Nat /\ off[c] \in Nat
  BY GoroutineTypes, HeapNumbers, ChunkFields
<1>a. \A c \in Chunks : c \in 1..grown /\ c > taken
  BY <1>0 DEF Chunks
<1>b. /\ Listed(active) /\ UsedWithinCapacity /\ SavedInv /\ (taken > 0 => closed = 1)
      /\ ListAt(g)
  BY DEF ListInv
<1>1. ASSUME NEW plan, BeginSweep(g, plan), Listed(sweep'[g].active),
             Reopened \/ \A c \in Chunks : sweep'[g].off[c] <= cap[c]
      PROVE  ListGlobal' /\ ListAt(g)'
  <2>1. pc'[g] = "sweep" /\ UNCHANGED <<heap, off, active, closed, sps>>
    BY <1>1, BeginSweepEffect DEF held
  <2>2. ListGlobal' /\ taken' = taken /\ grown' = grown /\ cap' = cap
    BY <2>1, ListQuiet DEF heap
  <2> QED
    BY <1>1, <2>1, <2>2 DEF ListAt, Listed, Chunks, Reopened, Trying
<1>2. ASSUME Reset(g) PROVE ListGlobal' /\ ListAt(g)'
  <2>1. \A c \in Chunks : sweep'[g].off[c] <= cap[c]
    BY <1>0, <1>2, <1>a, ResetPlan DEF Zeroes
  <2> QED
    BY <1>1, <1>2, <2>1, ResetPlan
<1>3. ASSUME NEW s \in Slots, Rewind(g, s) PROVE ListGlobal' /\ ListAt(g)'
  <2> DEFINE target == taken + marks[s].idx
  <2>1. /\ \E plan : BeginSweep(g, plan)
        /\ target \in Chunks /\ marks[s].off <= cap[target] /\ sweep'[g].active = target
        /\ \A c \in ChunkId : sweep'[g].off[c] = IF c = target THEN marks[s].off ELSE 0
    BY <1>3, RewindPlan
  <2>2. target # Nil
    BY <1>0, <1>a, <2>1 DEF Nil
  <2>3. Listed(sweep'[g].active)
    BY <2>1, <2>2 DEF Listed
  <2>4. \A c \in Chunks : sweep'[g].off[c] <= cap[c]
    BY <1>0, <1>a, <2>1
  <2> QED
    BY <1>1, <2>1, <2>3, <2>4
<1>4. ASSUME NEW s \in Slots, Rollback(g, s) PROVE ListGlobal' /\ ListAt(g)'
  <2>1. Reopened \/ \A c \in Chunks : sweep'[g].off[c] <= cap[c]
    <3>1. CASE taken > 0
      BY <1>4, <1>b, <3>1, RollbackPlan, BeginSweepEffect DEF Reopened
    <3>2. CASE taken = 0
      <4> SUFFICES ASSUME NEW c \in Chunks PROVE sweep'[g].off[c] <= cap[c]
        OBVIOUS
      <4>1. c \in ChunkId /\ cap[c] \in Nat /\ c \in Nat /\ c - taken = c
        BY <1>0, <1>a, <3>2
      <4>2. sweep'[g].off[c] = IF c \in 1..sps[s].n THEN sps[s].off[c] ELSE 0
        BY <1>4, <4>1, RollbackPlan
      <4>3. sps[s].off[c] = 0 \/ sps[s].off[c] <= cap[c]
        BY <1>b, <3>2, <4>1 DEF SavedInv
      <4> QED
        BY <4>1, <4>2, <4>3
    <3> QED
      BY <1>0, <3>1, <3>2
  <2> QED
    BY <1>1, <1>4, <2>1, RollbackPlan
<1>5. ASSUME StoreOff(g) PROVE ListGlobal' /\ ListAt(g)'
  <2> DEFINE c == Head(sweep[g].todo)
  <2>1. /\ pc[g] = "sweep" /\ pc'[g] = "sweep" /\ c \in ChunkId
        /\ \A d \in ChunkId : off'[d] = IF d = c THEN sweep[g].off[c] ELSE off[d]
        /\ sweep'[g].off = sweep[g].off /\ sweep'[g].active = sweep[g].active
        /\ taken' = taken /\ grown' = grown /\ cap' = cap /\ active' = active
        /\ closed' = closed /\ sps' = sps
    BY <1>5, StoreOffEffect DEF heap, held
  <2> HIDE DEF c
  <2>2. Chunks' = Chunks
    BY <2>1 DEF Chunks
  <2>3. UsedWithinCapacity'
    BY <1>0, <1>a, <1>b, <2>1, <2>2 DEF UsedWithinCapacity, ListAt, Reopened
  <2>4. ListAt(g)'
    BY <1>b, <2>1, <2>2 DEF ListAt, Listed, Reopened, Trying
  <2> QED
    BY <1>b, <2>1, <2>2, <2>3, <2>4 DEF ListGlobal, Listed, SavedInv
<1>6. ASSUME StoreActive(g) PROVE ListGlobal' /\ ListAt(g)'
  <2>1. /\ pc[g] = "sweep" /\ pc'[g] = "idle" /\ active' = sweep[g].active
        /\ taken' = taken /\ grown' = grown /\ cap' = cap /\ off' = off
        /\ closed' = closed /\ sps' = sps
    BY <1>6, StoreActiveEffect DEF heap, held
  <2>2. Chunks' = Chunks /\ Listed(sweep[g].active)
    BY <1>b, <2>1 DEF Chunks, ListAt
  <2> QED
    BY <1>b, <2>1, <2>2 DEF ListGlobal, Listed, UsedWithinCapacity, SavedInv, Reopened, ListAt, Trying
<1> QED
  BY <1>2, <1>3, <1>4, <1>5, <1>6 DEF ReclaimStep

LEMMA ListSnapshot ==
  ASSUME TypeOK, TypeOK', LocalsInv, MutexInv, ListInv, NEW g \in Goroutines, SnapshotStep(g)
  PROVE  ListGlobal' /\ ListAt(g)'
<1>0. /\ taken \in Nat /\ grown \in Nat
      /\ \A c \in 1..grown : c \in ChunkId /\ cap[c] \in Nat /\ off[c] \in Nat
  BY GoroutineTypes, HeapNumbers, ChunkFields
<1>b. /\ Listed(active) /\ UsedWithinCapacity /\ SavedInv /\ (taken > 0 => closed = 1)
  BY DEF ListInv
<1>1. ASSUME UNCHANGED <<heap, off, active, closed>>, SavedInv', pc'[g] \in {"idle", "save"}
      PROVE  ListGlobal' /\ ListAt(g)'
  <2>1. /\ taken' = taken /\ grown' = grown /\ cap' = cap /\ off' = off /\ active' = active
        /\ closed' = closed
    BY <1>1 DEF heap
  <2>2. ListGlobal'
    BY <1>1, <1>b, <2>1 DEF ListGlobal, Listed, UsedWithinCapacity, Chunks, Reopened
  <2> QED
    BY <1>1, <2>2 DEF ListAt, Trying
<1>2. ASSUME NEW s \in Slots, Mark(g, s) PROVE ListGlobal' /\ ListAt(g)'
  <2>1. UNCHANGED <<heap, off, active, closed>> /\ sps' = sps /\ pc'[g] = "idle"
    BY <1>2 DEF Mark, MayUse
  <2>2. SavedInv'
    BY <1>b, <2>1 DEF SavedInv, heap
  <2> QED
    BY <1>1, <2>1, <2>2
<1>3. ASSUME NEW s \in Slots, Savepoint(g, s) PROVE ListGlobal' /\ ListAt(g)'
  <2>1. /\ UNCHANGED <<heap, off, active, closed>> /\ pc'[g] = "save"
        /\ \A t \in Slots : t # s => sps'[t] = sps[t]
        /\ sps'[s].off = Zeroes
    BY <1>3, SavepointEffect
  <2>2. SavedInv'
    BY <1>b, <2>1 DEF SavedInv, heap, Zeroes
  <2> QED
    BY <1>1, <2>1, <2>2
<1>4. ASSUME SaveOff(g) PROVE ListGlobal' /\ ListAt(g)'
  <2> DEFINE i == loc[g].cur
             s == loc[g].slot
  <2>1. /\ UNCHANGED <<heap, off, active, closed>> /\ pc'[g] = "save" /\ s \in Slots
        /\ i \in ChunkId /\ i <= NumChunks
        /\ \A j \in ChunkId : sps'[s].off[j] = IF j = i THEN off[taken + i] ELSE sps[s].off[j]
        /\ \A t \in Slots : t # s => sps'[t] = sps[t]
    BY <1>4, SaveOffEffect
  <2> HIDE DEF i, s
  <2>2. SavedInv'
    <3> SUFFICES ASSUME taken = 0, NEW t \in Slots, NEW j \in ChunkId
                 PROVE  sps'[t].off[j] = 0 \/ (j <= grown /\ sps'[t].off[j] <= cap[j])
      BY <2>1 DEF SavedInv, heap
    <3>1. sps[t].off[j] = 0 \/ (j <= grown /\ sps[t].off[j] <= cap[j])
      BY <1>b DEF SavedInv
    <3>2. taken + i = i /\ i <= grown /\ i \in Chunks
      BY <1>0, <2>1 DEF NumChunks, ChunkId, Chunks
    <3>3. off[i] <= cap[i]
      BY <1>b, <3>2 DEF UsedWithinCapacity, Reopened
    <3> QED
      BY <2>1, <3>1, <3>2, <3>3
  <2> QED
    BY <1>1, <2>1, <2>2
<1>5. ASSUME SaveDone(g) PROVE ListGlobal' /\ ListAt(g)'
  <2>1. /\ UNCHANGED <<heap, off, active, closed>> /\ pc'[g] = "idle"
        /\ \A t \in Slots : sps'[t].off = sps[t].off
    BY <1>5, SaveDoneEffect
  <2>2. SavedInv'
    BY <1>b, <2>1 DEF SavedInv, heap
  <2> QED
    BY <1>1, <2>1, <2>2
<1> QED
  BY <1>2, <1>3, <1>4, <1>5 DEF SnapshotStep

LEMMA ListClose ==
  ASSUME TypeOK, TypeOK', LocalsInv, MutexInv, ListInv, NEW g \in Goroutines, CloseStep(g)
  PROVE  ListGlobal' /\ ListAt(g)'
<1>0. /\ taken \in Nat /\ grown \in Nat /\ 1 <= grown
      /\ \A c \in 1..grown : c \in ChunkId /\ cap[c] \in Nat /\ off[c] \in Nat
  BY GoroutineTypes, HeapNumbers, ChunkFields
<1>b. /\ Listed(active) /\ UsedWithinCapacity /\ SavedInv /\ (taken > 0 => closed = 1)
      /\ ListAt(g)
  BY DEF ListInv
<1>1. ASSUME Close(g) PROVE ListGlobal' /\ ListAt(g)'
  <2>1. /\ taken' = taken /\ grown' = grown /\ cap' = cap /\ off' = off /\ active' = active
        /\ sps' = sps /\ closed' = 1 /\ pc'[g] \in {"idle", "take"}
    BY <1>1, CloseEffect DEF heap, held
  <2>2. ListGlobal'
    BY <1>b, <2>1 DEF ListGlobal, Listed, UsedWithinCapacity, SavedInv, Chunks, Reopened
  <2> QED
    BY <2>1, <2>2 DEF ListAt, Trying
<1>2. ASSUME CloseTake(g) PROVE ListGlobal' /\ ListAt(g)'
  <2>1. /\ pc[g] = "take" /\ taken' = grown /\ active' = Nil /\ grown' = grown /\ closed' = closed
        /\ pc'[g] = "idle" \/ (pc'[g] = "release" /\ loc'[g].lim = grown)
    BY <1>2, CloseTakeEffect
  <2>2. Chunks' = {}
    BY <1>0, <2>1 DEF Chunks
  <2>3. closed = 1 /\ taken' # 0
    BY <1>0, <1>b, <2>1 DEF ListAt
  <2>4. ListGlobal'
    BY <2>1, <2>2, <2>3 DEF ListGlobal, Listed, UsedWithinCapacity, SavedInv
  <2>5. ListAt(g)'
    BY <1>0, <2>1, <2>3 DEF ListAt, Trying
  <2> QED
    BY <2>4, <2>5
<1>3. ASSUME Unmap(g) PROVE ListGlobal' /\ ListAt(g)'
  <2>1. /\ pc[g] = "release" /\ pc'[g] = "clear" /\ loc'[g] = loc[g]
        /\ taken' = taken /\ grown' = grown /\ cap' = cap /\ off' = off /\ active' = active
        /\ sps' = sps /\ closed' = closed
    BY <1>3, UnmapEffect DEF held
  <2>2. ListGlobal'
    BY <1>b, <2>1 DEF ListGlobal, Listed, UsedWithinCapacity, SavedInv, Chunks, Reopened
  <2> QED
    BY <1>b, <2>1, <2>2 DEF ListAt, Trying
<1>4. ASSUME ClearChunk(g) PROVE ListGlobal' /\ ListAt(g)'
  <2> DEFINE c == loc[g].cur
  <2>1. /\ pc[g] = "clear" /\ c \in ChunkId /\ c <= loc[g].lim
        /\ \A d \in ChunkId : d # c => cap'[d] = cap[d] /\ off'[d] = off[d]
        /\ \/ pc'[g] = "release" /\ loc'[g].lim = loc[g].lim
           \/ pc'[g] = "idle"
        /\ taken' = taken /\ grown' = grown /\ active' = active /\ closed' = closed /\ sps' = sps
    BY <1>4, ClearChunkEffect DEF held
  <2>2. loc[g].lim <= taken /\ closed = 1
    BY <1>b, <2>1 DEF ListAt
  <2>3. c \in Nat /\ loc[g].lim \in Nat /\ 1 <= c
    BY <2>1, GoroutineTypes, LocalFields, ChunkFields
  <2> HIDE DEF c
  <2>4. taken # 0 /\ Chunks' = Chunks /\ \A d \in Chunks : d # c /\ d \in ChunkId
    BY <1>0, <2>1, <2>2, <2>3 DEF Chunks
  <2>5. UsedWithinCapacity'
    BY <1>b, <2>1, <2>4 DEF UsedWithinCapacity, Reopened
  <2>6. ListGlobal'
    BY <1>b, <2>1, <2>4, <2>5 DEF ListGlobal, Listed, SavedInv
  <2> QED
    BY <2>1, <2>2, <2>6 DEF ListAt, Trying
<1> QED
  BY <1>1, <1>2, <1>3, <1>4 DEF CloseStep

LEMMA ListInit == Init => ListInv
<1> SUFFICES ASSUME Init PROVE ListInv
  OBVIOUS
<1>1. Chunks = {1} /\ taken = 0 /\ active = 1 /\ \A c \in Chunks : c \in ChunkId /\ off[c] = 0
  BY ConstantTypes DEF Init, Chunks, Zeroes
<1>2. cap[1] = ChunkSize /\ ChunkSize \in Nat
  BY ArenaAssumption, ConstantTypes DEF Init, Zeroes
<1>3. Listed(active) /\ UsedWithinCapacity
  BY <1>1, <1>2 DEF Listed, UsedWithinCapacity, Nil
<1>4. SavedInv
  BY DEF Init, SavedInv, NilSavepoint, Zeroes
<1>5. \A g \in Goroutines : ListAt(g)
  BY DEF Init, ListAt, Trying
<1> QED
  BY <1>1, <1>3, <1>4, <1>5 DEF ListInv

LEMMA ListStep == TypeOK /\ LocalsInv /\ MutexInv /\ ListInv /\ [Next]_vars => ListInv'
<1> SUFFICES ASSUME TypeOK, LocalsInv, MutexInv, ListInv, [Next]_vars PROVE ListInv'
  OBVIOUS
<1>1. CASE UNCHANGED vars
  BY <1>1 DEF vars, heap, held, ListInv, ListAt, Listed, UsedWithinCapacity, SavedInv, Chunks, Reopened
<1>2. ASSUME NEW g \in Goroutines,
             AllocStep(g) \/ ReclaimStep(g) \/ SnapshotStep(g) \/ CloseStep(g)
      PROVE  ListInv'
  <2>1. TypeOK'
    BY TypeStep
  <2>2. Elsewhere(g) /\ Calm(g)
    BY <1>2, GoroutineTypes, OthersUntouched, CalmStep
  <2>3. ListGlobal' /\ ListAt(g)'
    BY <1>2, <2>1, ListAlloc, ListReclaim, ListSnapshot, ListClose
  <2>4. \A h \in Goroutines : h # g => ListAt(h)'
    BY <2>1, <2>2, ListOthers
  <2> QED
    BY <2>3, <2>4 DEF ListInv, ListGlobal
<1> QED
  BY <1>1, <1>2 DEF Next

----------------------------------------------------------------------------
(* Growth *)

(***************************************************************************)
(* The size allocSlow settles on serves the request and keeps to maxCap.   *)
(***************************************************************************)
LEMMA SizeFits ==
  ASSUME HeapTypeOK, NEW n \in Nat, ClampedSize(n) # 0
  PROVE  /\ n <= ClampedSize(n)
         /\ MaxCap = 0 \/ curCap + ClampedSize(n) <= MaxCap
<1>1. curCap \in Nat /\ MaxCap \in Nat
  BY ArenaAssumption, HeapNumbers
<1>2. WantedSize(n) \in Nat /\ n <= WantedSize(n)
  BY <1>1, ArenaAssumption DEF WantedSize
<1> QED
  BY <1>1, <1>2 DEF ClampedSize

LEMMA GrowthInit == Init => GrowthInv
  BY ArenaAssumption DEF Init, GrowthInv, CapacityBounded, GrowthAt

LEMMA GrowthStep ==
  TypeOK /\ LocalsInv /\ MutexInv /\ ListInv /\ GrowthInv /\ [Next]_vars => GrowthInv'
<1> SUFFICES ASSUME TypeOK, LocalsInv, MutexInv, ListInv, GrowthInv, [Next]_vars PROVE GrowthInv'
  OBVIOUS
<1>1. CASE UNCHANGED vars
  BY <1>1 DEF vars, heap, GrowthInv, GrowthAt, CapacityBounded
<1>2. ASSUME NEW g \in Goroutines,
             AllocStep(g) \/ ReclaimStep(g) \/ SnapshotStep(g) \/ CloseStep(g)
      PROVE  GrowthInv'
  <2>a. CapacityBounded /\ GrowthAt(g)
    BY DEF GrowthInv
  <2>b. curCap \in Nat /\ MaxCap \in Nat
    BY GoroutineTypes, HeapNumbers, ArenaAssumption
  <2>1. \A h \in Goroutines : h # g => GrowthAt(h)'
    <3> SUFFICES ASSUME NEW h \in Goroutines, h # g PROVE GrowthAt(h)'
      OBVIOUS
    <3>1. GrowthAt(h) /\ pc'[h] = pc[h] /\ loc'[h] = loc[h]
      BY <1>2, GoroutineTypes, OthersUntouched DEF GrowthInv, Elsewhere
    <3>2. pc[h] = "map" => curCap' = curCap
      BY <1>2, CalmStep DEF Calm, Critical
    <3> QED
      BY <3>1, <3>2 DEF GrowthAt
  <2>2. ASSUME curCap' = curCap, GrowthAt(g)' PROVE GrowthInv'
    BY <2>1, <2>2, <2>a DEF GrowthInv, CapacityBounded
  <2>3. ASSUME NEW rq \in Requests, TryAlloc(g, rq) PROVE GrowthInv'
    BY <2>2, <2>3, TryAllocEffect DEF GrowthAt, heap
  <2>4. ASSUME LoadOff(g) PROVE GrowthInv'
    BY <2>2, <2>4, <2>a, LoadOffEffect DEF GrowthAt, heap
  <2>5. ASSUME CompareAndSwap(g) PROVE GrowthInv'
    BY <2>2, <2>5, <2>a, CompareAndSwapEffect DEF GrowthAt, heap
  <2>6. ASSUME LockSlow(g) PROVE GrowthInv'
    BY <2>2, <2>6, LockSlowEffect DEF GrowthAt, heap
  <2>7. ASSUME ChooseSize(g) PROVE GrowthInv'
    <3>1. /\ curCap' = curCap
          /\ \/ pc'[g] = "idle"
             \/ /\ pc'[g] = "map" /\ loc'[g].req = loc[g].req
                /\ loc'[g].size = ClampedSize(loc[g].req.n) /\ loc'[g].size # 0
      BY <2>7, ChooseSizeEffect DEF heap
    <3>2. loc[g].req.n \in Nat
      BY GoroutineTypes, LocalFields
    <3>3. ASSUME ClampedSize(loc[g].req.n) # 0
          PROVE  /\ loc[g].req.n <= ClampedSize(loc[g].req.n)
                 /\ MaxCap = 0 \/ curCap + ClampedSize(loc[g].req.n) <= MaxCap
      BY <3>2, <3>3, GoroutineTypes, SizeFits
    <3> QED
      BY <2>2, <3>1, <3>3 DEF GrowthAt
  <2>8. ASSUME GrowChunk(g) PROVE GrowthInv'
    <3>1. /\ pc[g] = "map" /\ pc'[g] = "try" /\ curCap' = curCap + loc[g].size
          /\ loc'[g].ctx = "fresh" /\ loc'[g].lim = loc[g].size /\ loc'[g].req = loc[g].req
      BY <2>8, GrowChunkEffect
    <3>2. /\ MaxCap = 0 \/ curCap + loc[g].size <= MaxCap
          /\ loc[g].req.n <= loc[g].size
      BY <2>a, <3>1 DEF GrowthAt
    <3>3. CapacityBounded'
      BY <2>b, <3>1, <3>2 DEF CapacityBounded
    <3>4. GrowthAt(g)'
      BY <3>1, <3>2 DEF GrowthAt
    <3> QED
      BY <2>1, <3>3, <3>4 DEF GrowthInv
  <2>9. ASSUME SliceBuf(g) \/ GrowFails(g) PROVE GrowthInv'
    BY <2>2, <2>9, SliceBufEffect, GrowFailsEffect DEF GrowthAt, heap
  <2>10. ASSUME ReclaimStep(g) PROVE GrowthInv'
    <3>1. curCap' = curCap /\ pc'[g] \in {"sweep", "idle"}
      BY <2>10, GoroutineTypes DEF ReclaimStep, Reset, Rewind, Rollback, BeginSweep, StoreOff,
         StoreActive, heap, Goto
    <3> QED
      BY <2>2, <3>1 DEF GrowthAt
  <2>11. ASSUME SnapshotStep(g) PROVE GrowthInv'
    <3>1. curCap' = curCap /\ pc'[g] \in {"save", "idle"}
      BY <2>11, GoroutineTypes DEF SnapshotStep, Mark, MayUse, Savepoint, SaveOff, SaveDone, Return,
         heap, Goto
    <3> QED
      BY <2>2, <3>1 DEF GrowthAt
  <2>12. ASSUME CloseStep(g) PROVE GrowthInv'
    <3>1. /\ curCap' = curCap \/ curCap' = 0
          /\ pc'[g] \in {"idle", "take", "release", "clear"}
      BY <2>12, GoroutineTypes DEF CloseStep, Close, CloseTake, Unmap, ClearChunk, Return, heap, Goto
    <3>2. CapacityBounded'
      BY <2>a, <2>b, <3>1 DEF CapacityBounded
    <3> QED
      BY <2>1, <3>1, <3>2 DEF GrowthInv, GrowthAt
  <2> QED
    BY <1>2, <2>3, <2>4, <2>5, <2>6, <2>7, <2>8, <2>9, <2>10, <2>11, <2>12 DEF AllocStep
<1> QED
  BY <1>1, <1>2 DEF Next

----------------------------------------------------------------------------
(* Alignment *)

(***************************************************************************)
(* What AlignUp returns is a multiple of the alignment.                    *)
(***************************************************************************)
LEMMA AlignUpAligns ==
  ASSUME NEW x \in Nat, NEW a \in Nat \ {0}
  PROVE  AlignUp(x, a) % a = 0
<1> DEFINE s == x + (a - 1)
           q == s \div a
<1>1. s \in Int /\ a \in Int /\ a > 0
  OBVIOUS
<1>2. q \in Int /\ s % a \in Int /\ s = a * q + (s % a)
  BY <1>1
<1>3. AlignUp(x, a) = s - (s % a)
  BY DEF AlignUp
<1> HIDE DEF q, s
<1>4. a * q \in Int
  BY <1>1, <1>2
<1>5. AlignUp(x, a) = a * q
  BY <1>1, <1>2, <1>3, <1>4
<1>6. (a * q) % a = 0
  BY <1>1, <1>2
<1> QED
  BY <1>5, <1>6

LEMMA AlignInit == Init => AlignInv
  BY DEF Init, AlignInv, AddressesAligned, AlignAt

LEMMA AlignStep ==
  TypeOK /\ LocalsInv /\ MutexInv /\ ListInv /\ AlignInv /\ [Next]_vars => AlignInv'
<1> SUFFICES ASSUME TypeOK, LocalsInv, MutexInv, ListInv, AlignInv, [Next]_vars PROVE AlignInv'
  OBVIOUS
<1>1. CASE UNCHANGED vars
  BY <1>1 DEF vars, heap, ghost, AlignInv, AddressesAligned, AlignAt
<1>2. ASSUME NEW g \in Goroutines,
             AllocStep(g) \/ ReclaimStep(g) \/ SnapshotStep(g) \/ CloseStep(g)
      PROVE  AlignInv'
  <2>a. /\ \A r \in live : r.chunk <= grown /\ r.chunk \in ChunkId
        /\ \A r \in live : (base[r.chunk] + r.lo) % r.align = 0
        /\ AlignAt(g)
    BY DEF AlignInv, AddressesAligned, TypeOK, Stack!StackTypeOK, Stack!Region
  <2>b. grown \in Nat /\ grown <= grown' /\ \A c \in 1..grown : c \in ChunkId
    BY <1>2, GoroutineTypes, HeapNumbers, CalmStep DEF Calm
  <2>1. \A h \in Goroutines : h # g => AlignAt(h)'
    <3> SUFFICES ASSUME NEW h \in Goroutines, h # g, pc[h] = "cas" PROVE AlignAt(h)'
      BY <1>2, GoroutineTypes, OthersUntouched DEF AlignAt, Elsewhere
    <3>1. AlignAt(h) /\ pc'[h] = pc[h] /\ loc'[h] = loc[h] /\ loc[h].cur \in 1..grown
      BY <1>2, GoroutineTypes, OthersUntouched DEF AlignInv, Elsewhere, LocalsInv, LocalsInvAt
    <3>2. \/ cap'[loc[h].cur] = 0
          \/ cap'[loc[h].cur] = cap[loc[h].cur] /\ base'[loc[h].cur] = base[loc[h].cur]
      BY <1>2, <3>1, CalmStep DEF Calm
    <3> QED
      BY <3>1, <3>2 DEF AlignAt
  <2>2. ASSUME live' \subseteq live, base' = base, pc'[g] # "cas" PROVE AlignInv'
    <3>1. \A r \in live' : r.chunk <= grown' /\ (base'[r.chunk] + r.lo) % r.align = 0
      <4>1. \A r \in live' : r.chunk <= grown /\ r.chunk \in Nat /\ grown' \in Int
        <5>1. TypeOK'
          BY TypeStep
        <5>2. grown' \in Int
          BY <5>1 DEF TypeOK, HeapTypeOK, ChunkId
        <5> QED
          BY <2>2, <2>a, <5>2 DEF ChunkId
      <4> QED
        BY <2>2, <2>a, <2>b, <4>1
    <3> QED
      BY <2>1, <2>2, <3>1 DEF AlignInv, AddressesAligned, AlignAt
  <2>3. ASSUME LoadOff(g) PROVE AlignInv'
    <3> DEFINE c == loc[g].cur
               x == base[c] + off[c]
               a == loc[g].req.align
    <3>1. c \in 1..grown /\ live' = live /\ base' = base /\ cap' = cap /\ grown' = grown
      BY <2>3, LoadOffEffect DEF heap, ghost
    <3>2. x \in Nat /\ a \in Nat \ {0} /\ base[c] \in Nat
      BY <2>b, <3>1, GoroutineTypes, ChunkFields, LocalFields
    <3>3. CASE pc'[g] # "cas"
      BY <2>2, <3>1, <3>3
    <3>4. CASE pc'[g] = "cas"
      <4>1. loc'[g].cur = c /\ loc'[g].req = loc[g].req /\ loc'[g].lo = AlignUp(x, a) - base[c]
        BY <2>3, <3>4, LoadOffEffect DEF AlignedOff
      <4> HIDE DEF c, x, a
      <4>2. base[c] + loc'[g].lo = AlignUp(x, a)
        BY <3>2, <4>1, AlignUpType
      <4>3. AlignAt(g)'
        BY <3>1, <3>2, <4>1, <4>2, AlignUpAligns DEF AlignAt, a
      <4> QED
        BY <2>1, <2>a, <3>1, <4>3 DEF AlignInv, AddressesAligned
    <3> QED
      BY <3>3, <3>4
  <2>4. ASSUME CompareAndSwap(g) PROVE AlignInv'
    <3> DEFINE l == loc[g]
               r == [chunk |-> l.cur, lo |-> l.lo, hi |-> l.hi, at |-> clock + 1,
                     align |-> l.req.align]
    <3>1. /\ pc[g] = "cas" /\ pc'[g] # "cas" /\ l.cur \in 1..grown /\ l.lo < l.hi
          /\ base' = base /\ grown' = grown
          /\ live' = live \/ (l.hi <= cap[l.cur] /\ live' = live \cup {r})
      BY <2>4, CompareAndSwapEffect DEF heap
    <3>2. CASE live' = live
      BY <2>2, <3>1, <3>2
    <3>3. CASE l.hi <= cap[l.cur] /\ live' = live \cup {r}
      <4>1. cap[l.cur] # 0
        BY <2>b, <3>1, <3>3, GoroutineTypes, LocalFields, ChunkFields
      <4>2. (base[l.cur] + l.lo) % l.req.align = 0
        BY <2>a, <3>1, <4>1 DEF AlignAt
      <4>3. r.chunk = l.cur /\ r.lo = l.lo /\ r.align = l.req.align
        OBVIOUS
      <4>4. l.cur <= grown
        BY <2>b, <3>1
      <4> HIDE DEF l, r
      <4>5. \A t \in live' : t.chunk <= grown /\ (base[t.chunk] + t.lo) % t.align = 0
        BY <2>a, <3>3, <4>2, <4>3, <4>4
      <4> QED
        BY <2>1, <3>1, <4>5 DEF AlignInv, AddressesAligned, AlignAt
    <3> QED
      BY <3>1, <3>2, <3>3
  <2>5. ASSUME GrowChunk(g) PROVE AlignInv'
    <3>1. /\ pc'[g] # "cas" /\ live' = live /\ grown' = grown + 1
          /\ \A c \in ChunkId : c # grown + 1 => base'[c] = base[c]
      BY <2>5, GrowChunkEffect DEF ghost
    <3>2. \A r \in live : r.chunk # grown + 1 /\ r.chunk <= grown + 1
      BY <2>a, <2>b DEF ChunkId
    <3> QED
      BY <2>1, <2>a, <3>1, <3>2 DEF AlignInv, AddressesAligned, AlignAt
  <2>6. ASSUME ClearChunk(g) PROVE AlignInv'
    <3>1. /\ pc'[g] # "cas" /\ live' = {r \in live : r.chunk # loc[g].cur} /\ grown' = grown
          /\ \A d \in ChunkId : d # loc[g].cur => base'[d] = base[d]
      BY <2>6, ClearChunkEffect
    <3> QED
      BY <2>1, <2>a, <3>1 DEF AlignInv, AddressesAligned, AlignAt
  <2>7. ASSUME AllocStep(g) PROVE AlignInv'
    <3>1. \A rq \in Requests : TryAlloc(g, rq) => live' = live /\ base' = base /\ pc'[g] # "cas"
      BY TryAllocEffect DEF heap, ghost
    <3>2. SliceBuf(g) => live' = live /\ base' = base /\ pc'[g] # "cas"
      BY SliceBufEffect DEF heap, ghost
    <3>3. LockSlow(g) => live' = live /\ base' = base /\ pc'[g] # "cas"
      BY LockSlowEffect DEF heap, ghost
    <3>4. ChooseSize(g) \/ GrowFails(g) => live' = live /\ base' = base /\ pc'[g] # "cas"
      BY ChooseSizeEffect, GrowFailsEffect DEF heap, ghost
    <3> QED
      BY <2>2, <2>3, <2>4, <2>5, <2>7, <3>1, <3>2, <3>3, <3>4 DEF AllocStep
  <2>8. ASSUME ReclaimStep(g) PROVE AlignInv'
    <3>1. live' \subseteq live /\ base' = base /\ pc'[g] \in {"sweep", "idle"}
      BY <2>8, GoroutineTypes DEF ReclaimStep, Reset, Rewind, Rollback, BeginSweep, StoreOff,
         StoreActive, heap, ghost, Goto
    <3> QED
      BY <2>2, <3>1
  <2>9. ASSUME SnapshotStep(g) PROVE AlignInv'
    <3>1. live' = live /\ base' = base /\ pc'[g] \in {"save", "idle"}
      BY <2>9, GoroutineTypes DEF SnapshotStep, Mark, MayUse, Savepoint, SaveOff, SaveDone, Return,
         heap, ghost, Goto
    <3> QED
      BY <2>2, <3>1
  <2>10. ASSUME CloseStep(g) PROVE AlignInv'
    <3>1. Close(g) \/ CloseTake(g) \/ Unmap(g) =>
            live' \subseteq live /\ base' = base /\ pc'[g] \in {"idle", "take", "release", "clear"}
      BY GoroutineTypes DEF Close, CloseTake, Unmap, Return, heap, ghost, Goto
    <3> QED
      BY <2>2, <2>6, <2>10, <3>1 DEF CloseStep
  <2> QED
    BY <1>2, <2>7, <2>8, <2>9, <2>10
<1> QED
  BY <1>1, <1>2 DEF Next

----------------------------------------------------------------------------
(* Clients that synchronise *)

(***************************************************************************)
(* A call that would take memory away begins only when all are outside the *)
(* arena, and while it runs no other call begins.                          *)
(***************************************************************************)
LEMMA EntryRules ==
  ASSUME TypeOK, LocalsInv, ClientSync, NEW g \in Goroutines,
         AllocStep(g) \/ ReclaimStep(g) \/ SnapshotStep(g) \/ CloseStep(g)
  PROVE  /\ pc'[g] \in Reclaiming => \/ pc[g] \in Reclaiming
                                     \/ \A h \in Goroutines : pc[h] = "idle"
         /\ pc[g] = "idle" /\ pc'[g] # "idle" => \A h \in Goroutines : pc[h] \notin Reclaiming
<1> USE DEF Reclaiming
<1>1. ASSUME AllocStep(g)
      PROVE  /\ pc'[g] \notin Reclaiming
             /\ pc[g] = "idle" => \A h \in Goroutines : pc[h] \notin Reclaiming
  <2>1. pc'[g] \notin Reclaiming
    BY <1>1, TryAllocEffect, LoadOffEffect, CompareAndSwapEffect, SliceBufEffect, LockSlowEffect,
       ChooseSizeEffect, GrowChunkEffect, GrowFailsEffect DEF AllocStep
  <2>2. pc[g] = "idle" => \A h \in Goroutines : pc[h] \notin Reclaiming
    BY <1>1 DEF AllocStep, TryAlloc, MayUse, LoadOff, CompareAndSwap, SliceBuf, LockSlow, ChooseSize,
       GrowChunk, GrowFails
  <2> QED
    BY <2>1, <2>2
<1>2. ASSUME NEW plan, BeginSweep(g, plan) PROVE \A h \in Goroutines : pc[h] = "idle"
  BY <1>2, BeginSweepEffect
<1>3. ASSUME StoreOff(g) \/ StoreActive(g) PROVE pc[g] = "sweep"
  BY <1>3 DEF StoreOff, StoreActive
<1>4. ASSUME ReclaimStep(g) PROVE pc[g] = "sweep" \/ \A h \in Goroutines : pc[h] = "idle"
  BY <1>2, <1>3, <1>4 DEF ReclaimStep, Reset, Rewind, Rollback
<1>5. ASSUME SnapshotStep(g)
      PROVE  /\ pc'[g] \in {"save", "idle"}
             /\ pc[g] = "idle" => \A h \in Goroutines : pc[h] \notin Reclaiming
  BY <1>5, GoroutineTypes DEF SnapshotStep, Mark, MayUse, Savepoint, SaveOff, SaveDone, Return, Goto
<1>6. ASSUME CloseStep(g)
      PROVE  pc[g] \in {"take", "release", "clear"} \/ \A h \in Goroutines : pc[h] = "idle"
  BY <1>6 DEF CloseStep, Close, CloseTake, Unmap, ClearChunk
<1> QED
  BY <1>1, <1>4, <1>5, <1>6

LEMMA SyncInit == Init => SyncInv
  BY DEF Init, SyncInv, NoSlicePanic, Reclaiming, Trying

LEMMA SyncStep ==
  ClientSync /\ TypeOK /\ LocalsInv /\ MutexInv /\ ListInv /\ SyncInv /\ [Next]_vars => SyncInv'
<1> SUFFICES ASSUME ClientSync, TypeOK, LocalsInv, MutexInv, ListInv, SyncInv, [Next]_vars
             PROVE  SyncInv'
  OBVIOUS
<1>1. CASE UNCHANGED vars
  BY <1>1 DEF vars, heap, SyncInv, NoSlicePanic
<1>2. ASSUME NEW g \in Goroutines,
             AllocStep(g) \/ ReclaimStep(g) \/ SnapshotStep(g) \/ CloseStep(g)
      PROVE  SyncInv'
  <2>a. /\ \A h, k \in Goroutines : pc[h] \in Reclaiming /\ k # h => pc[k] = "idle"
        /\ \A h \in Goroutines : pc[h] \in Trying => loc[h].cur > taken
        /\ \A h \in Goroutines : outcome[h] # "panic"
    BY DEF SyncInv, NoSlicePanic
  <2>b. \A h \in Goroutines : h # g => pc'[h] = pc[h] /\ loc'[h] = loc[h]
    BY <1>2, GoroutineTypes, OthersUntouched DEF Elsewhere
  <2>c. "idle" \notin Reclaiming /\ "idle" \notin Trying
    BY DEF Reclaiming, Trying
  <2>d. taken \in Nat /\ grown \in Nat /\ taken <= grown /\ loc[g].cur \in Nat
    BY GoroutineTypes, HeapNumbers, LocalFields
  <2>1. \A h, k \in Goroutines : pc'[h] \in Reclaiming /\ k # h => pc'[k] = "idle"
    <3>1. /\ pc'[g] \in Reclaiming => pc[g] \in Reclaiming \/ \A h \in Goroutines : pc[h] = "idle"
          /\ pc[g] = "idle" /\ pc'[g] # "idle" => \A h \in Goroutines : pc[h] \notin Reclaiming
      BY <1>2, EntryRules
    <3>2. ASSUME NEW h \in Goroutines, NEW k \in Goroutines, pc'[h] \in Reclaiming, k # h
          PROVE  pc'[k] = "idle"
      <4>1. CASE h = g
        BY <2>a, <2>b, <3>1, <3>2, <4>1
      <4>2. CASE h # g
        BY <2>a, <2>b, <2>c, <3>1, <3>2, <4>2
      <4> QED
        BY <4>1, <4>2
    <3> QED
      BY <3>2
  <2>2. \A h \in Goroutines : h # g => (pc'[h] \in Trying => loc'[h].cur > taken')
    <3>1. CASE taken' = taken
      BY <2>a, <2>b, <3>1
    <3>2. CASE taken' # taken
      <4>1. CloseTake(g)
        BY <1>2, <3>2 DEF AllocStep, TryAlloc, LoadOff, CompareAndSwap, SliceBuf, LockSlow,
           ChooseSize, GrowChunk, GrowFails, ReclaimStep, Reset, Rewind, Rollback, BeginSweep,
           StoreOff, StoreActive, SnapshotStep, Mark, Savepoint, SaveOff, SaveDone, CloseStep,
           Close, Unmap, ClearChunk, heap
      <4>2. pc[g] \in Reclaiming
        BY <4>1 DEF CloseTake, Reclaiming
      <4> QED
        BY <2>a, <2>b, <2>c, <4>2
    <3> QED
      BY <3>1, <3>2
  <2>e. active # Nil => active > taken
    BY <2>d, GoroutineTypes, HeapNumbers DEF ListInv, Listed, Chunks
  <2>3. pc'[g] \in Trying => loc'[g].cur > taken'
    <3>1. ASSUME NEW rq \in Requests, TryAlloc(g, rq) PROVE pc'[g] \in Trying => loc'[g].cur > taken'
      BY <2>e, <3>1, TryAllocEffect DEF Trying, heap
    <3>2. ASSUME LoadOff(g) PROVE pc'[g] \in Trying => loc'[g].cur > taken'
      <4>1. loc[g].cur > taken /\ taken' = taken /\ loc[g].cur + 1 > taken
        BY <2>a, <2>d, <3>2, LoadOffEffect DEF Trying, heap
      <4> QED
        BY <3>2, <4>1, LoadOffEffect DEF Trying
    <3>3. ASSUME CompareAndSwap(g) PROVE pc'[g] \in Trying => loc'[g].cur > taken'
      BY <2>a, <3>3, CompareAndSwapEffect DEF Trying, heap
    <3>4. ASSUME LockSlow(g) PROVE pc'[g] \in Trying => loc'[g].cur > taken'
      BY <2>e, <3>4, LockSlowEffect DEF Trying, heap
    <3>5. ASSUME GrowChunk(g) PROVE pc'[g] \in Trying => loc'[g].cur > taken'
      BY <2>d, <3>5, GrowChunkEffect
    <3>6. ASSUME SliceBuf(g) \/ ChooseSize(g) \/ GrowFails(g) PROVE pc'[g] \notin Trying
      BY <3>6, SliceBufEffect, ChooseSizeEffect, GrowFailsEffect DEF Trying
    <3>7. ASSUME ReclaimStep(g) \/ SnapshotStep(g) \/ CloseStep(g) PROVE pc'[g] \notin Trying
      BY <3>7, GoroutineTypes DEF ReclaimStep, Reset, Rewind, Rollback, BeginSweep, StoreOff,
         StoreActive, SnapshotStep, Mark, MayUse, Savepoint, SaveOff, SaveDone, CloseStep, Close,
         CloseTake, Unmap, ClearChunk, Return, Goto, Trying
    <3> QED
      BY <1>2, <3>1, <3>2, <3>3, <3>4, <3>5, <3>6, <3>7 DEF AllocStep
  <2>4. NoSlicePanic'
    <3>0. outcome \in [Goroutines -> {"none", "ok", "limit", "os", "fresh", "panic"}]
      BY DEF TypeOK, ControlTypeOK
    <3>1. ASSUME SliceBuf(g) PROVE NoSlicePanic'
      <4>1. loc[g].cur > taken
        BY <2>a, <3>1 DEF SliceBuf, Trying
      <4>2. loc[g].hi <= cap[loc[g].cur]
        BY <3>1, <4>1 DEF SliceBuf, ListInv, ListAt
      <4>3. outcome' = [outcome EXCEPT ![g] = "ok"]
        BY <3>1, <4>2, SliceBufEffect
      <4> QED
        BY <2>a, <3>0, <4>3 DEF NoSlicePanic
    <3>2. ASSUME UNCHANGED outcome PROVE NoSlicePanic'
      BY <2>a, <3>2 DEF NoSlicePanic
    <3>3. ASSUME NEW v \in {"none", "limit", "os", "fresh"}, outcome' = [outcome EXCEPT ![g] = v]
          PROVE  NoSlicePanic'
      BY <2>a, <3>0, <3>3 DEF NoSlicePanic
    <3>4. ASSUME AllocStep(g) PROVE NoSlicePanic'
      <4>1. \/ SliceBuf(g) \/ UNCHANGED outcome
            \/ \E v \in {"none", "limit", "os", "fresh"} : outcome' = [outcome EXCEPT ![g] = v]
        BY <3>4 DEF AllocStep, TryAlloc, LoadOff, CompareAndSwap, LockSlow, ChooseSize, GrowChunk,
           GrowFails, FailLocked
      <4> QED
        BY <3>1, <3>2, <3>3, <4>1
    <3>5. ASSUME ReclaimStep(g) \/ SnapshotStep(g) \/ CloseStep(g) PROVE UNCHANGED outcome
      BY <3>5 DEF ReclaimStep, Reset, Rewind, Rollback, BeginSweep, StoreOff, StoreActive,
         SnapshotStep, Mark, Savepoint, SaveOff, SaveDone, CloseStep, Close, CloseTake, Unmap, ClearChunk
    <3> QED
      BY <1>2, <3>2, <3>4, <3>5
  <2> QED
    BY <2>1, <2>2, <2>3, <2>4 DEF SyncInv
<1> QED
  BY <1>1, <1>2 DEF Next

----------------------------------------------------------------------------
(* What Close gives back *)

LEMMA ReleaseInit == Init => ReleaseInv
  BY DEF Init, ReleaseInv

LEMMA ReleaseStep ==
  ClientSync /\ ~UseAfterClose /\ TypeOK /\ LocalsInv /\ ListInv /\ SyncInv /\ ReleaseInv
    /\ [Next]_vars => ReleaseInv'
<1> SUFFICES ASSUME ClientSync, ~UseAfterClose, TypeOK, LocalsInv, ListInv, SyncInv, ReleaseInv,
                    [Next]_vars
             PROVE  ReleaseInv'
  OBVIOUS
<1>1. CASE UNCHANGED vars
  BY <1>1 DEF vars, heap, ReleaseInv, ToRelease
<1>2. ASSUME NEW g \in Goroutines,
             AllocStep(g) \/ ReclaimStep(g) \/ SnapshotStep(g) \/ CloseStep(g)
      PROVE  ReleaseInv'
  <2>a. taken \in Nat /\ grown \in Nat /\ 1 <= grown /\ loc[g].cur \in Nat /\ loc[g].lim \in Nat
    BY GoroutineTypes, HeapNumbers, LocalFields
  <2>b. \A h \in Goroutines : h # g => pc'[h] = pc[h] /\ loc'[h] = loc[h]
    BY <1>2, GoroutineTypes, OthersUntouched DEF Elsewhere
  <2>c. /\ mapped \subseteq 1..grown /\ closed \in {0, 1}
        /\ closed = 1 => \A h \in Goroutines : pc[h] \in {"idle", "take", "release", "clear"}
        /\ closed = 1 /\ mapped # {} => \E h \in Goroutines : ToRelease(h)
    BY DEF ReleaseInv, TypeOK, ControlTypeOK
  <2>d. ASSUME pc[g] \in {"take", "release", "clear"}
        PROVE  /\ closed = 1
               /\ \A h \in Goroutines : h # g => pc[h] = "idle"
               /\ mapped # {} => ToRelease(g)
    BY <2>c, <2>d DEF ListInv, ListAt, SyncInv, Reclaiming, ToRelease
  <2>1. ASSUME AllocStep(g) \/ ReclaimStep(g) \/ SnapshotStep(g) PROVE ReleaseInv'
    <3>1. closed = 0 /\ closed' = closed
      <4>1. ASSUME AllocStep(g) PROVE closed' = closed /\ (closed = 0 \/ pc[g] \notin {"idle", "take", "release", "clear"})
        BY <4>1 DEF AllocStep, TryAlloc, MayUse, LoadOff, CompareAndSwap, SliceBuf, LockSlow,
           ChooseSize, GrowChunk, GrowFails
      <4>2. ASSUME ReclaimStep(g) PROVE closed' = closed /\ (closed = 0 \/ pc[g] = "sweep")
        BY <4>2 DEF ReclaimStep, Reset, Rewind, Rollback, BeginSweep, MayReclaim, StoreOff, StoreActive
      <4>3. ASSUME SnapshotStep(g) PROVE closed' = closed /\ (closed = 0 \/ pc[g] = "save")
        BY <4>3 DEF SnapshotStep, Mark, MayUse, Savepoint, SaveOff, SaveDone
      <4> QED
        BY <2>1, <2>c, <4>1, <4>2, <4>3
    <3>2. \/ mapped' = mapped /\ grown' = grown
          \/ mapped' = mapped \cup {grown + 1} /\ grown' = grown + 1
      BY <2>1 DEF AllocStep, TryAlloc, LoadOff, CompareAndSwap, SliceBuf, LockSlow,
         ChooseSize, GrowChunk, GrowFails, ReclaimStep, Reset, Rewind, Rollback, BeginSweep,
         StoreOff, StoreActive, SnapshotStep, Mark, Savepoint, SaveOff, SaveDone, heap
    <3>3. mapped' \subseteq 1..grown'
      <4> SUFFICES ASSUME NEW c \in mapped' PROVE c \in 1..grown'
        OBVIOUS
      <4>1. c \in mapped => c \in 1..grown
        BY <2>c
      <4> QED
        BY <2>a, <3>2, <4>1
    <3> QED
      BY <3>1, <3>3 DEF ReleaseInv
  <2>2. ASSUME Close(g) PROVE ReleaseInv'
    <3>1. /\ mapped' = mapped /\ grown' = grown /\ taken' = taken /\ loc' = loc /\ closed' = 1
          /\ \A h \in Goroutines : pc[h] = "idle"
          /\ IF closed = 1 THEN pc' = pc ELSE pc'[g] = "take"
      BY <2>2, CloseEffect DEF heap
    <3>2. CASE closed = 1
      BY <2>c, <3>1, <3>2 DEF ReleaseInv, ToRelease
    <3>3. CASE closed # 1
      <4>1. taken = 0
        BY <2>a, <3>3 DEF ListInv
      <4>2. ToRelease(g)'
        BY <3>1, <3>3, <4>1 DEF ToRelease
      <4>3. \A h \in Goroutines : pc'[h] \in {"idle", "take", "release", "clear"}
        BY <2>b, <3>1, <3>3
      <4> QED
        BY <2>c, <3>1, <4>2, <4>3 DEF ReleaseInv
    <3> QED
      BY <3>2, <3>3
  <2>3. ASSUME CloseTake(g) PROVE ReleaseInv'
    <3>1. /\ pc[g] = "take" /\ mapped' = mapped /\ grown' = grown /\ closed' = closed
          /\ \/ NumChunks = 0 /\ pc'[g] = "idle"
             \/ pc'[g] = "release" /\ loc'[g].cur = taken + 1 /\ loc'[g].lim = grown
      BY <2>3, CloseTakeEffect
    <3>2. ASSUME mapped # {} PROVE ToRelease(g)'
      <4>1. taken = 0
        BY <2>d, <3>1, <3>2 DEF ToRelease
      <4>2. pc'[g] = "release" /\ loc'[g].cur = 1 /\ loc'[g].lim = grown
        BY <2>a, <3>1, <4>1 DEF NumChunks
      <4> QED
        BY <2>c, <3>1, <4>2 DEF ToRelease
    <3>3. \A h \in Goroutines : pc'[h] \in {"idle", "take", "release", "clear"}
      BY <2>b, <2>c, <2>d, <3>1
    <3> QED
      BY <2>c, <3>1, <3>2, <3>3 DEF ReleaseInv
  <2>4. ASSUME Unmap(g) PROVE ReleaseInv'
    <3>1. /\ pc[g] = "release" /\ pc'[g] = "clear" /\ mapped' = mapped \ {loc[g].cur}
          /\ grown' = grown /\ closed' = closed /\ loc'[g] = loc[g]
      BY <2>4, UnmapEffect
    <3>2. ASSUME mapped' # {} PROVE ToRelease(g)'
      <4>1. mapped \subseteq loc[g].cur..loc[g].lim
        BY <2>d, <3>1, <3>2 DEF ToRelease
      <4>2. mapped' \subseteq (loc[g].cur + 1)..loc[g].lim
        <5> SUFFICES ASSUME NEW c \in mapped' PROVE c \in (loc[g].cur + 1)..loc[g].lim
          OBVIOUS
        <5>1. c # loc[g].cur /\ c \in loc[g].cur..loc[g].lim
          BY <3>1, <4>1
        <5> QED
          BY <2>a, <5>1
      <4> QED
        BY <3>1, <4>2 DEF ToRelease
    <3>3. \A h \in Goroutines : pc'[h] \in {"idle", "take", "release", "clear"}
      BY <2>b, <2>d, <3>1
    <3> QED
      BY <2>c, <3>1, <3>2, <3>3 DEF ReleaseInv
  <2>5. ASSUME ClearChunk(g) PROVE ReleaseInv'
    <3>1. /\ pc[g] = "clear" /\ mapped' = mapped /\ grown' = grown /\ closed' = closed
          /\ \/ pc'[g] = "release" /\ loc'[g].cur = loc[g].cur + 1 /\ loc'[g].lim = loc[g].lim
             \/ pc'[g] = "idle" /\ loc[g].cur = loc[g].lim
      BY <2>5, ClearChunkEffect
    <3>2. ASSUME mapped # {} PROVE ToRelease(g)'
      <4>1. mapped \subseteq (loc[g].cur + 1)..loc[g].lim
        BY <2>d, <3>1, <3>2 DEF ToRelease
      <4>2. loc[g].cur # loc[g].lim
        <5>1. PICK c : c \in (loc[g].cur + 1)..loc[g].lim
          BY <3>2, <4>1
        <5> QED
          BY <2>a, <5>1
      <4> QED
        BY <3>1, <4>1, <4>2 DEF ToRelease
    <3>3. \A h \in Goroutines : pc'[h] \in {"idle", "take", "release", "clear"}
      BY <2>b, <2>d, <3>1
    <3> QED
      BY <2>c, <3>1, <3>2, <3>3 DEF ReleaseInv
  <2> QED
    BY <1>2, <2>1, <2>2, <2>3, <2>4, <2>5 DEF CloseStep
<1> QED
  BY <1>1, <1>2 DEF Next

----------------------------------------------------------------------------
(* The theorems *)

SharedInv == TypeOK /\ LocalsInv /\ MutexInv /\ ListInv

LEMMA SharedInvariant == Spec => []SharedInv
<1>1. Init => SharedInv
  BY TypeInit, LocalsInit, MutexInit, ListInit DEF SharedInv
<1>2. SharedInv /\ [Next]_vars => SharedInv'
  BY TypeStep, LocalsStep, MutexStep, ListStep DEF SharedInv
<1> QED
  BY <1>1, <1>2, PTL DEF Spec

(***************************************************************************)
(* Whatever calls race with the fast path, Close included, the active      *)
(* pointer is in the list of chunks (nil if the list is empty) and no      *)
(* offset is beyond its chunk, unless a client rolls back after Close.     *)
(***************************************************************************)
THEOREM ListStaysSound == Spec => []ListSound
<1>1. SharedInv => ListSound
  BY DEF SharedInv, ListInv, Listed, ListSound, ActiveListed
<1> QED
  BY <1>1, SharedInvariant, PTL

(***************************************************************************)
(* Concurrent growth in allocSlow never takes the arena over maxCap, and   *)
(* the chunk it makes is large enough for the request.                     *)
(***************************************************************************)
THEOREM GrowthStaysSound == Spec => []GrowthSound
<1>1. Init => GrowthInv
  BY GrowthInit
<1>2. SharedInv /\ GrowthInv /\ [Next]_vars => GrowthInv'
  BY GrowthStep DEF SharedInv
<1>3. SharedInv /\ GrowthInv => GrowthSound
  BY DEF GrowthInv, GrowthAt, GrowthSound, FreshChunkFits
<1> QED
  BY <1>1, <1>2, <1>3, SharedInvariant, PTL DEF Spec

(***************************************************************************)
(* tryAllocAligned never hands out an address that is not a multiple of    *)
(* the alignment, whatever the bases of the chunks and whatever Close      *)
(* clears between the computation of the offset and the CAS.               *)
(***************************************************************************)
THEOREM AllocationsAligned == Spec => []AddressesAligned
<1>1. Init => AlignInv
  BY AlignInit
<1>2. SharedInv /\ AlignInv /\ [Next]_vars => AlignInv'
  BY AlignStep DEF SharedInv
<1>3. AlignInv => AddressesAligned
  BY DEF AlignInv
<1> QED
  BY <1>1, <1>2, <1>3, SharedInvariant, PTL DEF Spec

LEMMA SyncInvariant == ClientSync => (Spec => [](SharedInv /\ SyncInv))
<1> SUFFICES ASSUME ClientSync PROVE Spec => [](SharedInv /\ SyncInv)
  OBVIOUS
<1>1. Init => SyncInv
  BY SyncInit
<1>2. SharedInv /\ SyncInv /\ [Next]_vars => SyncInv'
  BY SyncStep DEF SharedInv
<1> QED
  BY <1>1, <1>2, SharedInvariant, PTL DEF Spec

(***************************************************************************)
(* If clients reclaim memory and close only while no other call runs, the  *)
(* second read of c.buf in tryAlloc never panics.                          *)
(***************************************************************************)
THEOREM SlicingIsSafe == ClientSync => (Spec => []NoSlicePanic)
<1> SUFFICES ASSUME ClientSync PROVE Spec => []NoSlicePanic
  OBVIOUS
<1>1. SharedInv /\ SyncInv => NoSlicePanic
  BY DEF SyncInv
<1> QED
  BY <1>1, SyncInvariant, PTL

(***************************************************************************)
(* If clients synchronise and stop at Close, the loop of Close returns     *)
(* every chunk to the operating system.                                    *)
(***************************************************************************)
THEOREM CloseReleases == ClientSync /\ ~UseAfterClose => (Spec => []CloseReleasesAll)
<1> SUFFICES ASSUME ClientSync, ~UseAfterClose PROVE Spec => []CloseReleasesAll
  OBVIOUS
<1>1. Init => ReleaseInv
  BY ReleaseInit
<1>2. (SharedInv /\ SyncInv) /\ ReleaseInv /\ [Next]_vars => ReleaseInv'
  BY ReleaseStep DEF SharedInv
<1>3. ReleaseInv => CloseReleasesAll
  BY DEF ReleaseInv, CloseReleasesAll, ToRelease
<1> QED
  BY <1>1, <1>2, <1>3, SyncInvariant, PTL DEF Spec

----------------------------------------------------------------------------
(* What savepoints and transactions keep *)

(***************************************************************************)
(* The chunk a call works on, and the active one: allocSlow starts at the  *)
(* active chunk and goes up; the fast path may only lag behind.            *)
(***************************************************************************)
ActiveAt(g) ==
  pc[g] \in Trying =>
    /\ loc[g].ctx = "fast" => loc[g].cur <= active
    /\ loc[g].ctx \in {"retry", "fresh"} => loc[g].cur = active
    /\ loc[g].ctx = "scan" => loc[g].cur > active

(***************************************************************************)
(* Nothing in use lies above the active chunk, but for what a goroutine in *)
(* the middle of allocSlow has just claimed.                               *)
(***************************************************************************)
LiveLow ==
  \A r \in live : r.chunk > taken =>
    \/ r.chunk <= active
    \/ \E h \in Goroutines : pc[h] = "slice" /\ loc[h].ctx = "scan" /\ r.chunk <= loc[h].cur

(***************************************************************************)
(* Nothing is dated in the future.                                         *)
(***************************************************************************)
DatesInv ==
  /\ \A r \in live : r.chunk <= grown /\ r.at >= 1
  /\ \A s \in Slots : marks[s].stamp <= clock /\ sps[s].since <= clock
  /\ \A s \in Slots : \A i \in ChunkId : sps[s].stamp[i] <= clock

(***************************************************************************)
(* What lies above a mark, above the chunks of a savepoint, or above the   *)
(* active chunk of a savepoint, is younger.                                *)
(***************************************************************************)
YoungInv ==
  \A r \in live : \A s \in Slots :
    /\ r.chunk > taken + marks[s].idx => r.at > marks[s].stamp
    /\ r.chunk > taken + sps[s].n => r.at > sps[s].since
    /\ \A i \in ChunkId : r.chunk = taken + i /\ i > sps[s].active => r.at > sps[s].stamp[i]

(***************************************************************************)
(* A savepoint, complete or under way.                                     *)
(***************************************************************************)
SavingAt(g) ==
  pc[g] = "save" =>
    LET sp == sps[loc[g].slot]
    IN /\ sp.state = "nil" /\ sp.n = NumChunks
       /\ active \in Chunks => sp.active = active - taken
       /\ \A i \in ChunkId : i < loc[g].cur => sp.stamp[i] >= sp.since

SavedDates ==
  \A s \in Slots : sps[s].state = "valid" =>
    \A i \in ChunkId : i <= sps[s].n => sps[s].stamp[i] >= sps[s].since

(***************************************************************************)
(* What is left of a sweep takes back only what is younger than the mark   *)
(* or savepoint, and all that would lie above the new active chunk.        *)
(***************************************************************************)
SweepAt(g) ==
  pc[g] = "sweep" =>
    LET w == sweep[g]
    IN \A r \in live : r.chunk > taken =>
         /\ \A j \in 1..Len(w.todo) :
              w.todo[j] = r.chunk /\ r.at > w.stamp[r.chunk] => r.at > w.since
         /\ r.chunk > w.active =>
              r.at > w.stamp[r.chunk] /\ \E j \in 1..Len(w.todo) : w.todo[j] = r.chunk

TodoAt(g) ==
  pc[g] = "sweep" => \A j \in 1..Len(sweep[g].todo) : sweep[g].todo[j] \in Chunks

AgeInv ==
  /\ LiveLow /\ DatesInv /\ YoungInv /\ SavedDates
  /\ \A g \in Goroutines : ActiveAt(g) /\ SavingAt(g) /\ SweepAt(g) /\ TodoAt(g)

----------------------------------------------------------------------------
(* Lemmas *)

(***************************************************************************)
(* The instants and positions of a well-typed state.                       *)
(***************************************************************************)
LEMMA AgeTypes ==
  ASSUME TypeOK
  PROVE  /\ clock \in Nat /\ taken \in Nat /\ grown \in Nat /\ active \in Nat /\ taken <= grown
         /\ ChunkId \subseteq Nat /\ \A c \in ChunkId : c >= 1
         /\ \A r \in live : r.chunk \in ChunkId /\ r.chunk \in Nat /\ r.at \in Nat
         /\ \A s \in Slots : /\ marks[s].idx \in Nat /\ marks[s].idx >= 1 /\ marks[s].stamp \in Nat
                             /\ sps[s].n \in Nat /\ sps[s].active \in Nat /\ sps[s].since \in Nat
                             /\ \A i \in ChunkId : sps[s].stamp[i] \in Nat
  <1>1. clock \in Nat /\ \A r \in live : r.chunk \in ChunkId /\ r.at \in Nat
    BY DEF TypeOK, Stack!StackTypeOK, Stack!Region
  <1>2. /\ taken \in Nat /\ grown \in Nat /\ active \in Nat /\ taken <= grown
        /\ ChunkId \subseteq Nat /\ \A c \in ChunkId : c >= 1
    BY GoroutineTypes, HeapNumbers DEF ChunkId
  <1>3. \A s \in Slots : marks[s].idx \in Nat /\ marks[s].idx >= 1 /\ marks[s].stamp \in Nat
    BY DEF TypeOK, HeldTypeOK
  <1>4. \A s \in Slots : /\ sps[s].n \in Nat /\ sps[s].active \in Nat /\ sps[s].since \in Nat
                         /\ \A i \in ChunkId : sps[s].stamp[i] \in Nat
    BY DEF TypeOK, HeldTypeOK, Savepoints
  <1> QED
    BY <1>1, <1>2, <1>3, <1>4

LEMMA InOrderElements ==
  ASSUME TypeOK
  PROVE  /\ NumChunks \in Nat /\ Len(InOrder) = NumChunks
         /\ \A j \in 1..NumChunks : InOrder[j] = taken + j /\ InOrder[j] \in Chunks
         /\ \A c \in Chunks : c - taken \in 1..NumChunks /\ InOrder[c - taken] = c
<1>1. taken \in Nat /\ grown \in Nat /\ taken <= grown
  BY AgeTypes
<1>2. NumChunks \in Nat /\ NumChunks = grown - taken
  BY <1>1 DEF NumChunks
<1>3. Len(InOrder) = NumChunks /\ \A j \in 1..NumChunks : InOrder[j] = taken + j
  BY <1>2 DEF InOrder
<1>4. \A j \in 1..NumChunks : taken + j \in Chunks
  BY <1>1, <1>2 DEF Chunks
<1>5. \A c \in Chunks : c - taken \in 1..NumChunks /\ taken + (c - taken) = c
  BY <1>1, <1>2 DEF Chunks
<1> QED
  BY <1>2, <1>3, <1>4, <1>5

(***************************************************************************)
(* The order in which Rewind visits the chunks.                            *)
(***************************************************************************)
LEMMA RewindOrder ==
  ASSUME NEW n \in Nat, NEW t \in Nat, t <= n
  PROVE  LET q == Append([i \in 1..(n - t) |-> t + i], t)
         IN /\ Len(q) = n - t + 1
            /\ \A j \in 1..Len(q) : q[j] \in t..n
            /\ \A c \in t..n : \E j \in 1..Len(q) : q[j] = c
<1> DEFINE p == [i \in 1..(n - t) |-> t + i]
           q == Append(p, t)
<1>1. n - t \in Nat
  OBVIOUS
<1>2. p \in Seq(Nat) /\ Len(p) = n - t /\ \A j \in 1..(n - t) : p[j] = t + j
  BY <1>1
<1> HIDE DEF p
<1>3. Len(q) = n - t + 1 /\ q[n - t + 1] = t /\ \A j \in 1..(n - t) : q[j] = p[j]
  BY <1>1, <1>2, AppendProperties
<1> HIDE DEF q
<1>4. ASSUME NEW j \in 1..Len(q) PROVE q[j] \in t..n
  <2>1. j = n - t + 1 \/ j \in 1..(n - t)
    BY <1>1, <1>3
  <2>2. CASE j = n - t + 1
    BY <1>3, <2>2
  <2>3. CASE j \in 1..(n - t)
    <3>1. q[j] = t + j
      BY <1>2, <1>3, <2>3
    <3> QED
      BY <1>1, <2>3, <3>1
  <2> QED
    BY <2>1, <2>2, <2>3
<1>5. ASSUME NEW c \in t..n PROVE \E j \in 1..Len(q) : q[j] = c
  <2>1. CASE c = t
    <3>1. n - t + 1 \in 1..Len(q)
      BY <1>1, <1>3
    <3> QED
      BY <1>3, <2>1, <3>1
  <2>2. CASE c # t
    <3>1. c - t \in 1..(n - t) /\ c - t \in 1..Len(q) /\ t + (c - t) = c
      BY <1>1, <1>3, <2>2
    <3> QED
      BY <1>2, <1>3, <3>1
  <2> QED
    BY <2>1, <2>2
<1> QED
  BY <1>3, <1>4, <1>5 DEF q, p

LEMMA MarkEffect ==
  ASSUME TypeOK, NEW g \in Goroutines, NEW s \in Slots, Mark(g, s)
  PROVE  /\ mu = NoOne /\ pc[g] = "idle" /\ marks'[s].stamp = clock
         /\ marks'[s].idx = IF NumChunks > 0 THEN MarkedChunk - taken ELSE 1
         /\ \A t \in Slots : t # s => marks'[t] = marks[t]
         /\ UNCHANGED <<heap, off, active, mu, closed, pc, loc, sweep, sps, ghost, outcome>>
<1> DEFINE k == IF NumChunks > 0 THEN MarkedChunk - taken ELSE 1
           o == IF NumChunks > 0 THEN off[MarkedChunk] ELSE 0
<1>1. /\ mu = NoOne /\ pc[g] = "idle"
      /\ UNCHANGED <<heap, off, active, mu, closed, pc, loc, sweep, sps, ghost, outcome>>
  BY DEF Mark, MayUse
<1>2. marks' = [marks EXCEPT ![s] = MakeMark(k, o)]
  BY DEF Mark
<1>3. marks \in [Slots -> [idx : Nat \ {0}, off : Nat, stamp : Nat]]
  BY DEF TypeOK, HeldTypeOK
<1> HIDE DEF k, o
<1>4. marks'[s] = MakeMark(k, o) /\ \A t \in Slots : t # s => marks'[t] = marks[t]
  BY <1>2, <1>3
<1>5. MakeMark(k, o).idx = k /\ MakeMark(k, o).stamp = clock
  BY DEF MakeMark
<1> QED
  BY <1>1, <1>4, <1>5 DEF k

(***************************************************************************)
(* Only one goroutine is inside a critical section.                        *)
(***************************************************************************)
LEMMA OneInside ==
  ASSUME MutexInv, NEW g \in Goroutines, NEW h \in Goroutines, Critical(g), Critical(h)
  PROVE  g = h
  BY DEF MutexInv

LEMMA Slicing ==
  ASSUME NEW h \in Goroutines, pc[h] = "slice", loc[h].ctx = "scan"
  PROVE  Critical(h)
  BY DEF Critical, Trying

(***************************************************************************)
(* When nobody, or nobody else, is in allocSlow, everything in use in the  *)
(* list lies in the active chunk or below.                                 *)
(***************************************************************************)
LEMMA LowWhenLocked ==
  ASSUME MutexInv, LiveLow,
         mu = NoOne \/ \E g \in Goroutines : mu = g /\ pc[g] # "slice"
  PROVE  \A r \in live : r.chunk > taken => r.chunk <= active
<1>1. \A h \in Goroutines : ~(pc[h] = "slice" /\ loc[h].ctx = "scan")
  <2> SUFFICES ASSUME NEW h \in Goroutines, pc[h] = "slice", loc[h].ctx = "scan" PROVE FALSE
    OBVIOUS
  <2>1. mu = h
    BY Slicing DEF MutexInv
  <2> QED
    BY <2>1, ArenaAssumption
<1> QED
  BY <1>1 DEF LiveLow

(***************************************************************************)
(* The list, the active pointer and the savepoints change only while no    *)
(* other goroutine is in a critical section.                               *)
(***************************************************************************)
LEMMA HeldStep ==
  ASSUME TypeOK, LocalsInv, MutexInv, NEW g \in Goroutines, NEW h \in Goroutines, h # g,
         Critical(h), AllocStep(g) \/ ReclaimStep(g) \/ SnapshotStep(g) \/ CloseStep(g)
  PROVE  taken' = taken /\ grown' = grown /\ active' = active /\ sps' = sps
<1>1. mu = h /\ mu # NoOne /\ ~Critical(g)
  BY ArenaAssumption DEF MutexInv
<1>2. ASSUME AllocStep(g) PROVE taken' = taken /\ grown' = grown /\ active' = active /\ sps' = sps
  <2>1. ~GrowChunk(g) /\ (SliceBuf(g) => active' = active)
    BY <1>1, SliceBufEffect, GrowChunkEffect DEF Critical, Trying
  <2> QED
    BY <1>2, <2>1 DEF AllocStep, TryAlloc, LoadOff, CompareAndSwap, SliceBuf, LockSlow, ChooseSize,
       GrowFails, heap, held
<1>3. ASSUME ReclaimStep(g) PROVE taken' = taken /\ grown' = grown /\ active' = active /\ sps' = sps
  BY <1>1, <1>3 DEF ReclaimStep, Reset, Rewind, Rollback, BeginSweep, StoreOff, StoreActive, heap,
     held, Critical
<1>4. ASSUME SnapshotStep(g) PROVE taken' = taken /\ grown' = grown /\ active' = active /\ sps' = sps
  BY <1>1, <1>4 DEF SnapshotStep, Mark, Savepoint, SaveOff, SaveDone, heap, Critical
<1>5. ASSUME CloseStep(g) PROVE taken' = taken /\ grown' = grown /\ active' = active /\ sps' = sps
  BY <1>1, <1>5 DEF CloseStep, Close, CloseTake, Unmap, ClearChunk, heap, held
<1> QED
  BY <1>2, <1>3, <1>4, <1>5

(***************************************************************************)
(* While another goroutine reclaims, a step leaves list and ranges alone.  *)
(***************************************************************************)
LEMMA ReclaimsAlone ==
  ASSUME ClientSync, TypeOK, LocalsInv, SyncInv, NEW g \in Goroutines, NEW h \in Goroutines, h # g,
         pc[h] \in Reclaiming, AllocStep(g) \/ ReclaimStep(g) \/ SnapshotStep(g) \/ CloseStep(g)
  PROVE  taken' = taken /\ grown' = grown /\ live' = live
<1>1. pc[g] = "idle" /\ pc[h] # "idle"
  BY DEF SyncInv, Reclaiming
<1>2. ~AllocStep(g)
  BY <1>1 DEF AllocStep, TryAlloc, MayUse, LoadOff, CompareAndSwap, SliceBuf, LockSlow, ChooseSize,
     GrowChunk, GrowFails
<1>3. ~ReclaimStep(g)
  BY <1>1 DEF ReclaimStep, Reset, Rewind, Rollback, BeginSweep, MayReclaim, StoreOff, StoreActive
<1>4. ~CloseStep(g)
  BY <1>1 DEF CloseStep, Close, CloseTake, Unmap, ClearChunk
<1>5. ASSUME SnapshotStep(g) PROVE taken' = taken /\ grown' = grown /\ live' = live
  BY <1>5 DEF SnapshotStep, Mark, Savepoint, SaveOff, SaveDone, heap, ghost
<1> QED
  BY <1>2, <1>3, <1>4, <1>5

----------------------------------------------------------------------------
(* Rewind and Rollback keep what is older *)

AgeGlobal == LiveLow /\ DatesInv /\ YoungInv /\ SavedDates

AgeAt(g) == ActiveAt(g) /\ SavingAt(g) /\ SweepAt(g) /\ TodoAt(g)

LEMMA AgeQuiet ==
  ASSUME AgeGlobal, live' \subseteq live, UNCHANGED <<taken, grown, clock, active, marks, sps>>,
         NEW g \in Goroutines, Elsewhere(g), ~(pc[g] = "slice" /\ loc[g].ctx = "scan")
  PROVE  AgeGlobal'
<1>0. /\ taken' = taken /\ grown' = grown /\ clock' = clock /\ active' = active
      /\ marks' = marks /\ sps' = sps
  OBVIOUS
<1>1. LiveLow'
  <2> SUFFICES ASSUME NEW r \in live, r.chunk > taken
               PROVE  \/ r.chunk <= active
                      \/ \E h \in Goroutines : pc'[h] = "slice" /\ loc'[h].ctx = "scan"
                                               /\ r.chunk <= loc'[h].cur
    BY <1>0 DEF LiveLow
  <2>1. CASE r.chunk <= active
    BY <2>1
  <2>2. ASSUME NEW h \in Goroutines, pc[h] = "slice", loc[h].ctx = "scan", r.chunk <= loc[h].cur
        PROVE  pc'[h] = "slice" /\ loc'[h].ctx = "scan" /\ r.chunk <= loc'[h].cur
    BY <2>2 DEF Elsewhere
  <2> QED
    BY <2>1, <2>2 DEF AgeGlobal, LiveLow
<1>2. DatesInv'
  BY <1>0 DEF AgeGlobal, DatesInv
<1>3. YoungInv'
  BY <1>0 DEF AgeGlobal, YoungInv
<1>4. SavedDates'
  BY <1>0 DEF AgeGlobal, SavedDates
<1> QED
  BY <1>1, <1>2, <1>3, <1>4 DEF AgeGlobal

(***************************************************************************)
(* What the others know stays true: the active chunk moves up, or its      *)
(* owner runs alone.                                                       *)
(***************************************************************************)
LEMMA AgeOthers ==
  ASSUME ClientSync, TypeOK, TypeOK', LocalsInv, MutexInv, SyncInv, NEW g \in Goroutines,
         AllocStep(g) \/ ReclaimStep(g) \/ SnapshotStep(g) \/ CloseStep(g),
         active' >= active \/ pc[g] \in Reclaiming,
         NEW h \in Goroutines, h # g, AgeAt(h)
  PROVE  AgeAt(h)'
<1>1. pc'[h] = pc[h] /\ loc'[h] = loc[h] /\ sweep'[h] = sweep[h]
  BY OthersUntouched, GoroutineTypes DEF Elsewhere
<1>2. Critical(h) => taken' = taken /\ grown' = grown /\ active' = active /\ sps' = sps
  BY HeldStep
<1>3. pc[h] \in Reclaiming => taken' = taken /\ grown' = grown /\ live' = live
  BY ReclaimsAlone
<1>4. ActiveAt(h)'
  <2> SUFFICES ASSUME pc[h] \in Trying
               PROVE  /\ loc[h].ctx = "fast" => loc[h].cur <= active'
                      /\ loc[h].ctx \in {"retry", "fresh"} => loc[h].cur = active'
                      /\ loc[h].ctx = "scan" => loc[h].cur > active'
    BY <1>1 DEF ActiveAt
  <2>1. loc[h].ctx # "fast" => active' = active
    BY <1>2 DEF Critical
  <2>2. active' >= active
    BY DEF SyncInv, Trying
  <2>3. active \in Nat /\ active' \in Nat /\ loc[h].cur \in Nat
    BY GoroutineTypes, HeapNumbers, LocalFields DEF TypeOK, HeapTypeOK
  <2> QED
    BY <2>1, <2>2, <2>3 DEF AgeAt, ActiveAt
<1>5. SavingAt(h)'
  <2> SUFFICES ASSUME pc[h] = "save" PROVE SavingAt(h)'
    BY <1>1 DEF SavingAt
  <2>1. taken' = taken /\ grown' = grown /\ active' = active /\ sps' = sps
    BY <1>2 DEF Critical
  <2> QED
    BY <1>1, <2>1 DEF AgeAt, SavingAt, Chunks, NumChunks
<1>6. SweepAt(h)' /\ TodoAt(h)'
  <2> SUFFICES ASSUME pc[h] = "sweep" PROVE SweepAt(h)' /\ TodoAt(h)'
    BY <1>1 DEF SweepAt, TodoAt
  <2>1. taken' = taken /\ grown' = grown /\ live' = live
    BY <1>3 DEF Reclaiming
  <2>2. SweepAt(h)'
    BY <1>1, <2>1 DEF AgeAt, SweepAt
  <2>3. TodoAt(h)'
    BY <1>1, <2>1 DEF AgeAt, TodoAt, Chunks
  <2> QED
    BY <2>2, <2>3
<1> QED
  BY <1>4, <1>5, <1>6 DEF AgeAt

(***************************************************************************)
(* A claim of the fast path or of allocSlow is younger than every mark.    *)
(***************************************************************************)
LEMMA AgeClaim ==
  ASSUME TypeOK, AgeGlobal, NEW g \in Goroutines, Elsewhere(g), ActiveAt(g),
         pc[g] = "cas", pc'[g] = "slice", loc'[g] = loc[g], loc[g].cur \in 1..grown,
         NEW q, live' = live \cup {q}, q.chunk = loc[g].cur, q.at = clock + 1, clock' = clock + 1,
         UNCHANGED <<taken, grown, active, marks, sps>>
  PROVE  AgeGlobal'
<1>0. /\ taken' = taken /\ grown' = grown /\ clock' = clock + 1 /\ active' = active
      /\ marks' = marks /\ sps' = sps
  OBVIOUS
<1>t. /\ clock \in Nat /\ grown \in Nat /\ loc[g].cur \in Nat
      /\ \A s \in Slots : marks[s].stamp \in Nat /\ sps[s].since \in Nat
      /\ \A s \in Slots : \A i \in ChunkId : sps[s].stamp[i] \in Nat
  BY AgeTypes
<1>c. loc[g].ctx \in {"fast", "retry", "scan", "fresh"} /\ active \in Nat
  BY AgeTypes, GoroutineTypes, LocalFields
<1>1. LiveLow'
  <2> SUFFICES ASSUME NEW r \in live', r.chunk > taken
               PROVE  \/ r.chunk <= active
                      \/ \E h \in Goroutines : pc'[h] = "slice" /\ loc'[h].ctx = "scan"
                                               /\ r.chunk <= loc'[h].cur
    BY <1>0 DEF LiveLow
  <2>1. CASE r = q
    <3>1. CASE loc[g].ctx = "scan"
      BY <1>t, <2>1, <3>1
    <3>2. CASE loc[g].ctx # "scan"
      BY <1>c, <1>t, <2>1, <3>2 DEF ActiveAt, Trying
    <3> QED
      BY <3>1, <3>2
  <2>2. CASE r \in live
    <3>1. CASE r.chunk <= active
      BY <3>1
    <3>2. ASSUME NEW h \in Goroutines, pc[h] = "slice", loc[h].ctx = "scan",
                 r.chunk <= loc[h].cur
          PROVE  pc'[h] = "slice" /\ loc'[h].ctx = "scan" /\ r.chunk <= loc'[h].cur
      BY <3>2 DEF Elsewhere
    <3> QED
      BY <2>2, <3>1, <3>2 DEF AgeGlobal, LiveLow
  <2> QED
    BY <2>1, <2>2
<1>2. DatesInv'
  <2>1. \A r \in live' : r.chunk <= grown /\ r.at >= 1
    BY <1>t DEF AgeGlobal, DatesInv
  <2>2. \A s \in Slots : marks[s].stamp <= clock + 1 /\ sps[s].since <= clock + 1
    BY <1>t DEF AgeGlobal, DatesInv
  <2>3. \A s \in Slots : \A i \in ChunkId : sps[s].stamp[i] <= clock + 1
    BY <1>t DEF AgeGlobal, DatesInv
  <2> QED
    BY <1>0, <2>1, <2>2, <2>3 DEF DatesInv
<1>3. YoungInv'
  <2> SUFFICES ASSUME NEW r \in live', NEW s \in Slots
               PROVE  /\ r.chunk > taken + marks[s].idx => r.at > marks[s].stamp
                      /\ r.chunk > taken + sps[s].n => r.at > sps[s].since
                      /\ \A i \in ChunkId : r.chunk = taken + i /\ i > sps[s].active =>
                           r.at > sps[s].stamp[i]
    BY <1>0 DEF YoungInv
  <2>1. CASE r = q
    BY <1>t, <2>1 DEF AgeGlobal, DatesInv
  <2>2. CASE r \in live
    BY <2>2 DEF AgeGlobal, YoungInv
  <2> QED
    BY <2>1, <2>2
<1>4. SavedDates'
  BY <1>0 DEF AgeGlobal, SavedDates
<1> QED
  BY <1>1, <1>2, <1>3, <1>4 DEF AgeGlobal

(***************************************************************************)
(* The goroutine that has claimed a range in a later chunk makes that      *)
(* chunk the active one; a new chunk is active from the start.             *)
(***************************************************************************)
LEMMA AgeMoveUp ==
  ASSUME TypeOK, AgeGlobal, NEW g \in Goroutines,
         live' = live, clock' = clock, UNCHANGED <<taken, marks, sps>>,
         grown' \in Nat, grown' >= grown,
         \A r \in live : r.chunk > taken => r.chunk <= active'
  PROVE  AgeGlobal'
<1>0. /\ taken' = taken /\ live' = live /\ clock' = clock /\ marks' = marks /\ sps' = sps
  OBVIOUS
<1>t. grown \in Nat /\ \A r \in live : r.chunk \in Nat
  BY AgeTypes
<1>1. LiveLow'
  BY <1>0 DEF LiveLow
<1>2. DatesInv'
  <2>1. \A r \in live : r.chunk <= grown' /\ r.at >= 1
    BY <1>t DEF AgeGlobal, DatesInv
  <2> QED
    BY <1>0, <2>1 DEF AgeGlobal, DatesInv
<1>3. YoungInv' /\ SavedDates'
  BY <1>0 DEF AgeGlobal, YoungInv, SavedDates
<1> QED
  BY <1>1, <1>2, <1>3 DEF AgeGlobal

LEMMA AgeAlloc ==
  ASSUME TypeOK, TypeOK', LocalsInv, MutexInv, ListInv, SyncInv, AgeGlobal, NEW g \in Goroutines,
         AgeAt(g), AllocStep(g)
  PROVE  AgeGlobal' /\ AgeAt(g)' /\ active' >= active
<1>e. Elsewhere(g)
  BY OthersUntouched, GoroutineTypes
<1>t. /\ active \in Nat /\ grown \in Nat /\ taken \in Nat /\ loc[g].cur \in Nat
      /\ loc[g].ctx \in {"fast", "retry", "scan", "fresh"}
  BY AgeTypes, GoroutineTypes, LocalFields
<1>n. ASSUME pc'[g] \notin {"save", "sweep"} PROVE SavingAt(g)' /\ SweepAt(g)' /\ TodoAt(g)'
  BY <1>n DEF SavingAt, SweepAt, TodoAt
<1>q. ASSUME UNCHANGED <<heap, active, held, ghost>>, pc[g] # "slice" PROVE AgeGlobal' /\ active' >= active
  <2>1. UNCHANGED <<taken, grown, clock, active, marks, sps>> /\ live' \subseteq live
    BY <1>q DEF heap, held, ghost
  <2> QED
    BY <1>e, <1>q, <1>t, <2>1, AgeQuiet
<1>1. ASSUME NEW rq \in Requests, TryAlloc(g, rq) PROVE AgeGlobal' /\ AgeAt(g)' /\ active' >= active
  <2>1. AgeGlobal' /\ active' >= active /\ active' = active
    BY <1>1, <1>q, TryAllocEffect
  <2>2. ActiveAt(g)'
    BY <1>1, <1>t, <2>1, TryAllocEffect DEF ActiveAt, Trying
  <2>3. pc'[g] \notin {"save", "sweep"}
    BY <1>1, TryAllocEffect
  <2> QED
    BY <1>n, <2>1, <2>2, <2>3 DEF AgeAt
<1>2. ASSUME LoadOff(g) PROVE AgeGlobal' /\ AgeAt(g)' /\ active' >= active
  <2>1. AgeGlobal' /\ active' >= active /\ active' = active
    BY <1>2, <1>q, LoadOffEffect
  <2>2. ActiveAt(g)'
    <3>1. ActiveAt(g) /\ pc[g] \in Trying
      BY <1>2, LoadOffEffect DEF AgeAt, Trying
    <3>2. CASE pc'[g] = "cas" /\ loc'[g].cur = loc[g].cur /\ loc'[g].ctx = loc[g].ctx
      BY <2>1, <3>1, <3>2 DEF ActiveAt
    <3>3. CASE /\ loc[g].ctx \in {"retry", "scan"}
               /\ loc'[g].cur = loc[g].cur + 1 /\ loc'[g].ctx = "scan"
      <4>1. loc[g].cur + 1 > active
        BY <1>t, <3>1, <3>3 DEF ActiveAt
      <4> QED
        BY <2>1, <3>3, <4>1 DEF ActiveAt
    <3>4. CASE pc'[g] \in {"lock", "size", "idle"}
      BY <3>4 DEF ActiveAt, Trying
    <3> QED
      BY <1>2, <3>2, <3>3, <3>4, LoadOffEffect
  <2>3. pc'[g] \notin {"save", "sweep"}
    BY <1>2, LoadOffEffect
  <2> QED
    BY <1>n, <2>1, <2>2, <2>3 DEF AgeAt
<1>3. ASSUME CompareAndSwap(g) PROVE AgeGlobal' /\ AgeAt(g)' /\ active' >= active
  <2>1. /\ pc[g] = "cas" /\ loc'[g] = loc[g] /\ loc[g].cur \in 1..grown
        /\ UNCHANGED <<taken, grown, active, marks, sps>>
    BY <1>3, CompareAndSwapEffect DEF heap, held
  <2>2. pc'[g] \in {"slice", "try"}
    BY <1>3, CompareAndSwapEffect
  <2>3. AgeGlobal'
    <3>1. CASE live' = live /\ clock' = clock
      BY <1>e, <2>1, <3>1, AgeQuiet
    <3>2. CASE /\ pc'[g] = "slice" /\ clock' = clock + 1
               /\ live' = live \cup {[chunk |-> loc[g].cur, lo |-> loc[g].lo,
                                      hi |-> loc[g].hi, at |-> clock + 1,
                                      align |-> loc[g].req.align]}
      <4> DEFINE q == [chunk |-> loc[g].cur, lo |-> loc[g].lo, hi |-> loc[g].hi,
                       at |-> clock + 1, align |-> loc[g].req.align]
      <4>1. live' = live \cup {q} /\ q.chunk = loc[g].cur /\ q.at = clock + 1
        BY <3>2
      <4>2. ActiveAt(g)
        BY DEF AgeAt
      <4> HIDE DEF q
      <4> QED
        BY <1>e, <2>1, <3>2, <4>1, <4>2, AgeClaim
    <3> QED
      BY <1>3, <3>1, <3>2, CompareAndSwapEffect
  <2>4. ActiveAt(g)'
    BY <2>1 DEF AgeAt, ActiveAt, Trying
  <2> QED
    BY <1>n, <1>t, <2>1, <2>2, <2>3, <2>4 DEF AgeAt
<1>4. ASSUME SliceBuf(g) PROVE AgeGlobal' /\ AgeAt(g)' /\ active' >= active
  <2>1. /\ pc[g] = "slice" /\ pc'[g] = "idle"
        /\ UNCHANGED <<taken, grown, marks, sps, live, clock>>
    BY <1>4, SliceBufEffect DEF heap, held, ghost
  <2>2. loc[g].hi <= cap[loc[g].cur]
    BY <2>1 DEF SyncInv, ListInv, ListAt, Trying
  <2>3. CASE loc[g].ctx # "scan"
    <3>1. active' = active
      BY <1>4, <2>3, SliceBufEffect
    <3>2. AgeGlobal'
      BY <1>e, <2>1, <2>3, <3>1, AgeQuiet
    <3> QED
      BY <1>n, <1>t, <2>1, <3>1, <3>2 DEF AgeAt, ActiveAt, Trying
  <2>4. CASE loc[g].ctx = "scan"
    <3>1. active' = loc[g].cur /\ active' > active
      BY <1>4, <2>1, <2>2, <2>4, SliceBufEffect DEF AgeAt, ActiveAt, Trying
    <3>2. ASSUME NEW r \in live, r.chunk > taken PROVE r.chunk <= active'
      <4>1. CASE r.chunk <= active
        BY <1>t, <3>1, <4>1, AgeTypes
      <4>2. ASSUME NEW h \in Goroutines, pc[h] = "slice", loc[h].ctx = "scan",
                   r.chunk <= loc[h].cur
            PROVE  r.chunk <= active'
        BY <2>1, <2>4, <3>1, <4>2, Slicing, OneInside
      <4> QED
        BY <3>2, <4>1, <4>2 DEF AgeGlobal, LiveLow
    <3>3. AgeGlobal'
      BY <1>t, <2>1, <3>2, AgeMoveUp
    <3> QED
      BY <1>n, <1>t, <2>1, <3>1, <3>3 DEF AgeAt, ActiveAt, Trying
  <2> QED
    BY <2>3, <2>4
<1>5. ASSUME LockSlow(g) PROVE AgeGlobal' /\ AgeAt(g)' /\ active' >= active
  <2>1. AgeGlobal' /\ active' >= active /\ active' = active
    BY <1>5, <1>q, LockSlowEffect
  <2>2. ActiveAt(g)'
    BY <1>5, <1>t, <2>1, LockSlowEffect DEF ActiveAt, Trying
  <2>3. pc'[g] \notin {"save", "sweep"}
    BY <1>5, LockSlowEffect
  <2> QED
    BY <1>n, <2>1, <2>2, <2>3 DEF AgeAt
<1>6. ASSUME ChooseSize(g) \/ GrowFails(g) PROVE AgeGlobal' /\ AgeAt(g)' /\ active' >= active
  <2>1. AgeGlobal' /\ active' >= active
    BY <1>6, <1>q, ChooseSizeEffect, GrowFailsEffect
  <2>2. pc'[g] \in {"idle", "map"}
    BY <1>6, ChooseSizeEffect, GrowFailsEffect
  <2> QED
    BY <1>n, <2>1, <2>2 DEF AgeAt, ActiveAt, Trying
<1>7. ASSUME GrowChunk(g) PROVE AgeGlobal' /\ AgeAt(g)' /\ active' >= active
  <2>1. /\ pc'[g] = "try" /\ grown' = grown + 1 /\ active' = grown + 1
        /\ loc'[g].cur = grown + 1 /\ loc'[g].ctx = "fresh"
        /\ UNCHANGED <<taken, marks, sps, live, clock>>
    BY <1>7, GrowChunkEffect DEF held, ghost
  <2>2. \A r \in live : r.chunk <= grown + 1
    BY <1>t, AgeTypes DEF AgeGlobal, DatesInv
  <2>3. AgeGlobal'
    BY <1>t, <2>1, <2>2, AgeMoveUp
  <2>4. ActiveAt(g)'
    BY <2>1 DEF ActiveAt
  <2>5. active' >= active
    BY <1>t, <2>1 DEF ListInv, Listed, Chunks, Nil
  <2> QED
    BY <1>n, <2>1, <2>3, <2>4, <2>5 DEF AgeAt
<1> QED
  BY <1>1, <1>2, <1>3, <1>4, <1>5, <1>6, <1>7 DEF AllocStep

(***************************************************************************)
(* A sweep begins with a plan that takes back only what is younger.        *)
(***************************************************************************)
LEMMA ResetKeeps ==
  ASSUME TypeOK, ListInv, AgeGlobal, NEW g \in Goroutines, Reset(g)
  PROVE  /\ \A r \in live : r.chunk > taken =>
              /\ \A j \in 1..Len(sweep'[g].todo) :
                   sweep'[g].todo[j] = r.chunk /\ r.at > sweep'[g].stamp[r.chunk] =>
                     r.at > sweep'[g].since
              /\ r.chunk > sweep'[g].active =>
                   /\ r.at > sweep'[g].stamp[r.chunk]
                   /\ \E j \in 1..Len(sweep'[g].todo) : sweep'[g].todo[j] = r.chunk
         /\ \A j \in 1..Len(sweep'[g].todo) : sweep'[g].todo[j] \in Chunks
<1>1. sweep'[g].todo = InOrder /\ sweep'[g].stamp = Zeroes /\ sweep'[g].since = 0
  BY ResetPlan
<1>2. \A r \in live : r.chunk \in ChunkId /\ r.at >= 1 /\ r.at \in Nat
  BY AgeTypes DEF AgeGlobal, DatesInv
<1>3. \A r \in live : r.chunk > taken => r.chunk \in Chunks
  BY AgeTypes DEF AgeGlobal, DatesInv, Chunks
<1>4. \A c \in ChunkId : Zeroes[c] = 0
  BY DEF Zeroes
<1>5. ASSUME NEW r \in live, r.chunk > taken
      PROVE  \E j \in 1..Len(InOrder) : InOrder[j] = r.chunk
  BY <1>3, <1>5, InOrderElements
<1>6. \A j \in 1..Len(InOrder) : InOrder[j] \in Chunks
  BY InOrderElements
<1> QED
  BY <1>1, <1>2, <1>4, <1>5, <1>6

LEMMA RewindVisits ==
  ASSUME TypeOK, ListInv, NEW g \in Goroutines, NEW s \in Slots, Rewind(g, s)
  PROVE  LET target == taken + marks[s].idx
             q == sweep'[g].todo
         IN /\ target \in Nat /\ target <= grown /\ target > taken
            /\ \A j \in 1..Len(q) : q[j] \in target..grown /\ q[j] \in Chunks
            /\ \A c \in target..grown : \E j \in 1..Len(q) : q[j] = c
<1> DEFINE target == taken + marks[s].idx
           q == sweep'[g].todo
<1>1. q = Append([i \in 1..(grown - target) |-> target + i], target)
  BY RewindPlan
<1>2. target \in Chunks
  BY RewindPlan
<1>3. taken \in Nat /\ grown \in Nat
  BY AgeTypes
<1> HIDE DEF target, q
<1>4. target \in Nat /\ target <= grown /\ target > taken
  BY <1>2, <1>3 DEF Chunks
<1>5. /\ \A j \in 1..Len(q) : q[j] \in target..grown
      /\ \A c \in target..grown : \E j \in 1..Len(q) : q[j] = c
  <2>1. \A n, t \in Nat : t <= n =>
          LET p == Append([i \in 1..(n - t) |-> t + i], t)
          IN /\ \A j \in 1..Len(p) : p[j] \in t..n
             /\ \A c \in t..n : \E j \in 1..Len(p) : p[j] = c
    BY RewindOrder
  <2> QED
    BY <1>1, <1>3, <1>4, <2>1
<1>6. \A j \in 1..Len(q) : q[j] \in Chunks
  BY <1>3, <1>4, <1>5 DEF Chunks
<1> QED
  BY <1>4, <1>5, <1>6 DEF target, q

LEMMA RewindKeeps ==
  ASSUME TypeOK, ListInv, AgeGlobal, NEW g \in Goroutines, NEW s \in Slots, Rewind(g, s)
  PROVE  /\ \A r \in live : r.chunk > taken =>
              /\ \A j \in 1..Len(sweep'[g].todo) :
                   sweep'[g].todo[j] = r.chunk /\ r.at > sweep'[g].stamp[r.chunk] =>
                     r.at > sweep'[g].since
              /\ r.chunk > sweep'[g].active =>
                   /\ r.at > sweep'[g].stamp[r.chunk]
                   /\ \E j \in 1..Len(sweep'[g].todo) : sweep'[g].todo[j] = r.chunk
         /\ \A j \in 1..Len(sweep'[g].todo) : sweep'[g].todo[j] \in Chunks
<1> DEFINE target == taken + marks[s].idx
           q == sweep'[g].todo
<1>1. /\ target \in Chunks
      /\ \A c \in ChunkId : sweep'[g].stamp[c] = IF c = target THEN marks[s].stamp ELSE 0
      /\ sweep'[g].since = marks[s].stamp
      /\ sweep'[g].active = target
  BY RewindPlan
<1>2. /\ taken \in Nat /\ grown \in Nat /\ marks[s].idx \in Nat
      /\ \A r \in live : r.chunk \in ChunkId /\ r.chunk \in Nat /\ r.at \in Nat
  BY AgeTypes
<1>3. \A r \in live : r.chunk <= grown /\ r.at >= 1
  BY DEF AgeGlobal, DatesInv
<1>4. \A r \in live : r.chunk > target => r.at > marks[s].stamp
  BY DEF AgeGlobal, YoungInv
<1>5. target \in Nat /\ target <= grown /\ target > taken
  BY RewindVisits
<1>6. /\ \A j \in 1..Len(q) : q[j] \in target..grown
      /\ \A c \in target..grown : \E j \in 1..Len(q) : q[j] = c
  BY RewindVisits
<1> HIDE DEF target, q
<1>7. ASSUME NEW r \in live, NEW j \in 1..Len(q), q[j] = r.chunk, r.at > sweep'[g].stamp[r.chunk]
      PROVE  r.at > sweep'[g].since
  <2>1. r.chunk = target \/ r.chunk > target
    BY <1>2, <1>5, <1>6, <1>7
  <2> QED
    BY <1>1, <1>2, <1>4, <1>7, <2>1
<1>8. ASSUME NEW r \in live, r.chunk > target
      PROVE  r.at > sweep'[g].stamp[r.chunk] /\ \E j \in 1..Len(q) : q[j] = r.chunk
  <2>1. r.chunk # target /\ r.chunk \in target..grown
    BY <1>2, <1>3, <1>5, <1>8
  <2> QED
    BY <1>1, <1>2, <1>3, <1>6, <2>1, SMTT(30)
<1>9. \A j \in 1..Len(q) : q[j] \in Chunks
  BY RewindVisits DEF q
<1> QED
  BY <1>1, <1>7, <1>8, <1>9 DEF q

LEMMA RollbackKeeps ==
  ASSUME TypeOK, MutexInv, ListInv, AgeGlobal, NEW g \in Goroutines, NEW s \in Slots,
         Rollback(g, s)
  PROVE  /\ \A r \in live : r.chunk > taken =>
              /\ \A j \in 1..Len(sweep'[g].todo) :
                   sweep'[g].todo[j] = r.chunk /\ r.at > sweep'[g].stamp[r.chunk] =>
                     r.at > sweep'[g].since
              /\ r.chunk > sweep'[g].active =>
                   /\ r.at > sweep'[g].stamp[r.chunk]
                   /\ \E j \in 1..Len(sweep'[g].todo) : sweep'[g].todo[j] = r.chunk
         /\ \A j \in 1..Len(sweep'[g].todo) : sweep'[g].todo[j] \in Chunks
<1> DEFINE sp == sps[s]
<1>1. /\ sp.state = "valid" /\ sp.n <= NumChunks /\ sp.n \in Nat
      /\ sweep'[g].todo = InOrder
      /\ sweep'[g].since = sp.since
      /\ sweep'[g].active = IF sp.active <= NumChunks THEN taken + sp.active ELSE active
  BY RollbackPlan
<1>s. \A c \in ChunkId :
        /\ c - taken \in 1..sp.n => c - taken \in ChunkId
        /\ sweep'[g].stamp[c] = IF c - taken \in 1..sp.n THEN sp.stamp[c - taken] ELSE 0
  BY RollbackPlan
<1>2. /\ taken \in Nat /\ grown \in Nat /\ active \in Nat /\ sp.active \in Nat /\ sp.since \in Nat
      /\ \A i \in ChunkId : sp.stamp[i] \in Nat
      /\ \A r \in live : r.chunk \in ChunkId /\ r.chunk \in Nat /\ r.at \in Nat
  BY AgeTypes
<1>3. \A r \in live : r.chunk <= grown /\ r.at >= 1
  BY DEF AgeGlobal, DatesInv
<1>4. mu = NoOne
  BY RollbackPlan, BeginSweepEffect
<1>5. \A r \in live : r.chunk > taken => r.chunk <= active
  BY <1>4, LowWhenLocked DEF AgeGlobal
<1>y. \A r \in live :
        /\ r.chunk > taken + sp.n => r.at > sp.since
        /\ \A i \in ChunkId : r.chunk = taken + i /\ i > sp.active => r.at > sp.stamp[i]
  BY DEF AgeGlobal, YoungInv
<1>v. \A i \in ChunkId : i <= sp.n => sp.stamp[i] >= sp.since
  BY <1>1 DEF AgeGlobal, SavedDates
<1>6. /\ \A j \in 1..Len(InOrder) : InOrder[j] \in Chunks
      /\ \A c \in Chunks : \E j \in 1..Len(InOrder) : InOrder[j] = c
  BY InOrderElements
<1> HIDE DEF sp
<1>7. ASSUME NEW r \in live, r.chunk > taken, r.at > sweep'[g].stamp[r.chunk]
      PROVE  r.at > sp.since
  <2> DEFINE i == r.chunk - taken
  <2>1. CASE i \in 1..sp.n
    <3>1. i \in ChunkId /\ sweep'[g].stamp[r.chunk] = sp.stamp[i] /\ sp.stamp[i] >= sp.since
      BY <1>1, <1>2, <1>s, <1>v, <2>1
    <3> QED
      BY <1>2, <1>7, <3>1
  <2>2. CASE i \notin 1..sp.n
    <3>1. r.chunk > taken + sp.n
      BY <1>1, <1>2, <1>7, <2>2
    <3> QED
      BY <1>y, <3>1
  <2> QED
    BY <2>1, <2>2
<1>8. ASSUME NEW r \in live, r.chunk > taken, r.chunk > sweep'[g].active
      PROVE  r.at > sweep'[g].stamp[r.chunk]
  <2> DEFINE i == r.chunk - taken
  <2>1. sweep'[g].active = taken + sp.active
    BY <1>1, <1>2, <1>5, <1>8
  <2>2. i \in Nat /\ i > sp.active /\ r.chunk = taken + i
    BY <1>2, <1>8, <2>1
  <2>3. CASE i \in 1..sp.n
    BY <1>2, <1>s, <1>y, <2>2, <2>3
  <2>4. CASE i \notin 1..sp.n
    BY <1>2, <1>3, <1>s, <2>4
  <2> QED
    BY <2>3, <2>4
<1>9. \A r \in live : r.chunk > taken => r.chunk \in Chunks
  BY <1>2, <1>3 DEF Chunks
<1> QED
  BY <1>1, <1>6, <1>7, <1>8, <1>9

LEMMA AgeReclaim ==
  ASSUME TypeOK, TypeOK', LocalsInv, MutexInv, ListInv, SyncInv, AgeGlobal, NEW g \in Goroutines,
         AgeAt(g), ReclaimStep(g)
  PROVE  AgeGlobal' /\ AgeAt(g)' /\ (active' >= active \/ pc[g] \in Reclaiming)
<1>e. Elsewhere(g)
  BY OthersUntouched, GoroutineTypes
<1>t. active \in Nat /\ grown \in Nat /\ taken \in Nat
  BY AgeTypes
<1>b. ASSUME NEW plan, BeginSweep(g, plan),
             \A r \in live : r.chunk > taken =>
               /\ \A j \in 1..Len(sweep'[g].todo) :
                    sweep'[g].todo[j] = r.chunk /\ r.at > sweep'[g].stamp[r.chunk] =>
                      r.at > sweep'[g].since
               /\ r.chunk > sweep'[g].active =>
                    /\ r.at > sweep'[g].stamp[r.chunk]
                    /\ \E j \in 1..Len(sweep'[g].todo) : sweep'[g].todo[j] = r.chunk,
             \A j \in 1..Len(sweep'[g].todo) : sweep'[g].todo[j] \in Chunks
      PROVE  AgeGlobal' /\ AgeAt(g)' /\ active' >= active
  <2>1. /\ pc[g] = "idle" /\ pc'[g] = "sweep"
        /\ taken' = taken /\ grown' = grown /\ active' = active /\ live' = live
        /\ clock' = clock /\ marks' = marks /\ sps' = sps
    BY <1>b, BeginSweepEffect DEF heap, held, ghost
  <2>2. AgeGlobal'
    BY <1>e, <2>1, AgeQuiet
  <2>3. ActiveAt(g)' /\ SavingAt(g)'
    BY <2>1 DEF ActiveAt, SavingAt, Trying
  <2>4. SweepAt(g)'
    BY <1>b, <2>1 DEF SweepAt
  <2>5. TodoAt(g)'
    BY <1>b, <2>1 DEF TodoAt, Chunks
  <2> QED
    BY <1>t, <2>1, <2>2, <2>3, <2>4, <2>5 DEF AgeAt
<1>1. ASSUME Reset(g) PROVE AgeGlobal' /\ AgeAt(g)' /\ active' >= active
  <2>1. PICK plan : BeginSweep(g, plan)
    BY <1>1, ResetPlan
  <2> QED
    BY <1>1, <1>b, <2>1, ResetKeeps
<1>2. ASSUME NEW s \in Slots, Rewind(g, s) PROVE AgeGlobal' /\ AgeAt(g)' /\ active' >= active
  <2>1. PICK plan : BeginSweep(g, plan)
    BY <1>2, RewindPlan
  <2> QED
    BY <1>2, <1>b, <2>1, RewindKeeps
<1>3. ASSUME NEW s \in Slots, Rollback(g, s) PROVE AgeGlobal' /\ AgeAt(g)' /\ active' >= active
  <2>1. PICK plan : BeginSweep(g, plan)
    BY <1>3, RollbackPlan
  <2> QED
    BY <1>3, <1>b, <2>1, RollbackKeeps
<1>4. ASSUME StoreOff(g) PROVE AgeGlobal' /\ AgeAt(g)' /\ pc[g] \in Reclaiming
  <2> DEFINE w == sweep[g]
             c == Head(w.todo)
  <2>1. /\ pc[g] = "sweep" /\ pc' = pc /\ w.todo # <<>>
        /\ live' = {r \in live : r.chunk = c => r.at <= w.stamp[c]}
        /\ sweep'[g].todo = Tail(w.todo)
        /\ sweep'[g].stamp = w.stamp /\ sweep'[g].since = w.since /\ sweep'[g].active = w.active
        /\ UNCHANGED <<taken, grown, clock, active, marks, sps>>
    BY <1>4, StoreOffEffect DEF heap, held
  <2>2. AgeGlobal'
    BY <1>e, <2>1, AgeQuiet
  <2>3. ActiveAt(g)' /\ SavingAt(g)'
    BY <2>1 DEF ActiveAt, SavingAt, Trying
  <2>4. /\ w.todo \in Seq(ChunkId) /\ w.stamp \in [ChunkId -> Nat]
        /\ \A r \in live : r.chunk \in ChunkId /\ r.at \in Nat
    BY AgeTypes, GoroutineTypes, SweepFields
  <2>5. /\ Len(w.todo) \in Nat /\ Len(w.todo) >= 1 /\ c = w.todo[1]
        /\ Len(Tail(w.todo)) = Len(w.todo) - 1
        /\ \A j \in 1..(Len(w.todo) - 1) : Tail(w.todo)[j] = w.todo[j + 1]
    BY <2>1, <2>4
  <2>6. /\ \A r \in live : r.chunk > taken =>
             /\ \A j \in 1..Len(w.todo) :
                  w.todo[j] = r.chunk /\ r.at > w.stamp[r.chunk] => r.at > w.since
             /\ r.chunk > w.active =>
                  r.at > w.stamp[r.chunk] /\ \E j \in 1..Len(w.todo) : w.todo[j] = r.chunk
        /\ \A j \in 1..Len(w.todo) : w.todo[j] \in Chunks
    BY <2>1 DEF AgeAt, SweepAt, TodoAt
  <2> HIDE DEF w, c
  <2>7. SweepAt(g)'
    <3> SUFFICES ASSUME NEW r \in live', r.chunk > taken
                 PROVE  /\ \A j \in 1..Len(Tail(w.todo)) :
                             Tail(w.todo)[j] = r.chunk /\ r.at > w.stamp[r.chunk] => r.at > w.since
                        /\ r.chunk > w.active =>
                             /\ r.at > w.stamp[r.chunk]
                             /\ \E j \in 1..Len(Tail(w.todo)) : Tail(w.todo)[j] = r.chunk
      BY <2>1 DEF SweepAt
    <3>1. r \in live /\ (r.chunk = c => r.at <= w.stamp[c])
      BY <2>1
    <3>2. \A j \in 1..(Len(w.todo) - 1) :
            w.todo[j + 1] = r.chunk /\ r.at > w.stamp[r.chunk] => r.at > w.since
      <4> SUFFICES ASSUME NEW j \in 1..(Len(w.todo) - 1)
                   PROVE  w.todo[j + 1] = r.chunk /\ r.at > w.stamp[r.chunk] => r.at > w.since
        OBVIOUS
      <4>1. j + 1 \in 1..Len(w.todo)
        BY <2>5
      <4> QED
        BY <2>6, <3>1, <4>1
    <3>3. ASSUME r.chunk > w.active
          PROVE  /\ r.at > w.stamp[r.chunk]
                 /\ \E j \in 1..(Len(w.todo) - 1) : w.todo[j + 1] = r.chunk
      <4>1. r.at > w.stamp[r.chunk]
        BY <2>6, <3>1, <3>3
      <4>2. PICK j \in 1..Len(w.todo) : w.todo[j] = r.chunk
        BY <2>6, <3>1, <3>3
      <4>3. r.chunk # c
        BY <2>4, <3>1, <4>1
      <4>4. j # 1
        BY <2>5, <4>2, <4>3
      <4>5. j - 1 \in 1..(Len(w.todo) - 1) /\ (j - 1) + 1 = j
        BY <2>5, <4>4
      <4> QED
        BY <4>1, <4>2, <4>5
    <3> QED
      BY <2>5, <3>2, <3>3
  <2>8. TodoAt(g)'
    <3> SUFFICES ASSUME NEW j \in 1..Len(Tail(w.todo)) PROVE Tail(w.todo)[j] \in Chunks
      BY <2>1 DEF TodoAt, Chunks
    <3>1. j + 1 \in 1..Len(w.todo) /\ Tail(w.todo)[j] = w.todo[j + 1]
      BY <2>5
    <3> QED
      BY <2>6, <3>1
  <2> QED
    BY <2>1, <2>2, <2>3, <2>7, <2>8 DEF AgeAt, Reclaiming
<1>5. ASSUME StoreActive(g) PROVE AgeGlobal' /\ AgeAt(g)' /\ pc[g] \in Reclaiming
  <2>1. /\ pc[g] = "sweep" /\ pc'[g] = "idle" /\ active' = sweep[g].active
        /\ sweep[g].todo = <<>> /\ UNCHANGED <<taken, grown, marks, sps, live, clock>>
    BY <1>5, StoreActiveEffect DEF heap, held, ghost
  <2>2. \A r \in live : r.chunk > taken => ~(r.chunk > sweep[g].active)
    BY <2>1 DEF AgeAt, SweepAt
  <2>3. sweep[g].active \in Nat /\ \A r \in live : r.chunk \in Nat
    BY AgeTypes, GoroutineTypes, SweepFields, ArenaAssumption
  <2>4. \A r \in live : r.chunk > taken => r.chunk <= active'
    BY <2>1, <2>2, <2>3
  <2>5. AgeGlobal'
    BY <1>t, <2>1, <2>4, AgeMoveUp
  <2> QED
    BY <2>1, <2>5 DEF AgeAt, ActiveAt, SavingAt, SweepAt, TodoAt, Trying, Reclaiming
<1> QED
  BY <1>1, <1>2, <1>3, <1>4, <1>5 DEF ReclaimStep

(***************************************************************************)
(* A new mark has nothing in use above it.                                 *)
(***************************************************************************)
LEMMA AgeMark ==
  ASSUME TypeOK, MutexInv, ListInv, AgeGlobal, NEW g \in Goroutines, Elsewhere(g),
         NEW s \in Slots, Mark(g, s)
  PROVE  AgeGlobal' /\ active' = active
<1>1. /\ mu = NoOne /\ marks'[s].stamp = clock
      /\ marks'[s].idx = IF NumChunks > 0 THEN MarkedChunk - taken ELSE 1
      /\ \A t \in Slots : t # s => marks'[t] = marks[t]
      /\ taken' = taken /\ grown' = grown /\ active' = active /\ live' = live
      /\ clock' = clock /\ sps' = sps /\ pc' = pc /\ loc' = loc
  BY MarkEffect DEF heap, ghost
<1>t. /\ active \in Nat /\ grown \in Nat /\ taken \in Nat /\ clock \in Nat
      /\ \A r \in live : r.chunk \in Nat
  BY AgeTypes
<1>2. \A r \in live : r.chunk > taken => r.chunk <= active
  BY <1>1, LowWhenLocked DEF AgeGlobal
<1>3. \A r \in live : ~(r.chunk > taken + marks'[s].idx)
  <2>1. \A r \in live : r.chunk <= grown
    BY DEF AgeGlobal, DatesInv
  <2>2. CASE NumChunks > 0
    <3>1. active \in Chunks
      BY <2>2, NonEmptyList, GoroutineTypes DEF ListInv, Listed
    <3>2. marks'[s].idx = active - taken
      BY <1>1, <2>2, <3>1 DEF MarkedChunk
    <3> QED
      BY <1>2, <1>t, <3>1, <3>2 DEF Chunks
  <2>3. CASE ~(NumChunks > 0)
    BY <1>1, <1>t, <2>1, <2>3 DEF NumChunks
  <2> QED
    BY <2>2, <2>3
<1>4. LiveLow'
  BY <1>1 DEF AgeGlobal, LiveLow
<1>5. DatesInv'
  BY <1>1, <1>t DEF AgeGlobal, DatesInv
<1>6. YoungInv'
  <2> SUFFICES ASSUME NEW r \in live, NEW t \in Slots
               PROVE  /\ r.chunk > taken + marks'[t].idx => r.at > marks'[t].stamp
                      /\ r.chunk > taken + sps[t].n => r.at > sps[t].since
                      /\ \A i \in ChunkId : r.chunk = taken + i /\ i > sps[t].active =>
                           r.at > sps[t].stamp[i]
    BY <1>1 DEF YoungInv
  <2>1. CASE t = s
    BY <1>3, <2>1 DEF AgeGlobal, YoungInv
  <2>2. CASE t # s
    BY <1>1, <2>2 DEF AgeGlobal, YoungInv
  <2> QED
    BY <2>1, <2>2
<1>7. SavedDates'
  BY <1>1 DEF AgeGlobal, SavedDates
<1> QED
  BY <1>1, <1>4, <1>5, <1>6, <1>7 DEF AgeGlobal

(***************************************************************************)
(* The steps of Savepoint change one slot.                                 *)
(***************************************************************************)
LEMMA AgeSave ==
  ASSUME TypeOK, AgeGlobal, NEW g \in Goroutines, Elsewhere(g), pc[g] # "slice", NEW s \in Slots,
         UNCHANGED <<taken, grown, active, live, clock, marks>>,
         \A t \in Slots : t # s => sps'[t] = sps[t],
         sps'[s].since <= clock, \A i \in ChunkId : sps'[s].stamp[i] <= clock,
         \A r \in live : /\ r.chunk > taken + sps'[s].n => r.at > sps'[s].since
                         /\ \A i \in ChunkId : r.chunk = taken + i /\ i > sps'[s].active =>
                              r.at > sps'[s].stamp[i],
         sps'[s].state = "valid" =>
           \A i \in ChunkId : i <= sps'[s].n => sps'[s].stamp[i] >= sps'[s].since
  PROVE  AgeGlobal'
<1>0. /\ taken' = taken /\ grown' = grown /\ clock' = clock /\ active' = active
      /\ marks' = marks /\ live' = live
  OBVIOUS
<1>1. LiveLow'
  <2>1. \A h \in Goroutines : pc[h] = "slice" => pc'[h] = pc[h] /\ loc'[h] = loc[h]
    BY DEF Elsewhere
  <2> QED
    BY <1>0, <2>1 DEF AgeGlobal, LiveLow
<1>2. DatesInv'
  BY <1>0 DEF AgeGlobal, DatesInv
<1>3. YoungInv'
  <2> SUFFICES ASSUME NEW r \in live, NEW t \in Slots
               PROVE  /\ r.chunk > taken + marks[t].idx => r.at > marks[t].stamp
                      /\ r.chunk > taken + sps'[t].n => r.at > sps'[t].since
                      /\ \A i \in ChunkId : r.chunk = taken + i /\ i > sps'[t].active =>
                           r.at > sps'[t].stamp[i]
    BY <1>0 DEF YoungInv
  <2>1. r.chunk > taken + marks[t].idx => r.at > marks[t].stamp
    BY DEF AgeGlobal, YoungInv
  <2>2. CASE t = s
    BY <2>1, <2>2
  <2>3. CASE t # s
    BY <2>1, <2>3 DEF AgeGlobal, YoungInv
  <2> QED
    BY <2>2, <2>3
<1>4. SavedDates'
  BY DEF AgeGlobal, SavedDates
<1> QED
  BY <1>1, <1>2, <1>3, <1>4 DEF AgeGlobal

LEMMA AgeSnapshot ==
  ASSUME TypeOK, TypeOK', LocalsInv, MutexInv, ListInv, SyncInv, AgeGlobal, NEW g \in Goroutines,
         AgeAt(g), SnapshotStep(g)
  PROVE  AgeGlobal' /\ AgeAt(g)' /\ active' >= active
<1>e. Elsewhere(g)
  BY OthersUntouched, GoroutineTypes
<1>t. /\ active \in Nat /\ grown \in Nat /\ taken \in Nat /\ clock \in Nat
      /\ \A r \in live : r.chunk \in Nat /\ r.at \in Nat
      /\ ChunkId \subseteq Nat
  BY AgeTypes
<1>d. \A r \in live : r.chunk <= grown /\ r.at >= 1
  BY DEF AgeGlobal, DatesInv
<1>1. ASSUME NEW s \in Slots, Mark(g, s) PROVE AgeGlobal' /\ AgeAt(g)' /\ active' >= active
  <2>1. AgeGlobal' /\ active' = active
    BY <1>1, <1>e, AgeMark
  <2>2. pc[g] = "idle" /\ pc' = pc
    BY <1>1, MarkEffect
  <2> QED
    BY <1>t, <2>1, <2>2 DEF AgeAt, ActiveAt, SavingAt, SweepAt, TodoAt, Trying
<1>2. ASSUME NEW s \in Slots, Savepoint(g, s) PROVE AgeGlobal' /\ AgeAt(g)' /\ active' >= active
  <2>1. /\ pc[g] = "idle" /\ pc'[g] = "save" /\ loc'[g].cur = 1 /\ loc'[g].slot = s
        /\ \A t \in Slots : t # s => sps'[t] = sps[t]
        /\ sps'[s].state = "nil" /\ sps'[s].n = NumChunks /\ sps'[s].since = clock
        /\ sps'[s].active = IF active \in Chunks THEN active - taken ELSE 1
        /\ sps'[s].stamp = Zeroes
        /\ UNCHANGED <<taken, grown, active, live, clock, marks>>
    BY <1>2, SavepointEffect DEF heap, ghost
  <2>2. \A i \in ChunkId : Zeroes[i] = 0
    BY DEF Zeroes
  <2>3. \A r \in live : ~(r.chunk > taken + sps'[s].n)
    BY <1>d, <1>t, <2>1 DEF NumChunks
  <2>4. AgeGlobal'
    <3>1. sps'[s].since <= clock /\ \A i \in ChunkId : sps'[s].stamp[i] <= clock
      BY <1>t, <2>1, <2>2
    <3>2. \A r \in live : \A i \in ChunkId : r.at > sps'[s].stamp[i]
      BY <1>d, <1>t, <2>1, <2>2
    <3> QED
      BY <1>e, <2>1, <2>3, <3>1, <3>2, AgeSave
  <2>5. SavingAt(g)'
    <3>1. \A i \in ChunkId : ~(i < 1)
      BY DEF ChunkId
    <3> QED
      BY <2>1, <3>1 DEF SavingAt, Chunks, NumChunks
  <2>6. ActiveAt(g)' /\ SweepAt(g)' /\ TodoAt(g)'
    BY <2>1 DEF ActiveAt, SweepAt, TodoAt, Trying
  <2> QED
    BY <1>t, <2>1, <2>4, <2>5, <2>6 DEF AgeAt
<1>3. ASSUME SaveOff(g) PROVE AgeGlobal' /\ AgeAt(g)' /\ active' >= active
  <2> DEFINE k == loc[g].cur
             s == loc[g].slot
  <2>1. /\ pc[g] = "save" /\ pc' = pc /\ s \in Slots /\ k \in ChunkId /\ k <= NumChunks
        /\ loc'[g].cur = k + 1 /\ loc'[g].slot = s
        /\ \A j \in ChunkId : sps'[s].stamp[j] = IF j = k THEN clock ELSE sps[s].stamp[j]
        /\ sps'[s].n = sps[s].n /\ sps'[s].since = sps[s].since
        /\ sps'[s].active = sps[s].active /\ sps'[s].state = sps[s].state
        /\ \A t \in Slots : t # s => sps'[t] = sps[t]
        /\ UNCHANGED <<taken, grown, active, live, clock, marks>>
    BY <1>3, SaveOffEffect DEF heap, ghost
  <2>2. /\ sps[s].state = "nil" /\ sps[s].n = NumChunks
        /\ active \in Chunks => sps[s].active = active - taken
        /\ \A i \in ChunkId : i < k => sps[s].stamp[i] >= sps[s].since
    BY <2>1 DEF AgeAt, SavingAt
  <2>3. sps[s].since \in Nat /\ sps[s].since <= clock /\ \A i \in ChunkId : sps[s].stamp[i] <= clock
    BY <2>1, AgeTypes DEF AgeGlobal, DatesInv
  <2>4. mu = g
    BY <2>1 DEF MutexInv, Critical
  <2>5. \A r \in live : r.chunk > taken => r.chunk <= active
    BY <2>1, <2>4, LowWhenLocked DEF AgeGlobal
  <2>6. active \in Chunks
    <3>1. NumChunks > 0
      BY <1>t, <2>1 DEF ChunkId, NumChunks
    <3> QED
      BY <3>1, NonEmptyList, GoroutineTypes DEF ListInv, Listed
  <2> HIDE DEF k, s
  <2>7. AgeGlobal'
    <3>1. \A i \in ChunkId : sps'[s].stamp[i] <= clock
      BY <1>t, <2>1, <2>3
    <3>2. ASSUME NEW r \in live, NEW i \in ChunkId, r.chunk = taken + i, i > sps[s].active
          PROVE  r.at > sps'[s].stamp[i]
      <4>1. i # k
        BY <1>t, <2>2, <2>5, <2>6, <3>2 DEF Chunks
      <4>2. r.at > sps[s].stamp[i]
        BY <2>1, <3>2 DEF AgeGlobal, YoungInv
      <4> QED
        BY <2>1, <4>1, <4>2
    <3>3. \A r \in live : r.chunk > taken + sps[s].n => r.at > sps[s].since
      BY <2>1 DEF AgeGlobal, YoungInv
    <3>4. pc[g] # "slice"
      BY <2>1
    <3> QED
      BY <1>e, <2>1, <2>2, <2>3, <3>1, <3>2, <3>3, <3>4, AgeSave
  <2>8. SavingAt(g)'
    <3>1. ASSUME NEW i \in ChunkId, i < k + 1 PROVE sps'[s].stamp[i] >= sps'[s].since
      <4>1. i = k \/ i < k
        BY <1>t, <2>1, <3>1
      <4>2. k \in Nat
        BY <1>t, <2>1
      <4> QED
        BY <1>t, <2>1, <2>2, <2>3, <4>1, <4>2
    <3>2. Chunks' = Chunks /\ NumChunks' = NumChunks
      BY <2>1 DEF Chunks, NumChunks
    <3> QED
      BY <2>1, <2>2, <3>1, <3>2 DEF SavingAt
  <2>9. ActiveAt(g)' /\ SweepAt(g)' /\ TodoAt(g)'
    BY <2>1 DEF ActiveAt, SweepAt, TodoAt, Trying
  <2> QED
    BY <1>t, <2>1, <2>7, <2>8, <2>9 DEF AgeAt
<1>4. ASSUME SaveDone(g) PROVE AgeGlobal' /\ AgeAt(g)' /\ active' >= active
  <2> DEFINE s == loc[g].slot
  <2>1. /\ pc[g] = "save" /\ pc'[g] = "idle" /\ s \in Slots /\ loc[g].cur > NumChunks
        /\ sps'[s].stamp = sps[s].stamp /\ sps'[s].n = sps[s].n
        /\ sps'[s].since = sps[s].since /\ sps'[s].active = sps[s].active
        /\ \A t \in Slots : t # s => sps'[t] = sps[t]
        /\ UNCHANGED <<taken, grown, active, live, clock, marks>>
    BY <1>4, SaveDoneEffect DEF heap, ghost
  <2>2. sps[s].n = NumChunks /\ \A i \in ChunkId : i < loc[g].cur => sps[s].stamp[i] >= sps[s].since
    BY <2>1 DEF AgeAt, SavingAt
  <2>3. sps[s].since <= clock /\ \A i \in ChunkId : sps[s].stamp[i] <= clock
    BY <2>1 DEF AgeGlobal, DatesInv
  <2>4. \A r \in live : /\ r.chunk > taken + sps[s].n => r.at > sps[s].since
                        /\ \A i \in ChunkId : r.chunk = taken + i /\ i > sps[s].active =>
                             r.at > sps[s].stamp[i]
    BY <2>1 DEF AgeGlobal, YoungInv
  <2>5. NumChunks \in Nat /\ loc[g].cur \in Nat
    BY InOrderElements, GoroutineTypes, LocalFields
  <2> HIDE DEF s
  <2>6. \A i \in ChunkId : i <= sps'[s].n => sps'[s].stamp[i] >= sps'[s].since
    BY <1>t, <2>1, <2>2, <2>5
  <2>7. AgeGlobal'
    <3>1. pc[g] # "slice" /\ sps'[s].since <= clock /\ \A i \in ChunkId : sps'[s].stamp[i] <= clock
      BY <2>1, <2>3
    <3>2. \A r \in live : /\ r.chunk > taken + sps'[s].n => r.at > sps'[s].since
                          /\ \A i \in ChunkId : r.chunk = taken + i /\ i > sps'[s].active =>
                               r.at > sps'[s].stamp[i]
      BY <2>1, <2>4
    <3> QED
      BY <1>e, <2>1, <2>6, <3>1, <3>2, AgeSave
  <2> QED
    BY <1>t, <2>1, <2>7 DEF AgeAt, ActiveAt, SavingAt, SweepAt, TodoAt, Trying
<1> QED
  BY <1>1, <1>2, <1>3, <1>4 DEF SnapshotStep

LEMMA AgeClose ==
  ASSUME TypeOK, TypeOK', LocalsInv, MutexInv, ListInv, SyncInv, AgeGlobal, NEW g \in Goroutines,
         AgeAt(g), CloseStep(g)
  PROVE  AgeGlobal' /\ AgeAt(g)' /\ (active' >= active \/ pc[g] \in Reclaiming)
<1>e. Elsewhere(g)
  BY OthersUntouched, GoroutineTypes
<1>t. /\ active \in Nat /\ grown \in Nat /\ taken \in Nat
      /\ \A r \in live : r.chunk \in Nat
      /\ \A s \in Slots : marks[s].idx \in Nat /\ sps[s].n \in Nat
      /\ \A c \in ChunkId : c \in Nat /\ c >= 1
  BY AgeTypes
<1>n. ASSUME pc'[g] \in {"idle", "take", "release", "clear"} PROVE AgeAt(g)'
  BY <1>n DEF AgeAt, ActiveAt, SavingAt, SweepAt, TodoAt, Trying
<1>1. ASSUME Close(g) PROVE AgeGlobal' /\ AgeAt(g)' /\ active' >= active
  <2>1. /\ pc[g] = "idle" /\ pc'[g] \in {"idle", "take"}
        /\ UNCHANGED <<taken, grown, clock, active, marks, sps, live>>
    BY <1>1, CloseEffect DEF heap, held, ghost
  <2> QED
    BY <1>e, <1>n, <1>t, <2>1, AgeQuiet
<1>2. ASSUME CloseTake(g) PROVE AgeGlobal' /\ AgeAt(g)' /\ pc[g] \in Reclaiming
  <2>1. /\ pc[g] = "take" /\ pc'[g] \in {"idle", "release"}
        /\ taken' = grown /\ grown' = grown /\ clock' = clock /\ marks' = marks /\ sps' = sps
        /\ live' = live
    BY <1>2, CloseTakeEffect DEF heap, held, ghost
  <2>2. \A r \in live : r.chunk <= grown /\ r.at >= 1
    BY DEF AgeGlobal, DatesInv
  <2>3. LiveLow'
    BY <1>t, <2>1, <2>2 DEF LiveLow
  <2>4. DatesInv'
    BY <2>1 DEF AgeGlobal, DatesInv
  <2>5. YoungInv'
    BY <1>t, <2>1, <2>2 DEF YoungInv
  <2>6. SavedDates'
    BY <2>1 DEF AgeGlobal, SavedDates
  <2> QED
    BY <1>n, <2>1, <2>3, <2>4, <2>5, <2>6 DEF AgeGlobal, Reclaiming
<1>3. ASSUME Unmap(g) \/ ClearChunk(g) PROVE AgeGlobal' /\ AgeAt(g)' /\ active' >= active
  <2>1. /\ pc[g] \in {"release", "clear"} /\ pc'[g] \in {"release", "clear", "idle"}
        /\ live' \subseteq live
        /\ UNCHANGED <<taken, grown, clock, active, marks, sps>>
    BY <1>3, UnmapEffect, ClearChunkEffect DEF held
  <2> QED
    BY <1>e, <1>n, <1>t, <2>1, AgeQuiet
<1> QED
  BY <1>1, <1>2, <1>3 DEF CloseStep

LEMMA AgeInit == Init => AgeInv
<1> SUFFICES ASSUME Init PROVE AgeInv
  OBVIOUS
<1>1. \A i \in ChunkId : Zeroes[i] = 0
  BY DEF Zeroes
<1>2. LiveLow /\ YoungInv
  BY DEF Init, LiveLow, YoungInv
<1>3. DatesInv /\ SavedDates
  BY <1>1 DEF Init, DatesInv, SavedDates, ZeroMark, NilSavepoint
<1>4. \A g \in Goroutines : ActiveAt(g) /\ SavingAt(g) /\ SweepAt(g) /\ TodoAt(g)
  BY DEF Init, ActiveAt, SavingAt, SweepAt, TodoAt, Trying
<1> QED
  BY <1>2, <1>3, <1>4 DEF AgeInv

LEMMA AgeStep ==
  ClientSync /\ SharedInv /\ SyncInv /\ AgeInv /\ [Next]_vars => AgeInv'
<1> SUFFICES ASSUME ClientSync, SharedInv, SyncInv, AgeInv, [Next]_vars PROVE AgeInv'
  OBVIOUS
<1>t. TypeOK /\ LocalsInv /\ MutexInv /\ ListInv /\ TypeOK'
  BY TypeStep DEF SharedInv
<1>a. AgeGlobal /\ \A g \in Goroutines : AgeAt(g)
  BY DEF AgeInv, AgeGlobal, AgeAt
<1>1. ASSUME NEW g \in Goroutines,
             AllocStep(g) \/ ReclaimStep(g) \/ SnapshotStep(g) \/ CloseStep(g)
      PROVE  AgeInv'
  <2>1. AgeGlobal' /\ AgeAt(g)' /\ (active' >= active \/ pc[g] \in Reclaiming)
    BY <1>1, <1>a, <1>t, AgeAlloc, AgeReclaim, AgeSnapshot, AgeClose
  <2>2. \A h \in Goroutines : h # g => AgeAt(h)'
    BY <1>1, <1>a, <1>t, <2>1, AgeOthers
  <2> QED
    BY <2>1, <2>2 DEF AgeInv, AgeGlobal, AgeAt
<1>2. ASSUME UNCHANGED vars PROVE AgeInv'
  <2>1. /\ taken' = taken /\ grown' = grown /\ active' = active /\ live' = live /\ clock' = clock
        /\ marks' = marks /\ sps' = sps /\ pc' = pc /\ loc' = loc /\ sweep' = sweep
    BY <1>2 DEF vars, heap, held, ghost
  <2>2. AgeGlobal'
    BY <1>a, <2>1 DEF AgeGlobal, LiveLow, DatesInv, YoungInv, SavedDates
  <2>3. \A g \in Goroutines : ActiveAt(g)' /\ SavingAt(g)'
    BY <1>a, <2>1 DEF AgeAt, ActiveAt, SavingAt, Chunks, NumChunks
  <2>4. \A g \in Goroutines : SweepAt(g)' /\ TodoAt(g)'
    BY <1>a, <2>1 DEF AgeAt, SweepAt, TodoAt, Chunks
  <2> QED
    BY <2>2, <2>3, <2>4 DEF AgeInv, AgeGlobal
<1> QED
  BY <1>1, <1>2 DEF Next

KeepsStep ==
  \A g \in Goroutines : pc[g] = "sweep" => \A r \in live \ live' : sweep[g].since < r.at

(***************************************************************************)
(* If clients reclaim memory only while no other call runs, Rewind and     *)
(* Rollback take back nothing that was allocated before the mark or the    *)
(* savepoint was taken, for any number of goroutines, marks, savepoints    *)
(* and chunks, and although Savepoint loads the offsets one by one while   *)
(* the fast path of others moves them.                                     *)
(***************************************************************************)
THEOREM OlderAllocationsKept == ClientSync => (Spec => KeepsOlder)
<1> SUFFICES ASSUME ClientSync PROVE Spec => KeepsOlder
  OBVIOUS
<1>1. Init => AgeInv
  BY AgeInit
<1>2. (SharedInv /\ SyncInv) /\ AgeInv /\ [Next]_vars => AgeInv'
  BY AgeStep
<1>3. (SharedInv /\ SyncInv) /\ AgeInv /\ [Next]_vars => [KeepsStep]_vars
  <2> SUFFICES ASSUME SharedInv, SyncInv, AgeInv, NEW h \in Goroutines,
                      AllocStep(h) \/ ReclaimStep(h) \/ SnapshotStep(h) \/ CloseStep(h),
                      NEW g \in Goroutines, pc[g] = "sweep", NEW r \in live, r \notin live'
               PROVE  sweep[g].since < r.at
    BY DEF Next, KeepsStep
  <2>t. TypeOK /\ LocalsInv /\ ListInv
    BY DEF SharedInv
  <2>1. h = g
    BY <2>t, ReclaimsAlone DEF Reclaiming
  <2>2. StoreOff(g)
    <3>1. ~AllocStep(g)
      BY DEF AllocStep, TryAlloc, MayUse, LoadOff, CompareAndSwap, SliceBuf, LockSlow, ChooseSize,
         GrowChunk, GrowFails
    <3>2. ~SnapshotStep(g) /\ ~CloseStep(g)
      BY DEF SnapshotStep, Mark, Savepoint, SaveOff, SaveDone, MayUse, CloseStep, Close, CloseTake,
         Unmap, ClearChunk
    <3>3. ~Reset(g) /\ ~StoreActive(g) /\ \A s \in Slots : ~Rewind(g, s) /\ ~Rollback(g, s)
      BY DEF Reset, Rewind, Rollback, BeginSweep, MayReclaim, StoreActive, ghost
    <3> QED
      BY <2>1, <3>1, <3>2, <3>3 DEF ReclaimStep
  <2> DEFINE w == sweep[g]
             c == Head(w.todo)
  <2>3. live' = {q \in live : q.chunk = c => q.at <= w.stamp[c]} /\ w.todo # <<>>
    BY <2>2, <2>t, StoreOffEffect
  <2>4. w.todo \in Seq(ChunkId) /\ w.stamp \in [ChunkId -> Nat] /\ w.since \in Nat
    BY <2>t, GoroutineTypes, SweepFields
  <2>5. r.chunk \in ChunkId /\ r.at \in Nat /\ taken \in Nat /\ grown \in Nat
    BY <2>t, AgeTypes
  <2>6. c = w.todo[1] /\ 1 \in 1..Len(w.todo)
    BY <2>3, <2>4
  <2>7. /\ \A q \in live : q.chunk > taken => \A j \in 1..Len(w.todo) :
             w.todo[j] = q.chunk /\ q.at > w.stamp[q.chunk] => q.at > w.since
        /\ \A j \in 1..Len(w.todo) : w.todo[j] \in Chunks
    BY DEF AgeInv, SweepAt, TodoAt
  <2> HIDE DEF w, c
  <2>8. r.chunk = c /\ ~(r.at <= w.stamp[c])
    BY <2>3
  <2>9. r.at > w.stamp[r.chunk]
    BY <2>4, <2>5, <2>8
  <2>10. c > taken
    BY <2>5, <2>6, <2>7 DEF Chunks
  <2>11. r.at > w.since
    BY <2>6, <2>7, <2>8, <2>9, <2>10
  <2> QED
    BY <2>4, <2>5, <2>11 DEF w
<1> QED
  BY <1>1, <1>2, <1>3, SyncInvariant, PTL DEF Spec, KeepsOlder, KeepsStep

----------------------------------------------------------------------------
(* A failed transaction restores the arena *)

(***************************************************************************)
(* A chunk that was not made yet has offset 0; a sweep visits chunks of    *)
(* the list; a savepoint is not used before it is complete.                *)
(***************************************************************************)
Fresh == \A c \in ChunkId : c > grown => off[c] = 0

UnderWay(g) == TodoAt(g) /\ (pc[g] = "save" => sps[loc[g].slot].state = "nil")

TidyInv == Fresh /\ \A g \in Goroutines : UnderWay(g)

LEMMA TidyInit == Init => TidyInv
  BY DEF Init, TidyInv, Fresh, UnderWay, TodoAt, Zeroes

LEMMA TidyOthers ==
  ASSUME TypeOK, LocalsInv, MutexInv, NEW g \in Goroutines, NEW h \in Goroutines, h # g,
         AllocStep(g) \/ ReclaimStep(g) \/ SnapshotStep(g) \/ CloseStep(g), UnderWay(h)
  PROVE  UnderWay(h)'
<1>1. pc'[h] = pc[h] /\ loc'[h] = loc[h] /\ sweep'[h] = sweep[h]
  BY OthersUntouched, GoroutineTypes DEF Elsewhere
<1>2. CASE pc[h] \in {"sweep", "save"}
  <2>1. taken' = taken /\ grown' = grown /\ sps' = sps
    BY <1>2, HeldStep DEF Critical
  <2> QED
    BY <1>1, <2>1 DEF UnderWay, TodoAt, Chunks
<1>3. CASE pc[h] \notin {"sweep", "save"}
  BY <1>1, <1>3 DEF UnderWay, TodoAt
<1> QED
  BY <1>2, <1>3

LEMMA TidyStep == SharedInv /\ TidyInv /\ [Next]_vars => TidyInv'
<1> SUFFICES ASSUME SharedInv, TidyInv, [Next]_vars PROVE TidyInv'
  OBVIOUS
<1>t. TypeOK /\ LocalsInv /\ MutexInv /\ ListInv /\ TypeOK'
  BY TypeStep DEF SharedInv
<1>n. grown \in Nat /\ taken \in Nat /\ taken <= grown /\ \A c \in ChunkId : c \in Nat
  BY <1>t, AgeTypes
<1>f. \A c \in ChunkId : c > grown => off[c] = 0
  BY DEF TidyInv, Fresh
<1>1. ASSUME NEW g \in Goroutines,
             AllocStep(g) \/ ReclaimStep(g) \/ SnapshotStep(g) \/ CloseStep(g)
      PROVE  TidyInv'
  <2>o. \A h \in Goroutines : h # g => UnderWay(h)'
    BY <1>1, <1>t, TidyOthers DEF TidyInv
  <2>u. UnderWay(g)
    BY DEF TidyInv
  <2>n. ASSUME pc'[g] \notin {"sweep", "save"} PROVE UnderWay(g)'
    BY <2>n DEF UnderWay, TodoAt
  <2>h. ASSUME UNCHANGED heap, off' = off PROVE Fresh'
    BY <1>f, <2>h DEF Fresh, heap
  <2>1. ASSUME AllocStep(g) PROVE Fresh' /\ pc'[g] \notin {"sweep", "save"}
    <3>1. ASSUME NEW rq \in Requests, TryAlloc(g, rq)
          PROVE  Fresh' /\ pc'[g] \notin {"sweep", "save"}
      BY <1>t, <2>h, <3>1, TryAllocEffect
    <3>2. ASSUME LoadOff(g) PROVE Fresh' /\ pc'[g] \notin {"sweep", "save"}
      BY <1>t, <2>h, <3>2, LoadOffEffect
    <3>3. ASSUME CompareAndSwap(g) PROVE Fresh' /\ pc'[g] \notin {"sweep", "save"}
      <4>1. /\ loc[g].cur \in 1..grown /\ pc'[g] \in {"slice", "try"} /\ grown' = grown
            /\ \/ off' = off
               \/ \A c \in ChunkId : off'[c] = IF c = loc[g].cur THEN loc[g].hi ELSE off[c]
        BY <1>t, <3>3, CompareAndSwapEffect DEF heap
      <4> QED
        BY <1>f, <1>n, <4>1 DEF Fresh
    <3>4. ASSUME SliceBuf(g) PROVE Fresh' /\ pc'[g] \notin {"sweep", "save"}
      BY <1>t, <2>h, <3>4, SliceBufEffect
    <3>5. ASSUME LockSlow(g) PROVE Fresh' /\ pc'[g] \notin {"sweep", "save"}
      BY <1>t, <2>h, <3>5, LockSlowEffect
    <3>6. ASSUME ChooseSize(g) \/ GrowFails(g) PROVE Fresh' /\ pc'[g] \notin {"sweep", "save"}
      BY <1>t, <2>h, <3>6, ChooseSizeEffect, GrowFailsEffect
    <3>7. ASSUME GrowChunk(g) PROVE Fresh' /\ pc'[g] \notin {"sweep", "save"}
      <4>1. /\ pc'[g] = "try" /\ grown' = grown + 1
            /\ \A c \in ChunkId : c # grown + 1 => off'[c] = off[c]
        BY <1>t, <3>7, GrowChunkEffect
      <4> QED
        BY <1>f, <1>n, <4>1 DEF Fresh
    <3> QED
      BY <2>1, <3>1, <3>2, <3>3, <3>4, <3>5, <3>6, <3>7 DEF AllocStep
  <2>2. ASSUME ReclaimStep(g) PROVE Fresh' /\ UnderWay(g)'
    <3>b. ASSUME NEW plan, BeginSweep(g, plan),
                 \A j \in 1..Len(sweep'[g].todo) : sweep'[g].todo[j] \in Chunks
          PROVE  Fresh' /\ UnderWay(g)'
      <4>1. pc'[g] = "sweep" /\ off' = off /\ UNCHANGED heap
        BY <1>t, <3>b, BeginSweepEffect
      <4>2. Chunks' = Chunks
        BY <4>1 DEF heap, Chunks
      <4> QED
        BY <2>h, <3>b, <4>1, <4>2 DEF UnderWay, TodoAt
    <3>i. \A j \in 1..Len(InOrder) : InOrder[j] \in Chunks
      BY <1>t, InOrderElements
    <3>1. ASSUME Reset(g) PROVE Fresh' /\ UnderWay(g)'
      BY <1>t, <3>1, <3>b, <3>i, ResetPlan
    <3>2. ASSUME NEW s \in Slots, Rewind(g, s) PROVE Fresh' /\ UnderWay(g)'
      BY <1>t, <3>2, <3>b, RewindPlan, RewindVisits
    <3>3. ASSUME NEW s \in Slots, Rollback(g, s) PROVE Fresh' /\ UnderWay(g)'
      BY <1>t, <3>3, <3>b, <3>i, RollbackPlan
    <3>4. ASSUME StoreOff(g) PROVE Fresh' /\ UnderWay(g)'
      <4> DEFINE w == sweep[g]
                 c == Head(w.todo)
      <4>1. /\ pc[g] = "sweep" /\ pc' = pc /\ w.todo # <<>>
            /\ \A d \in ChunkId : off'[d] = IF d = c THEN w.off[c] ELSE off[d]
            /\ sweep'[g].todo = Tail(w.todo) /\ grown' = grown /\ taken' = taken
        BY <1>t, <3>4, StoreOffEffect DEF heap
      <4>2. \A j \in 1..Len(w.todo) : w.todo[j] \in Chunks
        BY <2>u, <4>1 DEF UnderWay, TodoAt
      <4>3. w.todo \in Seq(ChunkId)
        BY <1>t, GoroutineTypes, SweepFields
      <4> HIDE DEF w
      <4>4. /\ Len(w.todo) \in Nat /\ Len(w.todo) >= 1 /\ c = w.todo[1]
            /\ Len(Tail(w.todo)) = Len(w.todo) - 1
            /\ \A j \in 1..(Len(w.todo) - 1) : Tail(w.todo)[j] = w.todo[j + 1]
        BY <4>1, <4>3
      <4> HIDE DEF c
      <4>5. c \in Chunks
        BY <4>2, <4>4
      <4>6. Fresh'
        BY <1>f, <1>n, <4>1, <4>5 DEF Fresh, Chunks
      <4>7. \A j \in 1..Len(Tail(w.todo)) : Tail(w.todo)[j] \in Chunks
        <5> SUFFICES ASSUME NEW j \in 1..(Len(w.todo) - 1) PROVE w.todo[j + 1] \in Chunks
          BY <4>4
        <5> QED
          BY <4>2, <4>4
      <4> QED
        BY <4>1, <4>6, <4>7 DEF UnderWay, TodoAt, Chunks
    <3>5. ASSUME StoreActive(g) PROVE Fresh' /\ UnderWay(g)'
      BY <1>t, <2>h, <2>n, <3>5, StoreActiveEffect
    <3> QED
      BY <2>2, <3>1, <3>2, <3>3, <3>4, <3>5 DEF ReclaimStep
  <2>3. ASSUME SnapshotStep(g) PROVE Fresh' /\ UnderWay(g)'
    <3>1. ASSUME NEW s \in Slots, Mark(g, s) PROVE Fresh' /\ UnderWay(g)'
      BY <1>t, <2>h, <2>n, <3>1, MarkEffect
    <3>2. ASSUME NEW s \in Slots, Savepoint(g, s) PROVE Fresh' /\ UnderWay(g)'
      BY <1>t, <2>h, <3>2, SavepointEffect DEF UnderWay, TodoAt
    <3>3. ASSUME SaveOff(g) PROVE Fresh' /\ UnderWay(g)'
      <4>1. /\ pc[g] = "save" /\ pc' = pc /\ loc'[g].slot = loc[g].slot
            /\ sps'[loc[g].slot].state = sps[loc[g].slot].state
            /\ UNCHANGED heap /\ off' = off
        BY <1>t, <3>3, SaveOffEffect
      <4> QED
        BY <2>h, <2>u, <4>1 DEF UnderWay, TodoAt
    <3>4. ASSUME SaveDone(g) PROVE Fresh' /\ UnderWay(g)'
      BY <1>t, <2>h, <2>n, <3>4, SaveDoneEffect
    <3> QED
      BY <2>3, <3>1, <3>2, <3>3, <3>4 DEF SnapshotStep
  <2>4. ASSUME CloseStep(g) PROVE Fresh' /\ UnderWay(g)'
    <3>1. ASSUME Close(g) PROVE Fresh' /\ UnderWay(g)'
      BY <1>t, <2>h, <2>n, <3>1, CloseEffect
    <3>2. ASSUME CloseTake(g) PROVE Fresh' /\ UnderWay(g)'
      <4>1. grown' = grown /\ off' = off /\ pc'[g] \in {"idle", "release"}
        BY <1>t, <3>2, CloseTakeEffect
      <4> QED
        BY <1>f, <2>n, <4>1 DEF Fresh
    <3>3. ASSUME Unmap(g) PROVE Fresh' /\ UnderWay(g)'
      <4>1. grown' = grown /\ off' = off /\ pc'[g] = "clear"
        BY <1>t, <3>3, UnmapEffect
      <4> QED
        BY <1>f, <2>n, <4>1 DEF Fresh
    <3>4. ASSUME ClearChunk(g) PROVE Fresh' /\ UnderWay(g)'
      <4>1. /\ grown' = grown /\ pc'[g] \in {"release", "idle"}
            /\ \A d \in ChunkId : off'[d] = 0 \/ off'[d] = off[d]
        BY <1>t, <3>4, ClearChunkEffect
      <4> QED
        BY <1>f, <2>n, <4>1 DEF Fresh
    <3> QED
      BY <2>4, <3>1, <3>2, <3>3, <3>4 DEF CloseStep
  <2> QED
    BY <1>1, <2>1, <2>2, <2>3, <2>4, <2>n, <2>o DEF TidyInv
<1>2. ASSUME UNCHANGED vars PROVE TidyInv'
  BY <1>2 DEF vars, heap, held, TidyInv, Fresh, UnderWay, TodoAt, Chunks
<1> QED
  BY <1>1, <1>2 DEF Next

Undisturbed == tx.by \in Goroutines /\ tx.alone /\ closed = 0

(***************************************************************************)
(* The savepoint of the transaction, while it is taken and after.          *)
(***************************************************************************)
TxSaved ==
  Undisturbed /\ tx.phase = "fn" =>
    LET sp == sps[TxSlot]
    IN /\ \A c \in ChunkId : c > sp.n => tx.off[c] = 0
       /\ sp.n >= 1 /\ sp.n <= NumChunks /\ sp.active <= sp.n /\ sp.active = tx.active
       /\ sp.state = "valid" => \A c \in ChunkId : c <= sp.n => sp.off[c] = tx.off[c]
       /\ sp.state # "valid" =>
            /\ pc[tx.by] = "save" /\ loc[tx.by].slot = TxSlot
            /\ sp.n = NumChunks /\ off = tx.off
            /\ \A c \in ChunkId : c < loc[tx.by].cur => sp.off[c] = tx.off[c]

(***************************************************************************)
(* What Rollback has restored, and what it is about to.                    *)
(***************************************************************************)
TxUndone ==
  Undisturbed /\ tx.phase = "undo" =>
    /\ pc[tx.by] \in {"sweep", "idle"}
    /\ pc[tx.by] = "idle" => off = tx.off /\ active = tx.active
    /\ pc[tx.by] = "sweep" =>
         LET w == sweep[tx.by]
         IN /\ w.active = tx.active
            /\ \A c \in ChunkId :
                 \/ off[c] = tx.off[c]
                 \/ w.off[c] = tx.off[c] /\ \E j \in 1..Len(w.todo) : w.todo[j] = c
            /\ \A j \in 1..Len(w.todo) : w.off[w.todo[j]] = tx.off[w.todo[j]]

TxTypeOK ==
  tx \in [by : Goroutines \cup {NoOne}, phase : {"none", "fn", "undo"}, off : [ChunkId -> Nat],
          active : Nat, alone : BOOLEAN]

TxInv == TxTypeOK /\ TxSaved /\ TxUndone

LEMMA TransactionEffect ==
  ASSUME SharedInv, TidyInv, NEW g \in Goroutines, Transaction(g)
  PROVE  TxInv'
<1>t. TypeOK /\ LocalsInv /\ MutexInv /\ ListInv
  BY DEF SharedInv
<1> DEFINE alone == \A h \in Goroutines \ {g} : pc[h] = "idle"
<1>1. /\ Savepoint(g, TxSlot)
      /\ tx' = [by |-> g, phase |-> "fn", off |-> off, active |-> active, alone |-> alone]
  BY DEF Transaction
<1>2. alone \in BOOLEAN
  OBVIOUS
<1> HIDE DEF alone
<1>3. off \in [ChunkId -> Nat] /\ active \in Nat /\ taken \in Nat /\ grown \in ChunkId /\ grown \in Nat
  BY <1>t, AgeTypes DEF TypeOK, HeapTypeOK
<1>4. TxTypeOK'
  BY <1>1, <1>2, <1>3 DEF TxTypeOK
<1>5. tx'.by = g /\ tx'.phase = "fn" /\ tx'.off = off /\ tx'.active = active
  BY <1>1
<1>6. /\ pc'[g] = "save" /\ loc'[g].cur = 1 /\ loc'[g].slot = TxSlot
      /\ sps'[TxSlot].state = "nil" /\ sps'[TxSlot].n = NumChunks
      /\ sps'[TxSlot].active = IF active \in Chunks THEN active - taken ELSE 1
      /\ off' = off /\ closed' = closed /\ taken' = taken /\ grown' = grown
  BY <1>1, <1>t, TransactionAssumption, SavepointEffect DEF heap
<1>7. TxSaved'
  <2> SUFFICES ASSUME closed = 0 PROVE TxSaved'
    BY <1>6 DEF TxSaved, Undisturbed
  <2>1. taken = 0
    BY <1>3, <1>t DEF ListInv
  <2>2. NumChunks = grown /\ grown >= 1 /\ NumChunks' = NumChunks
    BY <1>3, <1>6, <2>1 DEF NumChunks, ChunkId
  <2>3. active \in Chunks
    <3>1. NumChunks > 0
      BY <1>3, <2>2
    <3> QED
      BY <1>t, <3>1, NonEmptyList, GoroutineTypes DEF ListInv, Listed
  <2>4. sps'[TxSlot].active = active /\ active <= grown
    BY <1>3, <1>6, <2>1, <2>3 DEF Chunks
  <2>5. \A c \in ChunkId : c > grown => off[c] = 0
    BY DEF TidyInv, Fresh
  <2>6. \A c \in ChunkId : ~(c < 1)
    BY DEF ChunkId
  <2>7. sps'[TxSlot].n = grown /\ sps'[TxSlot].n = NumChunks'
    BY <1>6, <2>2
  <2>8. \A c \in ChunkId : c > sps'[TxSlot].n => tx'.off[c] = 0
    BY <1>5, <2>5, <2>7
  <2>9. /\ sps'[TxSlot].n >= 1 /\ sps'[TxSlot].n <= NumChunks'
        /\ sps'[TxSlot].active <= sps'[TxSlot].n /\ sps'[TxSlot].active = tx'.active
    BY <1>3, <1>5, <2>2, <2>4, <2>7
  <2> QED
    BY <1>5, <1>6, <2>6, <2>7, <2>8, <2>9 DEF TxSaved
<1>8. TxUndone'
  BY <1>5 DEF TxUndone
<1> QED
  BY <1>4, <1>7, <1>8 DEF TxInv

(***************************************************************************)
(* No transaction runs.                                                    *)
(***************************************************************************)
LEMMA NoTxInv ==
  ASSUME tx' = NoTx
  PROVE  TxInv'
<1>1. NoTx.by = NoOne /\ NoTx \in [by : Goroutines \cup {NoOne}, phase : {"none", "fn", "undo"},
                                   off : [ChunkId -> Nat], active : Nat, alone : BOOLEAN]
  BY ConstantTypes DEF NoTx, Nil
<1>2. ~Undisturbed'
  BY <1>1, ArenaAssumption DEF Undisturbed
<1> QED
  BY <1>1, <1>2 DEF TxInv, TxTypeOK, TxSaved, TxUndone

LEMMA FailEffect ==
  ASSUME SharedInv, TidyInv, TxInv, NEW g \in Goroutines, Fail(g)
  PROVE  TxInv'
<1>t. TypeOK /\ LocalsInv /\ MutexInv /\ ListInv
  BY DEF SharedInv
<1>1. /\ tx.by = g /\ tx.phase = "fn" /\ Rollback(g, TxSlot) /\ tx' = [tx EXCEPT !.phase = "undo"]
  BY DEF Fail
<1>2. /\ TxTypeOK' /\ tx'.by = g /\ tx'.phase = "undo" /\ tx'.off = tx.off
      /\ tx'.active = tx.active /\ tx'.alone = tx.alone
  BY <1>1 DEF TxInv, TxTypeOK
<1>3. TxSaved'
  BY <1>2 DEF TxSaved
<1> DEFINE sp == sps[TxSlot]
           w == sweep'[g]
<1>4. /\ sp.state = "valid" /\ sp.n <= NumChunks /\ sp.n \in Nat /\ w.todo = InOrder
      /\ w.active = IF sp.active <= NumChunks THEN taken + sp.active ELSE active
      /\ \A c \in ChunkId :
           w.off[c] = IF c - taken \in 1..sp.n THEN sp.off[c - taken] ELSE 0
  BY <1>1, <1>t, TransactionAssumption, RollbackPlan
<1>5. pc'[g] = "sweep" /\ closed' = closed /\ off' = off
  BY <1>1, <1>t, TransactionAssumption, RollbackPlan, BeginSweepEffect
<1>6. TxUndone'
  <2> SUFFICES ASSUME Undisturbed PROVE TxUndone'
    BY <1>1, <1>2, <1>5 DEF TxUndone, Undisturbed
  <2>1. taken = 0 /\ grown \in Nat /\ NumChunks = grown
    BY <1>t, AgeTypes DEF Undisturbed, ListInv, NumChunks
  <2>2. /\ \A c \in ChunkId : c > sp.n => tx.off[c] = 0
        /\ sp.active <= sp.n /\ sp.active = tx.active
        /\ \A c \in ChunkId : c <= sp.n => sp.off[c] = tx.off[c]
    BY <1>1, <1>4 DEF TxInv, TxSaved
  <2>3. \A c \in ChunkId : c \in Nat /\ c >= 1
    BY <1>t, AgeTypes
  <2>4. sp.active \in Nat
    BY <1>t, AgeTypes, TransactionAssumption
  <2>5. \A c \in ChunkId : c > grown => off[c] = 0
    BY DEF TidyInv, Fresh
  <2>6. /\ \A j \in 1..Len(InOrder) : InOrder[j] \in Chunks
        /\ \A c \in Chunks : \E j \in 1..Len(InOrder) : InOrder[j] = c
    BY <1>t, InOrderElements
  <2>7. Chunks \subseteq ChunkId
    BY <1>t, GoroutineTypes, HeapNumbers DEF Chunks, ChunkId
  <2> HIDE DEF sp, w
  <2>8. w.active = tx.active
    BY <1>4, <2>1, <2>2, <2>4
  <2>9. \A c \in ChunkId : w.off[c] = tx.off[c]
    <3> SUFFICES ASSUME NEW c \in ChunkId PROVE w.off[c] = tx.off[c]
      OBVIOUS
    <3>1. c - taken = c
      BY <2>1, <2>3
    <3>2. CASE c <= sp.n
      BY <1>4, <2>2, <2>3, <3>1, <3>2
    <3>3. CASE c > sp.n
      BY <1>4, <2>2, <2>3, <3>1, <3>3
    <3> QED
      BY <1>4, <2>3, <3>2, <3>3
  <2>10. \A c \in ChunkId :
           off[c] = tx.off[c] \/ \E j \in 1..Len(w.todo) : w.todo[j] = c
    <3> SUFFICES ASSUME NEW c \in ChunkId
                 PROVE  off[c] = tx.off[c] \/ \E j \in 1..Len(w.todo) : w.todo[j] = c
      OBVIOUS
    <3>1. CASE c <= grown
      <4>1. c \in Chunks
        BY <2>1, <2>3, <3>1 DEF Chunks
      <4> QED
        BY <1>4, <2>6, <4>1
    <3>2. CASE c > grown
      BY <1>4, <2>1, <2>2, <2>3, <2>5, <3>2
    <3> QED
      BY <2>1, <2>3, <3>1, <3>2
  <2>11. \A j \in 1..Len(w.todo) : w.off[w.todo[j]] = tx.off[w.todo[j]]
    BY <1>4, <2>6, <2>7, <2>9
  <2> QED
    BY <1>2, <1>5, <2>8, <2>9, <2>10, <2>11 DEF TxUndone, w
<1> QED
  BY <1>2, <1>3, <1>6 DEF TxInv

(***************************************************************************)
(* While fn runs, the goroutine's own calls leave the savepoint alone once *)
(* it is complete.                                                         *)
(***************************************************************************)
LEMMA FnStep ==
  ASSUME SharedInv, SharedInv', TidyInv, TxInv, NEW g \in Goroutines, ArenaStep(g), tx.by = g,
         tx' = tx, Undisturbed', tx.phase = "fn",
         AllocStep(g) \/ ReclaimStep(g) \/ SnapshotStep(g) \/ CloseStep(g)
  PROVE  TxSaved'
<1>t. TypeOK /\ LocalsInv /\ MutexInv /\ ListInv
  BY DEF SharedInv
<1>n. taken \in Nat /\ grown \in Nat /\ \A c \in ChunkId : c \in Nat /\ c >= 1
  BY <1>t, AgeTypes
<1>s. sps[TxSlot].n \in Nat /\ sps[TxSlot].active \in Nat /\ TxSlot \in Slots
  BY <1>t, AgeTypes, TransactionAssumption
<1>c. closed' = 0 /\ closed = 0 /\ Undisturbed /\ tx.by \in Goroutines
  <2>1. Calm(g)
    BY <1>t, CalmStep
  <2>2. closed \in {0, 1}
    BY <1>t DEF TypeOK, ControlTypeOK
  <2> QED
    BY <2>1, <2>2 DEF Undisturbed, Calm
<1>0. taken = 0 /\ taken' = 0 /\ grown' >= grown /\ grown' \in Nat
  <2>1. taken' \in Nat /\ grown' \in Nat
    BY AgeTypes DEF SharedInv, TypeOK, HeapTypeOK, ChunkId
  <2>2. Calm(g)
    BY <1>t, CalmStep
  <2> QED
    BY <1>c, <1>n, <2>1, <2>2 DEF SharedInv, ListInv, Calm
<1> DEFINE sp == sps[TxSlot]
<1>1. /\ \A c \in ChunkId : c > sp.n => tx.off[c] = 0
      /\ sp.n >= 1 /\ sp.n <= NumChunks /\ sp.active <= sp.n /\ sp.active = tx.active
  BY <1>c DEF TxInv, TxSaved
<1>2. CASE sp.state = "valid"
  <2>1. sps'[TxSlot] = sps[TxSlot]
    <3>u. pc[g] = "save" => loc[g].slot # TxSlot
      BY <1>2 DEF TidyInv, UnderWay
    <3>1. CASE SaveOff(g)
      BY <1>s, <1>t, <3>1, <3>u, SaveOffEffect
    <3>2. CASE SaveDone(g)
      BY <1>s, <1>t, <3>2, <3>u, SaveDoneEffect
    <3>3. CASE \E s \in Slots \ {TxSlot} : Savepoint(g, s)
      BY <1>s, <1>t, <3>3, SavepointEffect
    <3>4. CASE /\ ~SaveOff(g) /\ ~SaveDone(g)
               /\ ~\E s \in Slots \ {TxSlot} : Savepoint(g, s)
      <4>1. sps' = sps
        BY <3>4 DEF ArenaStep, AllocStep, TryAlloc, LoadOff, CompareAndSwap, SliceBuf, LockSlow,
           ChooseSize, GrowChunk, GrowFails, Reset, Rewind, Rollback, BeginSweep, StoreOff,
           StoreActive, Mark, CloseStep, Close, CloseTake, Unmap, ClearChunk, held
      <4> QED
        BY <4>1
    <3> QED
      BY <3>1, <3>2, <3>3, <3>4
  <2>2. \A c \in ChunkId : c <= sp.n => sp.off[c] = tx.off[c]
    BY <1>2, <1>c DEF TxInv, TxSaved
  <2>3. sp.n <= NumChunks'
    BY <1>0, <1>1, <1>n, <1>s DEF NumChunks
  <2> QED
    BY <1>1, <1>2, <2>1, <2>2, <2>3 DEF TxSaved
<1>3. CASE sp.state # "valid"
  <2>1. /\ pc[g] = "save" /\ loc[g].slot = TxSlot /\ sp.n = NumChunks /\ off = tx.off
        /\ \A c \in ChunkId : c < loc[g].cur => sp.off[c] = tx.off[c]
    BY <1>3, <1>c DEF TxInv, TxSaved
  <2>2. SaveOff(g) \/ SaveDone(g)
    <3>1. ~AllocStep(g)
      BY <2>1 DEF AllocStep, TryAlloc, MayUse, LoadOff, CompareAndSwap, SliceBuf, LockSlow,
         ChooseSize, GrowChunk, GrowFails
    <3>2. ~ReclaimStep(g)
      BY <2>1 DEF ReclaimStep, Reset, Rewind, Rollback, BeginSweep, MayReclaim, StoreOff, StoreActive
    <3>3. ~CloseStep(g) /\ \A s \in Slots : ~Mark(g, s) /\ ~Savepoint(g, s)
      BY <2>1 DEF CloseStep, Close, CloseTake, Unmap, ClearChunk, Mark, Savepoint, MayUse
    <3> QED
      BY <3>1, <3>2, <3>3 DEF SnapshotStep
  <2>3. CASE SaveOff(g)
    <3> DEFINE k == loc[g].cur
    <3>1. /\ pc'[g] = "save" /\ k \in ChunkId /\ taken + k \in ChunkId
          /\ loc'[g].cur = k + 1 /\ loc'[g].slot = TxSlot
          /\ \A j \in ChunkId : sps'[TxSlot].off[j] = IF j = k THEN off[taken + k] ELSE sp.off[j]
          /\ sps'[TxSlot].n = sp.n /\ sps'[TxSlot].active = sp.active
          /\ sps'[TxSlot].state = sp.state
          /\ off' = off /\ grown' = grown /\ taken' = taken
      BY <1>t, <2>1, <2>3, SaveOffEffect DEF heap
    <3>2. \A c \in ChunkId : c < k + 1 => sps'[TxSlot].off[c] = tx.off[c]
      <4> SUFFICES ASSUME NEW c \in ChunkId, c < k + 1 PROVE sps'[TxSlot].off[c] = tx.off[c]
        OBVIOUS
      <4>1. c = k \/ c < k
        BY <1>n, <3>1
      <4>2. taken + k = k
        BY <1>0, <1>n, <3>1
      <4> QED
        BY <2>1, <3>1, <4>1, <4>2
    <3>3. NumChunks' = NumChunks
      BY <3>1 DEF NumChunks
    <3> QED
      BY <1>1, <1>3, <2>1, <3>1, <3>2, <3>3 DEF TxSaved
  <2>4. CASE SaveDone(g)
    <3>1. /\ loc[g].cur > NumChunks /\ sps'[TxSlot].off = sp.off /\ sps'[TxSlot].n = sp.n
          /\ sps'[TxSlot].active = sp.active /\ sps'[TxSlot].state = "valid"
          /\ grown' = grown /\ taken' = taken
      BY <1>t, <2>1, <2>4, SaveDoneEffect DEF heap
    <3>2. loc[g].cur \in Nat /\ NumChunks \in Nat
      BY <1>t, GoroutineTypes, LocalFields, InOrderElements
    <3>3. \A c \in ChunkId : c <= sp.n => sp.off[c] = tx.off[c]
      BY <1>n, <2>1, <3>1, <3>2
    <3>4. NumChunks' = NumChunks
      BY <3>1 DEF NumChunks
    <3> QED
      BY <1>1, <3>1, <3>3, <3>4 DEF TxSaved
  <2> QED
    BY <2>2, <2>3, <2>4
<1> QED
  BY <1>2, <1>3

(***************************************************************************)
(* Rollback restores chunk after chunk, and last the active pointer.       *)
(***************************************************************************)
LEMMA UndoStep ==
  ASSUME SharedInv, TxInv, NEW g \in Goroutines, tx.by = g, tx' = tx, Undisturbed, tx.phase = "undo",
         pc[g] # "idle",
         AllocStep(g) \/ ReclaimStep(g) \/ SnapshotStep(g) \/ CloseStep(g)
  PROVE  TxUndone'
<1>t. TypeOK
  BY DEF SharedInv
<1> DEFINE w == sweep[g]
<1>1. /\ pc[g] = "sweep" /\ w.active = tx.active
      /\ \A c \in ChunkId :
           off[c] = tx.off[c] \/ (w.off[c] = tx.off[c] /\ \E j \in 1..Len(w.todo) : w.todo[j] = c)
      /\ \A j \in 1..Len(w.todo) : w.off[w.todo[j]] = tx.off[w.todo[j]]
  BY DEF TxInv, TxUndone
<1>2. StoreOff(g) \/ StoreActive(g)
  <2>1. ~AllocStep(g)
    BY <1>1 DEF AllocStep, TryAlloc, MayUse, LoadOff, CompareAndSwap, SliceBuf, LockSlow,
       ChooseSize, GrowChunk, GrowFails
  <2>2. ~SnapshotStep(g) /\ ~CloseStep(g)
    BY <1>1 DEF SnapshotStep, Mark, Savepoint, SaveOff, SaveDone, MayUse, CloseStep, Close,
       CloseTake, Unmap, ClearChunk
  <2>3. ~Reset(g) /\ \A s \in Slots : ~Rewind(g, s) /\ ~Rollback(g, s)
    BY <1>1 DEF Reset, Rewind, Rollback, BeginSweep, MayReclaim
  <2> QED
    BY <2>1, <2>2, <2>3 DEF ReclaimStep
<1>3. CASE StoreOff(g)
  <2> DEFINE k == Head(w.todo)
  <2>1. /\ pc' = pc /\ w.todo # <<>>
        /\ \A d \in ChunkId : off'[d] = IF d = k THEN w.off[k] ELSE off[d]
        /\ sweep'[g].todo = Tail(w.todo) /\ sweep'[g].off = w.off /\ sweep'[g].active = w.active
    BY <1>3, <1>t, StoreOffEffect
  <2>2. w.todo \in Seq(ChunkId)
    BY <1>t, GoroutineTypes, SweepFields
  <2> HIDE DEF w
  <2>3. /\ Len(w.todo) \in Nat /\ Len(w.todo) >= 1 /\ k = w.todo[1]
        /\ Len(Tail(w.todo)) = Len(w.todo) - 1
        /\ \A j \in 1..(Len(w.todo) - 1) : Tail(w.todo)[j] = w.todo[j + 1]
    BY <2>1, <2>2
  <2> HIDE DEF k
  <2>4. ASSUME NEW c \in ChunkId
        PROVE  \/ off'[c] = tx.off[c]
               \/ w.off[c] = tx.off[c] /\ \E j \in 1..Len(Tail(w.todo)) : Tail(w.todo)[j] = c
    <3>1. CASE c = k
      <4>1. w.off[k] = tx.off[k]
        BY <1>1, <2>3
      <4> QED
        BY <2>1, <3>1, <4>1
    <3>2. CASE c # k /\ off[c] = tx.off[c]
      BY <2>1, <3>2
    <3>3. ASSUME c # k, w.off[c] = tx.off[c], NEW j \in 1..Len(w.todo), w.todo[j] = c
          PROVE  \E i \in 1..Len(Tail(w.todo)) : Tail(w.todo)[i] = c
      <4>1. j # 1
        BY <2>3, <3>3
      <4>2. j - 1 \in 1..(Len(w.todo) - 1) /\ (j - 1) + 1 = j
        BY <2>3, <4>1
      <4> QED
        BY <2>3, <3>3, <4>2
    <3> QED
      BY <1>1, <3>1, <3>2, <3>3
  <2>5. \A j \in 1..Len(Tail(w.todo)) : w.off[Tail(w.todo)[j]] = tx.off[Tail(w.todo)[j]]
    <3> SUFFICES ASSUME NEW j \in 1..Len(Tail(w.todo))
                 PROVE  w.off[Tail(w.todo)[j]] = tx.off[Tail(w.todo)[j]]
      OBVIOUS
    <3>1. j \in 1..(Len(w.todo) - 1) /\ j + 1 \in 1..Len(w.todo)
      BY <2>3
    <3>2. Tail(w.todo)[j] = w.todo[j + 1]
      BY <2>3, <3>1
    <3>3. w.off[w.todo[j + 1]] = tx.off[w.todo[j + 1]]
      BY <1>1, <3>1
    <3> QED
      BY <3>2, <3>3
  <2> DEFINE v == sweep'[g]
  <2>6. /\ v.active = tx.active
        /\ \A c \in ChunkId :
             off'[c] = tx.off[c] \/ (v.off[c] = tx.off[c] /\ \E j \in 1..Len(v.todo) : v.todo[j] = c)
        /\ \A j \in 1..Len(v.todo) : v.off[v.todo[j]] = tx.off[v.todo[j]]
    BY <1>1, <2>1, <2>4, <2>5
  <2>7. pc'[g] = "sweep" /\ tx'.by = g /\ tx' = tx
    BY <1>1, <2>1
  <2> QED
    BY <2>6, <2>7 DEF TxUndone
<1>4. CASE StoreActive(g)
  <2>1. pc'[g] = "idle" /\ active' = w.active /\ w.todo = <<>> /\ off' = off
    BY <1>4, <1>t, StoreActiveEffect
  <2>2. \A c \in ChunkId : off[c] = tx.off[c]
    BY <1>1, <2>1
  <2>3. off \in [ChunkId -> Nat] /\ tx.off \in [ChunkId -> Nat]
    BY <1>t DEF TypeOK, HeapTypeOK, TxInv, TxTypeOK
  <2>4. off = tx.off
    BY <2>2, <2>3
  <2> QED
    BY <1>1, <2>1, <2>4 DEF TxUndone
<1> QED
  BY <1>2, <1>3, <1>4

(***************************************************************************)
(* A transaction is made of calls of the arena.                            *)
(***************************************************************************)
LEMMA ArenaStepIsStep ==
  ASSUME NEW g \in Goroutines, ArenaStep(g)
  PROVE  AllocStep(g) \/ ReclaimStep(g) \/ SnapshotStep(g) \/ CloseStep(g)
  BY DEF ArenaStep, ReclaimStep, SnapshotStep

LEMMA TxStepIsStep == [TxNext]_tvars => [Next]_vars
<1> SUFFICES ASSUME [TxNext]_tvars PROVE [Next]_vars
  OBVIOUS
<1>1. ASSUME NEW g \in Goroutines, Transaction(g) PROVE Next
  <2>1. SnapshotStep(g)
    BY <1>1, TransactionAssumption DEF Transaction, SnapshotStep
  <2> QED
    BY <2>1 DEF Next
<1>2. ASSUME NEW g \in Goroutines, Fail(g) PROVE Next
  <2>1. ReclaimStep(g)
    BY <1>2, TransactionAssumption DEF Fail, ReclaimStep
  <2> QED
    BY <2>1 DEF Next
<1>3. ASSUME NEW g \in Goroutines, ArenaStep(g) PROVE Next
  BY <1>3, ArenaStepIsStep DEF Next
<1>4. ASSUME NEW g \in Goroutines, Commit(g) \/ FailRefused(g) \/ TxReturn(g) PROVE UNCHANGED vars
  BY <1>4 DEF Commit, FailRefused, TxReturn
<1>5. UNCHANGED tvars => UNCHANGED vars
  BY DEF tvars
<1> QED
  BY <1>1, <1>2, <1>3, <1>4, <1>5 DEF TxNext

LEMMA TxStep == SharedInv /\ SharedInv' /\ TidyInv /\ TxInv /\ [TxNext]_tvars => TxInv'
<1> SUFFICES ASSUME SharedInv, SharedInv', TidyInv, TxInv, [TxNext]_tvars PROVE TxInv'
  OBVIOUS
<1>1. ASSUME NEW g \in Goroutines, ArenaStep(g) PROVE TxInv'
  <2>s. AllocStep(g) \/ ReclaimStep(g) \/ SnapshotStep(g) \/ CloseStep(g)
    BY <1>1, ArenaStepIsStep
  <2>1. CASE tx = NoTx
    BY <1>1, <2>1, NoTxInv DEF ArenaStep
  <2>2. CASE tx.by = g
    <3>1. tx' = tx
      BY <1>1, <2>2 DEF ArenaStep
    <3>2. TxTypeOK'
      BY <3>1 DEF TxInv, TxTypeOK
    <3>3. closed = 1 => closed' = 1
      BY <2>s, CalmStep DEF SharedInv, Calm
    <3>4. closed \in {0, 1}
      BY DEF SharedInv, TypeOK, ControlTypeOK
    <3>5. Undisturbed' => Undisturbed
      BY <3>1, <3>3, <3>4 DEF Undisturbed
    <3>6. TxSaved'
      <4>1. CASE Undisturbed' /\ tx.phase = "fn"
        BY <1>1, <2>2, <2>s, <3>1, <4>1, FnStep
      <4>2. CASE ~(Undisturbed' /\ tx.phase = "fn")
        BY <3>1, <4>2 DEF TxSaved
      <4> QED
        BY <4>1, <4>2
    <3>7. TxUndone'
      <4>1. CASE Undisturbed' /\ tx.phase = "undo"
        <5>1. pc[g] # "idle"
          BY <1>1, <2>2, <4>1 DEF ArenaStep
        <5> QED
          BY <2>2, <2>s, <3>1, <3>5, <4>1, <5>1, UndoStep
      <4>2. CASE ~(Undisturbed' /\ tx.phase = "undo")
        BY <3>1, <4>2 DEF TxUndone
      <4> QED
        BY <4>1, <4>2
    <3> QED
      BY <3>2, <3>6, <3>7 DEF TxInv
  <2>3. CASE tx # NoTx /\ tx.by # g
    <3>1. tx' = [tx EXCEPT !.alone = FALSE]
      BY <1>1, <2>3 DEF ArenaStep
    <3>2. TxTypeOK' /\ tx'.alone = FALSE
      BY <3>1 DEF TxInv, TxTypeOK
    <3>3. ~Undisturbed'
      BY <3>2 DEF Undisturbed
    <3> QED
      BY <3>2, <3>3 DEF TxInv, TxSaved, TxUndone
  <2> QED
    BY <2>1, <2>2, <2>3
<1>2. ASSUME NEW g \in Goroutines, Commit(g) \/ FailRefused(g) \/ TxReturn(g) PROVE TxInv'
  BY <1>2, NoTxInv DEF Commit, FailRefused, TxReturn
<1>3. ASSUME UNCHANGED tvars PROVE TxInv'
  <2>1. /\ tx' = tx /\ taken' = taken /\ grown' = grown /\ off' = off /\ active' = active
        /\ closed' = closed /\ pc' = pc /\ loc' = loc /\ sweep' = sweep /\ sps' = sps
    BY <1>3 DEF tvars, vars, heap, held
  <2> QED
    BY <2>1 DEF TxInv, TxTypeOK, TxSaved, TxUndone, Undisturbed, NumChunks
<1> QED
  BY <1>1, <1>2, <1>3, TransactionEffect, FailEffect DEF TxNext

LEMMA TxInitInv == TxInit => TxInv
<1> SUFFICES ASSUME tx = NoTx PROVE TxInv
  BY DEF TxInit
<1>1. NoTx.by = NoOne /\ NoTx \in [by : Goroutines \cup {NoOne}, phase : {"none", "fn", "undo"},
                                   off : [ChunkId -> Nat], active : Nat, alone : BOOLEAN]
  BY ConstantTypes DEF NoTx, Nil
<1>2. ~Undisturbed
  BY <1>1, ArenaAssumption DEF Undisturbed
<1> QED
  BY <1>1, <1>2 DEF TxInv, TxTypeOK, TxSaved, TxUndone

(***************************************************************************)
(* A failed Transaction of a goroutine that had the arena to itself leaves *)
(* every offset and the active chunk as it found them, whatever fn called: *)
(* growth, Rewind below the savepoint, Reset, marks and savepoints of its  *)
(* own.  No discipline is asked of clients.                                *)
(***************************************************************************)
THEOREM FailureRestores == TxSpec => []FailedTransactionRestores
<1>1. TxSpec => Spec
  <2>1. TxInit => Init
    BY DEF TxInit
  <2> QED
    BY <2>1, TxStepIsStep, PTL DEF TxSpec, Spec
<1>2. TxSpec => []TidyInv
  <2>1. TxInit => TidyInv
    BY TidyInit DEF TxInit
  <2>2. SharedInv /\ TidyInv /\ [TxNext]_tvars => TidyInv'
    BY TidyStep, TxStepIsStep
  <2> QED
    BY <1>1, <2>1, <2>2, SharedInvariant, PTL DEF TxSpec
<1>3. TxSpec => []TxInv
  BY <1>1, <1>2, TxInitInv, TxStep, SharedInvariant, PTL DEF TxSpec
<1>4. TxInv => FailedTransactionRestores
  BY DEF TxInv, TxUndone, Undisturbed, FailedTransactionRestores
<1> QED
  BY <1>3, <1>4, PTL
=============================================================================
