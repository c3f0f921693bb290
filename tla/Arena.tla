------------------------------- MODULE Arena -------------------------------
(***************************************************************************)
(* The growable, concurrent bump allocator of arena.go and checkpoint.go:  *)
(* a list of chunks, an atomic pointer to the active one, an atomic offset *)
(* per chunk, and a mutex that allocSlow, Reset, Rewind, Mark, Savepoint,  *)
(* Rollback and Close take and that the fast allocation path does not.     *)
(*                                                                         *)
(* An action is one step of one goroutine between two accesses to shared   *)
(* memory that another goroutine can observe.  What the mutex hides (the   *)
(* slice a.chunks, the choice of the new size) is not split further.       *)
(*                                                                         *)
(* Chunks are numbered in the order in which newChunk makes them.  a.chunks*)
(* only ever grows at its end and is only ever emptied as a whole (Close), *)
(* so it is the interval taken+1 .. grown of those numbers.                *)
(*                                                                         *)
(* Calls that return early without touching any state (n <= 0, an          *)
(* alignment that is no power of two, a Rewind or Rollback that reports an *)
(* error, a nil or foreign Savepoint) are steps that change nothing, which *)
(* every specification allows, and have no action of their own.  The       *)
(* overflow tests of tryAlloc cannot fire: an offset never exceeds the     *)
(* length of a slice and n is an int, so their sum stays below 2^64.       *)
(***************************************************************************)
EXTENDS Integers, Sequences

CONSTANTS
  Goroutines,     \* the goroutines that share the arena
  Requests,       \* the (n, align) pairs they ask for; align a power of two
  ChunkSize,      \* Arena.chunkSize
  MaxCap,         \* Arena.maxCap; 0 is "no limit"
  Geometric,      \* Arena.geometricGrowth
  MaxChunkSize,   \* allocSlow's maxChunkSize (16 MiB)
  MarkModulus,    \* an ArenaMark keeps the offset modulo this (2^32)
  Bases,          \* the addresses at which the OS may place a chunk
  Slots,          \* where clients keep the marks and savepoints they took
  ClientSync,     \* clients reclaim memory only while no other call runs
  UseAfterClose,  \* clients go on calling a closed arena
  MaxChunks,      \* bound: chunks the OS can provide
  MaxAllocs,      \* bound: no call starts after this many allocations
  NoOne           \* the owner of a free mutex

ASSUME ArenaAssumption ==
  /\ Requests \subseteq [n : Nat \ {0}, align : Nat \ {0}]
  /\ ChunkSize \in Nat \ {0}
  /\ MaxCap \in Nat
  /\ MaxChunkSize \in Nat \ {0}
  /\ MarkModulus \in Nat \ {0}
  /\ Bases \subseteq Nat
  /\ Bases # {}
  /\ Slots \subseteq Nat
  /\ {Geometric, ClientSync, UseAfterClose} \subseteq BOOLEAN
  /\ MaxChunks \in Nat \ {0}
  /\ MaxAllocs \in Nat
  /\ NoOne \notin Goroutines

VARIABLES
  taken,     \* chunks with a number <= taken were removed by Close
  grown,     \* the number of chunks made
  cap,       \* len(c.buf) of each chunk
  off,       \* c.off
  base,      \* c.base
  mapped,    \* the chunks whose memory the OS still lends
  curCap,    \* the sum of len(c.buf) over a.chunks, as allocSlow adds it up
  active,    \* Arena.active, a chunk number or Nil
  mu,        \* who holds Arena.mu
  closed,    \* Arena.closed
  pc,        \* where each goroutine is
  loc,       \* its local variables
  sweep,     \* the offsets that a Reset, Rewind or Rollback is storing
  marks,     \* the ArenaMarks clients hold
  sps,       \* the Savepoints clients hold
  live,      \* history: the byte ranges in use
  clock,     \* history: the number of allocations made
  outcome    \* history: how each goroutine's last allocation ended

heap  == <<taken, grown, cap, base, mapped, curCap>>
ghost == <<live, clock>>
held  == <<marks, sps>>
vars  == <<heap, off, active, mu, closed, pc, loc, sweep, held, ghost, outcome>>

Nil     == 0
ChunkId == 1..MaxChunks
Chunks  == (taken + 1)..grown        \* a.chunks
NumChunks == grown - taken           \* len(a.chunks)

Zeroes == [c \in ChunkId |-> 0]

NoRequest == [n |-> 0, align |-> 1]
NoLocals  == [req |-> NoRequest, ctx |-> "fast", cur |-> Nil, lim |-> 0,
              off |-> 0, lo |-> 0, hi |-> 0, size |-> 0, slot |-> 0]
NoSweep   == [todo |-> <<>>, off |-> Zeroes, stamp |-> Zeroes, since |-> 0,
              active |-> Nil]

(***************************************************************************)
(* The zero ArenaMark is the start of the first chunk.  A mark also        *)
(* remembers (history) when it was taken.                                  *)
(***************************************************************************)
ZeroMark == [idx |-> 1, off |-> 0, stamp |-> 0]

(***************************************************************************)
(* A Savepoint, by position in a.chunks, with the (history) instants at    *)
(* which each offset was loaded and the call began.  A slot holds the nil  *)
(* pointer until a Savepoint call has returned.                            *)
(***************************************************************************)
NilSavepoint == [state |-> "nil", n |-> 0, active |-> 1,
                 off |-> Zeroes, stamp |-> Zeroes, since |-> 0]

(***************************************************************************)
(* NewArena: one chunk of chunkSize bytes, whatever maxCap is.             *)
(***************************************************************************)
Init ==
  /\ taken = 0
  /\ grown = 1
  /\ cap = [Zeroes EXCEPT ![1] = ChunkSize]
  /\ off = Zeroes
  /\ \E b \in Bases : base = [Zeroes EXCEPT ![1] = b]
  /\ mapped = {1}
  /\ curCap = ChunkSize
  /\ active = 1
  /\ mu = NoOne
  /\ closed = 0
  /\ pc = [g \in Goroutines |-> "idle"]
  /\ loc = [g \in Goroutines |-> NoLocals]
  /\ sweep = [g \in Goroutines |-> NoSweep]
  /\ marks = [s \in Slots |-> ZeroMark]
  /\ sps = [s \in Slots |-> NilSavepoint]
  /\ live = {}
  /\ clock = 0
  /\ outcome = [g \in Goroutines |-> "none"]

(***************************************************************************)
(* The discipline clients follow: doc.go forbids using allocations after   *)
(* Reset, so a client that shares an arena reclaims only when the other    *)
(* goroutines are outside it.  With ClientSync FALSE calls race freely.    *)
(***************************************************************************)
Reclaiming == {"sweep", "take", "release", "clear"}

MayUse(g) ==
  /\ pc[g] = "idle"
  /\ UseAfterClose \/ closed = 0
  /\ ClientSync => \A h \in Goroutines : pc[h] \notin Reclaiming

MayReclaim(g) ==
  /\ pc[g] = "idle"
  /\ UseAfterClose \/ closed = 0
  /\ ClientSync => \A h \in Goroutines : pc[h] = "idle"

Goto(g, label) == pc' = [pc EXCEPT ![g] = label]

SetLocals(g, l) == loc' = [loc EXCEPT ![g] = l]

Return(g) == Goto(g, "idle") /\ SetLocals(g, NoLocals)

FailLocked_NoUnlock(g, why) ==
  /\ Return(g)
  /\ outcome' = [outcome EXCEPT ![g] = why]
  /\ UNCHANGED mu

(***************************************************************************)
(* "return nil, false" inside allocSlow: the deferred Unlock runs.         *)
(***************************************************************************)
FailLocked(g, why) ==
  /\ Return(g)
  /\ outcome' = [outcome EXCEPT ![g] = why]
  /\ mu' = NoOne

----------------------------------------------------------------------------
(* Allocation *)

(***************************************************************************)
(* TryAlloc / TryAllocAligned load the active pointer; tryAlloc then reads *)
(* len(c.buf), once for all iterations of its loop.  The two reads are one *)
(* step: a length that Close zeroed in between sends the goroutine to      *)
(* allocSlow, as the nil pointer does that Close stored before.            *)
(***************************************************************************)
TryOn(g, c, ctx) ==
  SetLocals(g, [loc[g] EXCEPT !.cur = c, !.ctx = ctx, !.lim = cap[c]])

TryAlloc(g, rq) ==
  /\ MayUse(g)
  /\ clock < MaxAllocs
  /\ IF active = Nil
       THEN /\ Goto(g, "lock")
            /\ SetLocals(g, [NoLocals EXCEPT !.req = rq])
       ELSE /\ Goto(g, "try")
            /\ SetLocals(g, [NoLocals EXCEPT !.req = rq, !.cur = active,
                                             !.lim = cap[active]])
  /\ outcome' = [outcome EXCEPT ![g] = "none"]
  /\ UNCHANGED <<heap, off, active, mu, closed, sweep, held, ghost>>

(***************************************************************************)
(* (addr + mask) & ^mask, for a power of two                               *)
(***************************************************************************)
AlignUp(addr, align) == LET s == addr + (align - 1) IN s - (s % align)

AlignedOff_IgnoresBase(c, o, align) == AlignUp(o, align)

AlignedOff(c, o, align) == AlignUp(base[c] + o, align) - base[c]

(***************************************************************************)
(* The next thing allocSlow does once a chunk of the list has no room: the *)
(* chunk after it, or a new chunk.                                         *)
(***************************************************************************)
ScanOn(g, c) ==
  IF c \in Chunks /\ c < grown
    THEN Goto(g, "try") /\ TryOn(g, c + 1, "scan")
    ELSE Goto(g, "size") /\ UNCHANGED loc

Fits_OffByOne(l, lo, hi) == lo >= off[l.cur] /\ hi <= l.lim + 1

(***************************************************************************)
(* The test of tryAlloc: a wrapped or too large range is refused.          *)
(***************************************************************************)
Fits(l, lo, hi) == lo >= off[l.cur] /\ hi <= l.lim

(***************************************************************************)
(* One iteration of the loop of tryAlloc / tryAllocAligned up to its CAS:  *)
(* load the offset, give up if the end is beyond the capacity.  A failure  *)
(* on the fast path queues for the mutex; one on the chunk that allocSlow  *)
(* just made is the failure of the whole call.                             *)
(***************************************************************************)
LoadOff(g) ==
  /\ pc[g] = "try"
  /\ LET l  == loc[g]
         lo == AlignedOff(l.cur, off[l.cur], l.req.align)
         hi == lo + l.req.n
     IN IF Fits(l, lo, hi)
          THEN /\ Goto(g, "cas")
               /\ SetLocals(g, [l EXCEPT !.off = off[l.cur], !.lo = lo, !.hi = hi])
               /\ UNCHANGED <<mu, outcome>>
          ELSE \/ /\ l.ctx = "fast"
                  /\ Goto(g, "lock")
                  /\ UNCHANGED <<loc, mu, outcome>>
               \/ /\ l.ctx \in {"retry", "scan"}
                  /\ ScanOn(g, l.cur)
                  /\ UNCHANGED <<mu, outcome>>
               \/ /\ l.ctx = "fresh"
                  /\ FailLocked(g, "fresh")
  /\ UNCHANGED <<heap, off, active, closed, sweep, held, ghost>>

Unmoved_Unchecked(l) == TRUE

(***************************************************************************)
(* The comparison of the CAS: nobody moved the offset since it was loaded. *)
(***************************************************************************)
Unmoved(l) == off[l.cur] = l.off

(***************************************************************************)
(* CompareAndSwapUint64(&c.off, off, end).  The bytes are the caller's     *)
(* from this step on; a chunk that Close has already emptied has none.     *)
(***************************************************************************)
CompareAndSwap(g) ==
  /\ pc[g] = "cas"
  /\ LET l == loc[g]
         r == [chunk |-> l.cur, lo |-> l.lo, hi |-> l.hi, at |-> clock + 1,
               align |-> l.req.align]
     IN IF Unmoved(l)
          THEN /\ Goto(g, "slice")
               /\ off' = [off EXCEPT ![l.cur] = l.hi]
               /\ IF l.hi <= cap[l.cur]
                    THEN live' = live \cup {r} /\ clock' = clock + 1
                    ELSE UNCHANGED ghost
          ELSE /\ Goto(g, "try")
               /\ UNCHANGED <<off, ghost>>
  /\ UNCHANGED <<heap, active, mu, closed, loc, sweep, held, outcome>>

(***************************************************************************)
(* return c.buf[off:end]: a second read of c.buf, which panics if Close    *)
(* set it to nil meanwhile (a torn read of the slice header gives one of   *)
(* the same two outcomes: the panic, or a slice of bytes that are gone).   *)
(* The deferred Unlock runs in both cases; a chunk found by the scan       *)
(* becomes the active one.                                                 *)
(***************************************************************************)
SliceBuf(g) ==
  /\ pc[g] = "slice"
  /\ LET l  == loc[g]
         ok == l.hi <= cap[l.cur]
     IN /\ outcome' = [outcome EXCEPT ![g] = IF ok THEN "ok" ELSE "panic"]
        /\ active' = IF ok /\ l.ctx = "scan" THEN l.cur ELSE active
        /\ mu' = IF l.ctx = "fast" THEN mu ELSE NoOne
  /\ Return(g)
  /\ UNCHANGED <<heap, off, closed, sweep, held, ghost>>

(***************************************************************************)
(* allocSlow takes the mutex and first tries the active chunk again.       *)
(***************************************************************************)
LockSlow(g) ==
  /\ pc[g] = "lock"
  /\ mu = NoOne
  /\ mu' = g
  /\ IF active = Nil
       THEN Goto(g, "size") /\ UNCHANGED loc
       ELSE Goto(g, "try") /\ TryOn(g, active, "retry")
  /\ UNCHANGED <<heap, off, active, closed, sweep, held, ghost, outcome>>

(***************************************************************************)
(* The size of the chunk that allocSlow asks newChunk for: chunkSize, or   *)
(* the present capacity (up to maxChunkSize) if that is larger, or n.      *)
(***************************************************************************)
WantedSize(n) ==
  LET nextCap   == IF curCap > MaxChunkSize THEN MaxChunkSize ELSE curCap
      doubled   == IF Geometric /\ curCap > 0 /\ nextCap > ChunkSize
                     THEN nextCap ELSE ChunkSize
  IN IF n > doubled THEN n ELSE doubled

ClampedSize_OnlyIfFull(n) == IF MaxCap > 0 /\ curCap >= MaxCap THEN 0 ELSE WantedSize(n)

(***************************************************************************)
(* The clamp to maxCap; 0 stands for "return nil, false".                  *)
(***************************************************************************)
ClampedSize(n) ==
  LET want == WantedSize(n)
  IN IF MaxCap = 0 \/ curCap + want <= MaxCap THEN want
     ELSE IF curCap < MaxCap /\ n <= MaxCap - curCap THEN MaxCap - curCap
     ELSE 0

ChooseSize(g) ==
  /\ pc[g] = "size"
  /\ LET size == ClampedSize(loc[g].req.n)
     IN IF size = 0
          THEN FailLocked(g, "limit")
          ELSE /\ Goto(g, "map")
               /\ SetLocals(g, [loc[g] EXCEPT !.size = size])
               /\ UNCHANGED <<mu, outcome>>
  /\ UNCHANGED <<heap, off, active, closed, sweep, held, ghost>>

(***************************************************************************)
(* newChunk succeeds: the chunk is appended and made active, and only then *)
(* allocated from, so the fast path of others reaches it first if it can.  *)
(***************************************************************************)
GrowChunk(g) ==
  /\ pc[g] = "map"
  /\ grown < MaxChunks
  /\ LET c == grown + 1
     IN /\ grown' = c
        /\ cap' = [cap EXCEPT ![c] = loc[g].size]
        /\ off' = [off EXCEPT ![c] = 0]
        /\ \E b \in Bases : base' = [base EXCEPT ![c] = b]
        /\ mapped' = mapped \cup {c}
        /\ curCap' = curCap + loc[g].size
        /\ active' = c
        /\ Goto(g, "try")
        /\ SetLocals(g, [loc[g] EXCEPT !.cur = c, !.ctx = "fresh", !.lim = loc[g].size])
  /\ UNCHANGED <<taken, mu, closed, sweep, held, ghost, outcome>>

(***************************************************************************)
(* newChunk fails: the operating system has no memory to give.             *)
(***************************************************************************)
GrowFails(g) ==
  /\ pc[g] = "map"
  /\ FailLocked(g, "os")
  /\ UNCHANGED <<heap, off, active, closed, sweep, held, ghost>>

----------------------------------------------------------------------------
(* Taking memory back: Reset, Rewind, Rollback *)

InOrder == [i \in 1..NumChunks |-> taken + i]

(***************************************************************************)
(* Lock the mutex and begin to store the offsets of plan, one atomic store *)
(* at a time.  plan.stamp says for each chunk which allocations the store  *)
(* leaves alone: those made up to that instant; plan.since (history) is    *)
(* the instant the whole call goes back to.                                *)
(***************************************************************************)
BeginSweep(g, plan) ==
  /\ MayReclaim(g)
  /\ mu = NoOne
  /\ mu' = g
  /\ Goto(g, "sweep")
  /\ sweep' = [sweep EXCEPT ![g] = plan]
  /\ UNCHANGED <<heap, off, active, closed, loc, held, ghost, outcome>>

Reset(g) ==
  BeginSweep(g, [NoSweep EXCEPT !.todo = InOrder,
                   !.active = IF NumChunks > 0 THEN taken + 1 ELSE active])

(***************************************************************************)
(* Rewind(mark): zero the chunks after the mark's, then set the mark's.    *)
(***************************************************************************)
RewindAllowed(m) ==
  LET target == taken + m.idx
  IN /\ m.idx <= NumChunks
     /\ m.off <= cap[target]
     /\ target <= active
     /\ target = active => m.off <= off[active]

Rewind(g, s) ==
  LET m      == marks[s]
      target == taken + m.idx
  IN /\ RewindAllowed(m)
     /\ BeginSweep(g,
          [todo   |-> Append([i \in 1..(grown - target) |-> target + i], target),
           off    |-> [Zeroes EXCEPT ![target] = m.off],
           stamp  |-> [Zeroes EXCEPT ![target] = m.stamp],
           since  |-> m.stamp,
           active |-> target])

(***************************************************************************)
(* Rollback(sp): the saved offsets, and 0 for chunks grown since.          *)
(***************************************************************************)
Saved(sp, f) ==
  [c \in ChunkId |-> IF c - taken \in 1..sp.n THEN f[c - taken] ELSE 0]

Rollback(g, s) ==
  LET sp == sps[s]
  IN /\ sp.state = "valid"
     /\ sp.n <= NumChunks
     /\ BeginSweep(g,
          [todo   |-> InOrder,
           off    |-> Saved(sp, sp.off),
           stamp  |-> Saved(sp, sp.stamp),
           since  |-> sp.since,
           active |-> IF sp.active <= NumChunks THEN taken + sp.active ELSE active])

(***************************************************************************)
(* atomic.StoreUint64(&c.off, ...) for the next chunk.  What was allocated *)
(* there after the instant the call goes back to is nobody's any more.     *)
(***************************************************************************)
StoreOff(g) ==
  /\ pc[g] = "sweep"
  /\ sweep[g].todo # <<>>
  /\ LET c == Head(sweep[g].todo)
     IN /\ off' = [off EXCEPT ![c] = sweep[g].off[c]]
        /\ live' = {r \in live : r.chunk = c => r.at <= sweep[g].stamp[c]}
        /\ sweep' = [sweep EXCEPT ![g] = [sweep[g] EXCEPT !.todo = Tail(@)]]
  /\ UNCHANGED <<heap, active, mu, closed, pc, loc, held, clock, outcome>>

(***************************************************************************)
(* The last store of a reclaim is the one to the active pointer.           *)
(***************************************************************************)
StoreActive(g) ==
  /\ pc[g] = "sweep"
  /\ sweep[g].todo = <<>>
  /\ active' = sweep[g].active
  /\ mu' = NoOne
  /\ Goto(g, "idle")
  /\ sweep' = [sweep EXCEPT ![g] = NoSweep]
  /\ UNCHANGED <<heap, off, closed, loc, held, ghost, outcome>>

----------------------------------------------------------------------------
(* Remembering a position: Mark, Savepoint *)

(***************************************************************************)
(* Mark: the position of the active chunk in a.chunks and its offset, as   *)
(* makeMark packs them (32 bits of offset).                                *)
(***************************************************************************)
MarkedChunk_First == taken + 1

MarkedChunk == IF active \in Chunks THEN active ELSE taken + 1

MakeMark_ZeroBased(idx, o) == [idx |-> idx - 1, off |-> o % MarkModulus, stamp |-> clock]
MakeMark_DropsOffset(idx, o) == [idx |-> idx, off |-> 0, stamp |-> clock]

MakeMark(idx, o) == [idx |-> idx, off |-> o % MarkModulus, stamp |-> clock]

Mark(g, s) ==
  /\ MayUse(g)
  /\ mu = NoOne
  /\ marks' = [marks EXCEPT ![s] =
       IF NumChunks > 0 THEN MakeMark(MarkedChunk - taken, off[MarkedChunk])
                        ELSE MakeMark(1, 0)]
  /\ UNCHANGED <<heap, off, active, mu, closed, pc, loc, sweep, sps, ghost, outcome>>

(***************************************************************************)
(* Savepoint: under the mutex, but the offsets are loaded one by one while *)
(* the fast path of other goroutines moves them.  loc.cur is the position  *)
(* of the next one, loc.slot says where the client keeps the result.       *)
(***************************************************************************)
Savepoint(g, s) ==
  /\ MayUse(g)
  /\ mu = NoOne
  /\ mu' = g
  /\ Goto(g, "save")
  /\ SetLocals(g, [loc[g] EXCEPT !.cur = 1, !.slot = s])
  /\ sps' = [sps EXCEPT ![s] = [NilSavepoint EXCEPT !.n = NumChunks, !.since = clock,
                !.active = IF active \in Chunks THEN active - taken ELSE 1]]
  /\ UNCHANGED <<heap, off, active, closed, sweep, marks, ghost, outcome>>

SaveOff(g) ==
  /\ pc[g] = "save"
  /\ LET i == loc[g].cur
         s == loc[g].slot
     IN /\ i <= NumChunks
        /\ sps' = [sps EXCEPT ![s] = [sps[s] EXCEPT !.off   = [@ EXCEPT ![i] = off[taken + i]],
                                                    !.stamp = [@ EXCEPT ![i] = clock]]]
        /\ SetLocals(g, [loc[g] EXCEPT !.cur = i + 1])
  /\ UNCHANGED <<heap, off, active, mu, closed, pc, sweep, marks, ghost, outcome>>

SaveDone(g) ==
  /\ pc[g] = "save"
  /\ loc[g].cur > NumChunks
  /\ sps' = [sps EXCEPT ![loc[g].slot] = [sps[loc[g].slot] EXCEPT !.state = "valid"]]
  /\ mu' = NoOne
  /\ Return(g)
  /\ UNCHANGED <<heap, off, active, closed, sweep, marks, ghost, outcome>>

----------------------------------------------------------------------------
(* Close *)

(***************************************************************************)
(* The CAS on closed: the second and later calls return at once.           *)
(***************************************************************************)
Close(g) ==
  /\ pc[g] = "idle"
  /\ ClientSync => \A h \in Goroutines : pc[h] = "idle"
  /\ closed' = 1
  /\ IF closed = 1 THEN UNCHANGED pc ELSE Goto(g, "take")
  /\ UNCHANGED <<heap, off, active, mu, loc, sweep, held, ghost, outcome>>

CloseTake_KeepsActive(g) ==
  /\ pc[g] = "take"
  /\ mu = NoOne
  /\ taken' = grown
  /\ curCap' = 0
  /\ Goto(g, "release")
  /\ SetLocals(g, [loc[g] EXCEPT !.cur = taken + 1, !.lim = grown])
  /\ UNCHANGED <<grown, cap, base, mapped, off, active, mu, closed, sweep, held, ghost, outcome>>

(***************************************************************************)
(* Under the mutex the list and the active pointer are cleared; loc.cur    *)
(* and loc.lim delimit the local slice of chunks still to be released.     *)
(***************************************************************************)
CloseTake(g) ==
  /\ pc[g] = "take"
  /\ mu = NoOne
  /\ taken' = grown
  /\ curCap' = 0
  /\ active' = Nil
  /\ IF NumChunks = 0
       THEN Return(g)
       ELSE /\ Goto(g, "release")
            /\ SetLocals(g, [loc[g] EXCEPT !.cur = taken + 1, !.lim = grown])
  /\ UNCHANGED <<grown, cap, base, mapped, off, mu, closed, sweep, held, ghost, outcome>>

(***************************************************************************)
(* c.release(c.buf): munmap, which does not fail on what mmap returned.    *)
(***************************************************************************)
Unmap(g) ==
  /\ pc[g] = "release"
  /\ mapped' = mapped \ {loc[g].cur}
  /\ live' = {r \in live : r.chunk # loc[g].cur}
  /\ Goto(g, "clear")
  /\ UNCHANGED <<taken, grown, cap, base, curCap, off, active, mu, closed, loc,
                 sweep, held, clock, outcome>>

MoreToRelease_StopsEarly(l) == l.cur + 1 < l.lim

MoreToRelease(l) == l.cur < l.lim

(***************************************************************************)
(* c.buf, c.base and c.off of a released chunk are set to their zeroes.    *)
(***************************************************************************)
ClearChunk(g) ==
  /\ pc[g] = "clear"
  /\ LET c == loc[g].cur
     IN /\ cap' = [cap EXCEPT ![c] = 0]
        /\ base' = [base EXCEPT ![c] = 0]
        /\ off' = [off EXCEPT ![c] = 0]
        /\ live' = {r \in live : r.chunk # c}
        /\ IF MoreToRelease(loc[g])
             THEN /\ Goto(g, "release")
                  /\ SetLocals(g, [loc[g] EXCEPT !.cur = c + 1])
             ELSE Return(g)
  /\ UNCHANGED <<taken, grown, mapped, curCap, active, mu, closed, sweep, held,
                 clock, outcome>>

----------------------------------------------------------------------------

AllocStep(g) ==
  \/ \E rq \in Requests : TryAlloc(g, rq)
  \/ LoadOff(g)
  \/ CompareAndSwap(g)
  \/ SliceBuf(g)
  \/ LockSlow(g)
  \/ ChooseSize(g)
  \/ GrowChunk(g)
  \/ GrowFails(g)

ReclaimStep(g) ==
  \/ Reset(g)
  \/ \E s \in Slots : Rewind(g, s)
  \/ \E s \in Slots : Rollback(g, s)
  \/ StoreOff(g)
  \/ StoreActive(g)

SnapshotStep(g) ==
  \/ \E s \in Slots : Mark(g, s)
  \/ \E s \in Slots : Savepoint(g, s)
  \/ SaveOff(g)
  \/ SaveDone(g)

CloseStep(g) ==
  \/ Close(g)
  \/ CloseTake(g)
  \/ Unmap(g)
  \/ ClearChunk(g)

Next ==
  \E g \in Goroutines :
    AllocStep(g) \/ ReclaimStep(g) \/ SnapshotStep(g) \/ CloseStep(g)

Spec == Init /\ [][Next]_vars

(***************************************************************************)
(* Go runs every runnable goroutine, so a goroutine inside a call goes on; *)
(* sync.Mutex hands itself to a waiter that has waited for a millisecond   *)
(* (its starvation mode), so one that waits for it over and over gets it.  *)
(***************************************************************************)
Fairness ==
  \A g \in Goroutines :
    /\ WF_vars(pc[g] # "idle" /\ (AllocStep(g) \/ ReclaimStep(g) \/ SnapshotStep(g) \/ CloseStep(g)))
    /\ SF_vars(LockSlow(g))
    /\ SF_vars(CloseTake(g))

FairSpec == Spec /\ Fairness

----------------------------------------------------------------------------
(* Properties *)

Labels == {"idle", "try", "cas", "slice", "lock", "size", "map", "sweep", "save",
           "take", "release", "clear"}

Locals == [req : [n : Nat, align : Nat \ {0}],
           ctx : {"fast", "retry", "scan", "fresh"},
           cur : Nat, lim : Nat, off : Nat, lo : Nat, hi : Nat,
           size : Nat, slot : Nat]

Sweeps == [todo : Seq(ChunkId), off : [ChunkId -> Nat], stamp : [ChunkId -> Nat],
           since : Nat, active : 0..MaxChunks]

Savepoints == [state : {"nil", "valid"}, n : Nat, active : Nat \ {0}, off : [ChunkId -> Nat],
               stamp : [ChunkId -> Nat], since : Nat]

Stack == INSTANCE RegionStack WITH Chunk <- ChunkId

HeapTypeOK ==
  /\ taken \in Nat /\ grown \in ChunkId /\ taken <= grown
  /\ cap \in [ChunkId -> Nat]
  /\ off \in [ChunkId -> Nat]
  /\ base \in [ChunkId -> Nat]
  /\ mapped \in SUBSET ChunkId
  /\ curCap \in Nat
  /\ active \in 0..MaxChunks

ControlTypeOK ==
  /\ mu \in Goroutines \cup {NoOne}
  /\ closed \in {0, 1}
  /\ pc \in [Goroutines -> Labels]
  /\ outcome \in [Goroutines -> {"none", "ok", "limit", "os", "fresh", "panic"}]

LocalTypeOK ==
  /\ loc \in [Goroutines -> Locals]
  /\ sweep \in [Goroutines -> Sweeps]

HeldTypeOK ==
  /\ marks \in [Slots -> [idx : Nat \ {0}, off : Nat, stamp : Nat]]
  /\ sps \in [Slots -> Savepoints]

(***************************************************************************)
(* Every variable of the arena, of a goroutine inside one of its methods   *)
(* and of the marks and savepoints it handed out has its type.             *)
(***************************************************************************)
TypeOK ==
  HeapTypeOK /\ ControlTypeOK /\ LocalTypeOK /\ HeldTypeOK /\ Stack!StackTypeOK

(***************************************************************************)
(* Every chunk is small enough for its offsets to survive makeMark (in the *)
(* code: below 4 GiB).  The proofs assume it; without it Rewind may go     *)
(* below memory that is still in use.                                      *)
(***************************************************************************)
OffsetsFitMark ==
  /\ ChunkSize < MarkModulus
  /\ MaxChunkSize < MarkModulus
  /\ \A rq \in Requests : rq.n < MarkModulus

(***************************************************************************)
(* Two allocations that are both still in use never share a byte, whatever *)
(* the goroutines' fast paths, growth, Reset, Rewind, Rollback and Close   *)
(* did and in whatever order their atomic steps took effect.               *)
(***************************************************************************)
NoOverlap == Stack!StackDisjoint

(***************************************************************************)
(* Chunks behave as stacks: seen from its callers an arena only puts an    *)
(* allocation above all live ones of a chunk, or drops the youngest ones.  *)
(***************************************************************************)
ImplementsStack == Stack!StackSpec

(***************************************************************************)
(* The address handed out by tryAllocAligned is a multiple of the          *)
(* alignment asked for, even in a chunk whose base is not.                 *)
(***************************************************************************)
AddressesAligned ==
  \A r \in live : (base[r.chunk] + r.lo) % r.align = 0

(***************************************************************************)
(* The active pointer is nil exactly when a.chunks is empty and otherwise  *)
(* points into it: the linear searches of allocSlow, Mark, Rewind and      *)
(* Savepoint always find it, and Rewind never dereferences nil.            *)
(***************************************************************************)
ActiveListed ==
  /\ active = Nil <=> Chunks = {}
  /\ active # Nil => active \in Chunks

(***************************************************************************)
(* Concurrent growth never takes the arena over maxCap (the first chunk    *)
(* is allocated without looking at maxCap).                                *)
(***************************************************************************)
CapacityBounded ==
  MaxCap > 0 => curCap <= MaxCap \/ curCap <= ChunkSize

(***************************************************************************)
(* Clients went on after Close, and chunks may have been grown anew.       *)
(***************************************************************************)
Reopened == UseAfterClose /\ taken > 0

(***************************************************************************)
(* No chunk in the list has an offset beyond its bytes, whatever the       *)
(* concurrent fast paths and reclaiming calls store there, so the sum that *)
(* Stats and UsedBytes report as used never exceeds the capacity.  In an   *)
(* arena used after Close a Savepoint from before it breaks this: Rollback *)
(* only compares the number of chunks.                                     *)
(***************************************************************************)
UsedWithinCapacity == Reopened \/ \A c \in Chunks : off[c] <= cap[c]

(***************************************************************************)
(* The list of chunks stays in order, with Close and use after Close among *)
(* what races: the active pointer is in it and no offset is beyond its     *)
(* chunk.                                                                  *)
(***************************************************************************)
ListSound == ActiveListed /\ UsedWithinCapacity

(***************************************************************************)
(* No allocation panics while slicing c.buf.                               *)
(***************************************************************************)
NoSlicePanic == \A g \in Goroutines : outcome[g] # "panic"

(***************************************************************************)
(* When Close has returned, and no call is under way, the operating system *)
(* has every byte back.                                                    *)
(***************************************************************************)
CloseReleasesAll ==
  (closed = 1 /\ \A g \in Goroutines : pc[g] = "idle") => mapped = {}

(***************************************************************************)
(* The chunk that allocSlow has made has room for the request that needed  *)
(* it, even if it was cut to maxCap, as long as it is as aligned as the    *)
(* request asks.  Its call fails then only if the fast path of others has  *)
(* used the chunk up before, which they can as soon as it is active.       *)
(***************************************************************************)
FreshChunkFits ==
  \A g \in Goroutines :
    LET l == loc[g]
    IN  pc[g] = "try" /\ l.ctx = "fresh" /\ off[l.cur] = 0 /\ base[l.cur] % l.req.align = 0 =>
          l.req.n <= l.lim

(***************************************************************************)
(* Growth keeps to maxCap and serves the request it was made for.          *)
(***************************************************************************)
GrowthSound == CapacityBounded /\ FreshChunkFits

(***************************************************************************)
(* Rewind and Rollback take back no allocation that was made before the    *)
(* mark or the savepoint was taken.                                        *)
(***************************************************************************)
KeepsOlder ==
  [][\A g \in Goroutines : pc[g] = "sweep" =>
       \A r \in live \ live' : sweep[g].since < r.at]_vars

(***************************************************************************)
(* In the loop of the lock-free path of an allocation.                     *)
(***************************************************************************)
OnFastPath(g) == pc[g] \in {"try", "cas"} /\ loc[g].ctx = "fast"

(***************************************************************************)
(* Every call returns: no goroutine waits forever for the mutex or for a   *)
(* chunk, on any of the paths that leave a critical section.  Only the     *)
(* loop of the fast path, which is lock-free but not wait-free, may lose   *)
(* its CAS over and over, and only as long as others move the offset up    *)
(* and down again, by calls that take memory back.                         *)
(***************************************************************************)
CallsReturn ==
  \A g \in Goroutines :
    /\ pc[g] # "idle" /\ ~OnFastPath(g) ~> pc[g] = "idle"
    /\ []<>~OnFastPath(g) \/ []<>(\E h \in Goroutines : pc[h] = "sweep")
============================================================================
