------------------------------- MODULE Scope -------------------------------
(***************************************************************************)
(* Scopes of arena.go, used by several goroutines at once: EnterScope,     *)
(* the allocation functions, OnExit, AllocMap, AllocChan and Exit, with    *)
(* the scope counters of metrics.go.                                       *)
(*                                                                         *)
(* The arena is left out but for the blocks it returns, each of one unit.  *)
(* Maps and channels come from pools shared by all scopes (sync.Pool, one  *)
(* per type); the model has one pool, whose objects are channels if they   *)
(* are in Channels and maps otherwise.                                     *)
(***************************************************************************)
EXTENDS Integers, FiniteSets, Sequences, SequencesExt

CONSTANTS
  Goroutines, Scopes,
  Functions,   \* what clients register with OnExit, each at most once
  Objects,     \* bound: the maps and channels that can be made
  Channels,    \* those of them that are channels
  MaxBlocks,   \* bound: blocks allocated through all scopes
  NoOne

ASSUME ScopeAssumption ==
  /\ Channels \subseteq Objects
  /\ Functions \cap Objects = {}
  /\ MaxBlocks \in Nat
  /\ NoOne \notin Scopes \cup Functions \cup Objects

VARIABLES
  entered,     \* the scopes that EnterScope has returned
  active,      \* those with s.active = 1
  used,        \* s.used
  cleanups,    \* s.cleanups: functions of clients, and objects to give back
  allocs,      \* s.allocs
  made,        \* the blocks allocated so far are 1..made
  poisoned,    \* the blocks filled with the poison pattern
  pooled,      \* the objects in the pools
  fresh,       \* the objects not made yet
  filled,      \* the objects that hold data
  shut,        \* the channels that were closed
  held,        \* the objects clients got through each scope, until given back
  metrics,     \* activeScopes and gcBypassedBytesTotal of GlobalMetrics
  pc, loc,     \* where each goroutine is, with its scope and local variables
  owned,       \* history: the blocks allocated through each scope
  ran,         \* history: the cleanups that have run, in order
  registered,  \* history: the cleanups that were registered, in order
  lent,        \* history: the objects taken out of the pools through each
               \* scope, until its cleanup for them has run
  messy        \* history: scopes on which a call overlapped another one that
               \* the code does not synchronise with it

pools == <<pooled, fresh, filled, shut, lent, held>>
hist  == <<owned, ran, registered>>
svars == <<entered, active, used, cleanups, allocs, made, poisoned, pools,
           metrics, pc, loc, hist, messy>>

Block == 1..MaxBlocks
Idle  == [s |-> NoOne, item |-> NoOne, seen |-> <<>>, buf |-> 0, i |-> 0]

Init ==
  /\ entered = {} /\ active = {}
  /\ used = [s \in Scopes |-> 0]
  /\ cleanups = [s \in Scopes |-> <<>>]
  /\ allocs = [s \in Scopes |-> {}]
  /\ made = 0 /\ poisoned = {}
  /\ pooled = {} /\ fresh = Objects /\ filled = {} /\ shut = {}
  /\ lent = [s \in Scopes |-> {}] /\ held = [s \in Scopes |-> {}]
  /\ metrics = [scopes |-> 0, bypassed |-> 0]
  /\ pc = [g \in Goroutines |-> "idle"]
  /\ loc = [g \in Goroutines |-> Idle]
  /\ owned = [s \in Scopes |-> {}]
  /\ ran = [s \in Scopes |-> <<>>]
  /\ registered = [s \in Scopes |-> <<>>]
  /\ messy = {}

Goto(g, label) == pc' = [pc EXCEPT ![g] = label]

Finish(g) == Goto(g, "idle") /\ loc' = [loc EXCEPT ![g] = Idle]

(***************************************************************************)
(* Some other goroutine is at one of these places in a call on scope s.    *)
(***************************************************************************)
Busy(g, s, labels) == \E h \in Goroutines \ {g} : loc[h].s = s /\ pc[h] \in labels

Mess(s, b) == messy' = IF b THEN messy \cup {s} ELSE messy

----------------------------------------------------------------------------
(* EnterScope *)

(***************************************************************************)
(* EnterScope counts the scope before it makes it.                         *)
(***************************************************************************)
EnterScope(g, s) ==
  /\ pc[g] = "idle"
  /\ s \notin entered
  /\ entered' = entered \cup {s}
  /\ active' = active \cup {s}
  /\ metrics' = [metrics EXCEPT !.scopes = @ + 1]
  /\ UNCHANGED <<used, cleanups, allocs, made, poisoned, pools, pc, loc, hist, messy>>

----------------------------------------------------------------------------
(* TryAlloc and the functions that allocate as it does: AllocValue,        *)
(* AllocSliceCap, AllocAlignedValue, AllocSliceAligned.  For a type that   *)
(* holds pointers or has no size these return Go memory and leave scope    *)
(* and arena alone, which is no step of the model.                         *)

(***************************************************************************)
(* The check of Active(): an inactive scope allocates nothing.             *)
(***************************************************************************)
TryAlloc(g, s) ==
  /\ pc[g] = "idle"
  /\ s \in active
  /\ Goto(g, "alloc")
  /\ loc' = [loc EXCEPT ![g] = [Idle EXCEPT !.s = s]]
  /\ UNCHANGED <<entered, active, used, cleanups, allocs, made, poisoned, pools,
                 metrics, hist, messy>>

(***************************************************************************)
(* s.arena.TryAlloc or s.arena.AllocAligned returns a block.               *)
(***************************************************************************)
ArenaAlloc(g) ==
  /\ pc[g] = "alloc"
  /\ made < MaxBlocks
  /\ made' = made + 1
  /\ owned' = [owned EXCEPT ![loc[g].s] = @ \cup {made'}]
  /\ loc' = [loc EXCEPT ![g].buf = made']
  /\ Goto(g, "count")
  /\ UNCHANGED <<entered, active, used, cleanups, allocs, poisoned, pools, metrics,
                 ran, registered, messy>>

(***************************************************************************)
(* The arena is full: TryAlloc reports failure, AllocAligned panics.       *)
(***************************************************************************)
ArenaFull(g) ==
  /\ pc[g] = "alloc"
  /\ Finish(g)
  /\ UNCHANGED <<entered, active, used, cleanups, allocs, made, poisoned, pools,
                 metrics, hist, messy>>

(***************************************************************************)
(* trackAlloc: the counter, then the list of blocks to poison.             *)
(***************************************************************************)
TrackUsed(g) ==
  /\ pc[g] = "count"
  /\ used' = [used EXCEPT ![loc[g].s] = @ + 1]
  /\ Goto(g, "track")
  /\ UNCHANGED <<entered, active, cleanups, allocs, made, poisoned, pools, metrics,
                 loc, hist, messy>>

TrackBlock(g) ==
  /\ pc[g] = "track"
  /\ allocs' = [allocs EXCEPT ![loc[g].s] = @ \cup {loc[g].buf}]
  /\ Finish(g)
  /\ UNCHANGED <<entered, active, used, cleanups, made, poisoned, pools, metrics,
                 hist, messy>>

----------------------------------------------------------------------------
(* OnExit, AllocMap, AllocChan *)

(***************************************************************************)
(* s.cleanups = append(s.cleanups, fn): a read and a later write, with no  *)
(* lock around them.                                                       *)
(***************************************************************************)
BeginOnExit(g, s, item) ==
  /\ loc' = [loc EXCEPT ![g] = [Idle EXCEPT !.s = s, !.item = item, !.seen = cleanups[s]]]
  /\ Goto(g, "append")
  /\ Mess(s, s \notin active \/ Busy(g, s, {"append"}))

OnExit(g, s, f) ==
  /\ pc[g] = "idle"
  /\ s \in entered
  /\ \A t \in Scopes : f \notin Range(registered[t])
  /\ \A h \in Goroutines : loc[h].item # f
  /\ BeginOnExit(g, s, f)
  /\ UNCHANGED <<entered, active, used, cleanups, allocs, made, poisoned, pools,
                 metrics, hist>>

(***************************************************************************)
(* AllocMap and AllocChan: the check of Active().                          *)
(***************************************************************************)
AllocPooled(g, s) ==
  /\ pc[g] = "idle"
  /\ s \in active
  /\ Goto(g, "get")
  /\ loc' = [loc EXCEPT ![g] = [Idle EXCEPT !.s = s]]
  /\ UNCHANGED <<entered, active, used, cleanups, allocs, made, poisoned, pools,
                 metrics, hist, messy>>

\* Mutant: the object stays in its pool while it is in use.
GetPooled_Keeps(g, o) ==
  /\ pc[g] = "get"
  /\ o \in pooled \cup fresh
  /\ pooled' = pooled \cup {o}
  /\ fresh' = fresh \ {o}
  /\ loc' = [loc EXCEPT ![g].item = o]
  /\ lent' = [lent EXCEPT ![loc[g].s] = @ \cup {o}]
  /\ Goto(g, "register")
  /\ UNCHANGED <<entered, active, used, cleanups, allocs, made, poisoned, filled, shut,
                 held, metrics, hist, messy>>

(***************************************************************************)
(* pool.Get() returns a pooled object or makes one.                        *)
(***************************************************************************)
GetPooled(g, o) ==
  /\ pc[g] = "get"
  /\ o \in pooled \cup fresh
  /\ pooled' = pooled \ {o}
  /\ fresh' = fresh \ {o}
  /\ loc' = [loc EXCEPT ![g].item = o]
  /\ lent' = [lent EXCEPT ![loc[g].s] = @ \cup {o}]
  /\ Goto(g, "register")
  /\ UNCHANGED <<entered, active, used, cleanups, allocs, made, poisoned, filled, shut,
                 held, metrics, hist, messy>>

(***************************************************************************)
(* AllocMap and AllocChan call OnExit, whether the scope is still active   *)
(* or not.                                                                 *)
(***************************************************************************)
RegisterPooled(g) ==
  /\ pc[g] = "register"
  /\ BeginOnExit(g, loc[g].s, loc[g].item)
  /\ UNCHANGED <<entered, active, used, cleanups, allocs, made, poisoned, pools,
                 metrics, hist>>

(***************************************************************************)
(* The write of OnExit, after which it returns, to the client or to        *)
(* AllocMap or AllocChan.                                                  *)
(***************************************************************************)
Appended(g) ==
  /\ pc[g] = "append"
  /\ LET s == loc[g].s
         x == loc[g].item
     IN /\ cleanups' = [cleanups EXCEPT ![s] = Append(loc[g].seen, x)]
        /\ registered' = [registered EXCEPT ![s] = Append(@, x)]
        /\ \/ x \in Functions /\ Finish(g)
           \/ x \in Objects /\ Goto(g, "return") /\ UNCHANGED loc
  /\ UNCHANGED <<entered, active, used, allocs, made, poisoned, pools, metrics, owned,
                 ran, messy>>

(***************************************************************************)
(* AllocMap and AllocChan return the object, which a racing Exit may have  *)
(* put back into its pool in the meantime.                                 *)
(***************************************************************************)
ReturnPooled(g) ==
  /\ pc[g] = "return"
  /\ held' = [held EXCEPT ![loc[g].s] = @ \cup {loc[g].item}]
  /\ Finish(g)
  /\ UNCHANGED <<entered, active, used, cleanups, allocs, made, poisoned, pooled, fresh,
                 filled, shut, lent, metrics, hist, messy>>

(***************************************************************************)
(* Clients put data into a map or channel of an active scope, and close    *)
(* channels.                                                               *)
(***************************************************************************)
Fill(s, o) ==
  /\ s \in active
  /\ o \in held[s] \ shut
  /\ filled' = filled \cup {o}
  /\ UNCHANGED <<entered, active, used, cleanups, allocs, made, poisoned, pooled, fresh,
                 shut, lent, held, metrics, pc, loc, hist, messy>>

CloseChannel(s, o) ==
  /\ s \in active
  /\ o \in (held[s] \cap Channels) \ shut
  /\ shut' = shut \cup {o}
  /\ UNCHANGED <<entered, active, used, cleanups, allocs, made, poisoned, pooled, fresh,
                 filled, lent, held, metrics, pc, loc, hist, messy>>

----------------------------------------------------------------------------
(* Exit *)

(***************************************************************************)
(* Where a goroutine can be in a call on a scope other than Exit.          *)
(***************************************************************************)
Allocating == {"alloc", "count", "track", "get", "register", "append", "return"}

\* Mutant: a second Exit of the scope does all of it again.
Exit_Unchecked(g, s) ==
  /\ pc[g] = "idle"
  /\ s \in entered
  /\ active' = active \ {s}
  /\ loc' = [loc EXCEPT ![g] = [Idle EXCEPT !.s = s]]
  /\ Goto(g, "exit")
  /\ Mess(s, Busy(g, s, Allocating))
  /\ UNCHANGED <<entered, used, cleanups, allocs, made, poisoned, pools, metrics, hist>>

(***************************************************************************)
(* The CompareAndSwap on s.active.  An Exit that loses it panics and does  *)
(* nothing.                                                                *)
(***************************************************************************)
Exit(g, s) ==
  /\ pc[g] = "idle"
  /\ s \in active
  /\ active' = active \ {s}
  /\ loc' = [loc EXCEPT ![g] = [Idle EXCEPT !.s = s]]
  /\ Goto(g, "exit")
  /\ Mess(s, Busy(g, s, Allocating))
  /\ UNCHANGED <<entered, used, cleanups, allocs, made, poisoned, pools, metrics, hist>>

RecordScopeExit_NoBytes(g) ==
  /\ pc[g] = "exit"
  /\ metrics' = [metrics EXCEPT !.scopes = @ - 1]
  /\ loc' = [loc EXCEPT ![g].i = Len(cleanups[loc[g].s])]
  /\ Goto(g, "cleanup")
  /\ UNCHANGED <<entered, active, used, cleanups, allocs, made, poisoned, pools, hist, messy>>

RecordScopeExit(g) ==
  /\ pc[g] = "exit"
  /\ metrics' = [scopes |-> metrics.scopes - 1,
                 bypassed |-> metrics.bypassed + used[loc[g].s]]
  /\ loc' = [loc EXCEPT ![g].i = Len(cleanups[loc[g].s])]
  /\ Goto(g, "cleanup")
  /\ UNCHANGED <<entered, active, used, cleanups, allocs, made, poisoned, pools, hist, messy>>

NextCleanup(g) == cleanups[loc[g].s][loc[g].i]

(***************************************************************************)
(* The cleanup of AllocChan does not put a closed channel back.            *)
(***************************************************************************)
Reusable(o) == o \notin shut

(***************************************************************************)
(* clear(m), or the loop that receives until the channel is empty.         *)
(***************************************************************************)
Emptied(o) == filled \ {o}

(***************************************************************************)
(* One turn of the loop over s.cleanups, from the last to the first.       *)
(***************************************************************************)
RunCleanup(g) ==
  /\ pc[g] = "cleanup"
  /\ loc[g].i \in 1..Len(cleanups[loc[g].s])
  /\ LET s == loc[g].s
         x == NextCleanup(g)
     IN /\ ran' = [ran EXCEPT ![s] = Append(@, x)]
        /\ lent' = [lent EXCEPT ![s] = @ \ {x}]
        /\ held' = [held EXCEPT ![s] = @ \ {x}]
        /\ IF x \in Objects
             THEN /\ filled' = Emptied(x)
                  /\ pooled' = IF Reusable(x) THEN pooled \cup {x} ELSE pooled
             ELSE UNCHANGED <<filled, pooled>>
  /\ loc' = [loc EXCEPT ![g].i = @ - 1]
  /\ UNCHANGED <<entered, active, used, cleanups, allocs, made, poisoned, fresh, shut,
                 metrics, pc, owned, registered, messy>>

(***************************************************************************)
(* The loop reads s.cleanups anew each time: a late append of OnExit can   *)
(* have made it shorter than it was when the loop began, and s.cleanups[i] *)
(* panics.                                                                 *)
(***************************************************************************)
CleanupPanics(g) ==
  /\ pc[g] = "cleanup"
  /\ loc[g].i > Len(cleanups[loc[g].s])
  /\ Finish(g)
  /\ UNCHANGED <<entered, active, used, cleanups, allocs, made, poisoned, pools,
                 metrics, hist, messy>>

CleanupsDone(g) ==
  /\ pc[g] = "cleanup"
  /\ loc[g].i = 0
  /\ cleanups' = [cleanups EXCEPT ![loc[g].s] = <<>>]
  /\ Goto(g, "poison")
  /\ UNCHANGED <<entered, active, used, allocs, made, poisoned, pools, metrics, loc,
                 hist, messy>>

Poison_Forgets(g) ==
  /\ pc[g] = "poison"
  /\ LET s == loc[g].s
     IN /\ poisoned' = IF allocs[s] = {} THEN poisoned
                       ELSE poisoned \cup (allocs[s] \ {CHOOSE b \in allocs[s] : \A c \in allocs[s] : c <= b})
        /\ allocs' = [allocs EXCEPT ![s] = {}]
  /\ Finish(g)
  /\ UNCHANGED <<entered, active, used, cleanups, made, pools, metrics, hist, messy>>

(***************************************************************************)
(* The last part of Exit, with poisonOnExit set, under s.poisonMu.         *)
(***************************************************************************)
Poison(g) ==
  /\ pc[g] = "poison"
  /\ LET s == loc[g].s
     IN /\ poisoned' = poisoned \cup allocs[s]
        /\ allocs' = [allocs EXCEPT ![s] = {}]
  /\ Finish(g)
  /\ UNCHANGED <<entered, active, used, cleanups, made, pools, metrics, hist, messy>>

----------------------------------------------------------------------------

Step(g) ==
  \/ \E s \in Scopes :
       \/ EnterScope(g, s) \/ TryAlloc(g, s) \/ AllocPooled(g, s) \/ Exit(g, s)
       \/ \E f \in Functions : OnExit(g, s, f)
  \/ ArenaAlloc(g) \/ ArenaFull(g) \/ TrackUsed(g) \/ TrackBlock(g)
  \/ \E o \in Objects : GetPooled(g, o)
  \/ RegisterPooled(g) \/ Appended(g) \/ ReturnPooled(g)
  \/ RecordScopeExit(g) \/ RunCleanup(g) \/ CleanupPanics(g) \/ CleanupsDone(g) \/ Poison(g)

Next ==
  \/ \E g \in Goroutines : Step(g)
  \/ \E s \in Scopes, o \in Objects : Fill(s, o) \/ CloseChannel(s, o)

Spec == Init /\ [][Next]_svars

----------------------------------------------------------------------------
(* Properties *)

Items  == Functions \cup Objects
Labels == Allocating \cup {"idle", "exit", "cleanup", "poison"}

(***************************************************************************)
(* Scopes, pools and the goroutines inside the methods are well typed.     *)
(***************************************************************************)
TypeOK ==
  /\ active \subseteq entered /\ entered \subseteq Scopes
  /\ used \in [Scopes -> 0..made] /\ made \in 0..MaxBlocks
  /\ cleanups \in [Scopes -> Seq(Items)]
  /\ allocs \in [Scopes -> SUBSET (1..made)]
  /\ poisoned \subseteq 1..made
  /\ pooled \cap fresh = {} /\ pooled \cup fresh \subseteq Objects
  /\ filled \subseteq Objects /\ shut \subseteq Channels
  /\ lent \in [Scopes -> SUBSET Objects] /\ held \in [Scopes -> SUBSET Objects]
  /\ metrics \in [scopes : Nat, bypassed : 0..made]
  /\ pc \in [Goroutines -> Labels]
  /\ loc \in [Goroutines -> [s : Scopes \cup {NoOne}, item : Items \cup {NoOne},
                             seen : Seq(Items), buf : 0..made, i : Nat]]

Settled(s) == s \in entered \ active /\ \A g \in Goroutines : loc[g].s # s

(***************************************************************************)
(* Exit runs every registered cleanup, in reverse order, unless calls of   *)
(* OnExit (also through AllocMap and AllocChan) overlapped on the scope,   *)
(* or one overlapped Exit or came after it.                                *)
(***************************************************************************)
CleanupsReversed == \A s \in Scopes \ messy : Settled(s) => ran[s] = Reverse(registered[s])

(***************************************************************************)
(* No cleanup runs twice, however Exit, OnExit and AllocMap race.          *)
(***************************************************************************)
CleanupsOnce ==
  \A s, t \in Scopes : \A i \in DOMAIN ran[s], j \in DOMAIN ran[t] :
    ran[s][i] = ran[t][j] /\ ran[s][i] \in Functions => s = t /\ i = j

(***************************************************************************)
(* After Exit all memory of the scope is poisoned, unless an allocation    *)
(* had passed the check of Active when Exit began.                         *)
(***************************************************************************)
ExitPoisons == \A s \in Scopes \ messy : Settled(s) => owned[s] \subseteq poisoned

(***************************************************************************)
(* A scope has what was taken out of the pools through it and not yet      *)
(* given back, and also what clients got from AllocMap and AllocChan       *)
(* through it, unless it has exited and calls raced on it: then the object *)
(* can be back in its pool before AllocMap returns it.                     *)
(***************************************************************************)
Leased(s) == lent[s] \cup (IF s \in messy \ active THEN {} ELSE held[s])

Lend == INSTANCE Lending WITH
  Client <- Scopes, Object <- Objects,
  leases <- {p \in Scopes \X Objects : p[2] \in Leased(p[1])},
  gone   <- {}

(***************************************************************************)
(* From pool.Get to pool.Put a map or channel is in the hands of one       *)
(* scope, through all races of AllocMap, AllocChan, OnExit and Exit.  So   *)
(* is what clients got, until its cleanup has run, as long as their scope  *)
(* is active, and after its exit too if no calls raced on it.  (What       *)
(* AllocMap returns after a racing Exit has run its cleanup can be in      *)
(* another scope's hands.)                                                 *)
(***************************************************************************)
ImplementsLending == Lend!LendSpec

(***************************************************************************)
(* AllocMap and AllocChan return an empty map, an empty and open channel.  *)
(***************************************************************************)
PooledClean == pooled \cap (filled \cup shut) = {}

(***************************************************************************)
(* While no call is under way the metrics count the active scopes, and the *)
(* bytes of all scopes that have exited unless an allocation overlapped    *)
(* its Exit.                                                               *)
(***************************************************************************)
MetricsExact ==
  (\A g \in Goroutines : pc[g] = "idle") =>
    /\ metrics.scopes = Cardinality(active)
    /\ messy = {} =>
         metrics.bypassed = Cardinality(UNION {owned[s] : s \in entered \ active})

(***************************************************************************)
(* Cleanups run in reverse order, all of them, and none runs twice.        *)
(***************************************************************************)
CleanupsExact == CleanupsReversed /\ CleanupsOnce

(***************************************************************************)
(* What a scope leaves behind on Exit can be told from live data: its      *)
(* memory is poisoned, its maps and channels are pooled empty and open.    *)
(***************************************************************************)
ExitCleans == ExitPoisons /\ PooledClean
============================================================================
