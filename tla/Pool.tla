-------------------------------- MODULE Pool --------------------------------
(***************************************************************************)
(* Pool[T] of pool.go with its two backends: the lock-free stack of nodes  *)
(* (Treiber) and sync.Pool.  Every atomic operation is a step, and so are  *)
(* the critical sections of the debug tracker.  SyncPool, Borrow, Release  *)
(* and WithBorrow only call Alloc and Free.                                *)
(*                                                                         *)
(* Free makes a new node each time.  The collector may give it the address *)
(* of an older node that nothing refers to any more, neither the stack nor *)
(* a goroutine that loaded head: what CompareAndSwap on addresses relies   *)
(* on is modelled, not assumed.                                            *)
(***************************************************************************)
EXTENDS Integers, FiniteSets, Functions

CONSTANTS
  Goroutines,
  MaxObjects,   \* bound: newFn is called at most this often
  NumNodes,     \* addresses for nodes, enough for all that can be referred to
  Options       \* the ways pools are made and used, see opts

ASSUME PoolAssumption ==
  /\ MaxObjects \in Nat
  /\ NumNodes \in Nat
  /\ Options \subseteq [sync : BOOLEAN, debug : BOOLEAN, zero : BOOLEAN, rogue : Nat]

(***************************************************************************)
(* opts.sync:  the backend is PoolBackendSync, not PoolBackendTreiber      *)
(* opts.debug: poolDebug, the build tag rustygo_debug                      *)
(* opts.zero:  zeroOnFree, or a resetFn that clears the object             *)
(* opts.rogue: how often clients may free an object they do not hold       *)
(***************************************************************************)
VARIABLES
  opts,
  head, val, next,   \* p.head and the fields of the nodes
  cached,            \* what p.pool (sync.Pool) holds: a count per object
  tracker,           \* p.tracker
  inUse, total, peak,
  hold,              \* the objects each client holds
  dirty,             \* the objects that hold data of a client
  wrong,             \* how often an object was freed by one who did not hold it
  pc, loc            \* where each goroutine is, and its local variables

stack == <<head, val, next>>
pvars == <<opts, head, val, next, cached, tracker, inUse, total, peak, hold, dirty,
           wrong, pc, loc>>

Object == 1..MaxObjects
Node   == 1..NumNodes
Nil    == 0

(***************************************************************************)
(* obj: the object of the call; h, nxt: the head that was loaded and its   *)
(* next; n: the node of a Free; in: the count that goes to updatePeak64;   *)
(* old: the peak that was loaded.                                          *)
(***************************************************************************)
NoLocals == [obj |-> Nil, h |-> Nil, nxt |-> Nil, n |-> Nil, in |-> 0, old |-> 0]

Init ==
  /\ opts \in Options
  /\ head = Nil
  /\ val = [n \in Node |-> Nil]
  /\ next = [n \in Node |-> Nil]
  /\ cached = [o \in Object |-> 0]
  /\ tracker = {}
  /\ inUse = 0 /\ total = 0 /\ peak = 0
  /\ hold = [g \in Goroutines |-> {}]
  /\ dirty = {}
  /\ wrong = 0
  /\ pc = [g \in Goroutines |-> "idle"]
  /\ loc = [g \in Goroutines |-> NoLocals]

Goto(g, label) == pc' = [pc EXCEPT ![g] = label]

(***************************************************************************)
(* The object is found: debugMarkAlloc comes next in a debug build.        *)
(***************************************************************************)
Found(g, o) ==
  /\ loc' = [loc EXCEPT ![g] = [NoLocals EXCEPT !.obj = o]]
  /\ Goto(g, IF opts.debug THEN "mark" ELSE "count")

(***************************************************************************)
(* Alloc: the load of p.head (and of h.next, which never changes once the  *)
(* node is on the stack), or p.pool.Get().                                 *)
(***************************************************************************)
Alloc(g) ==
  /\ pc[g] \in {"idle", "retry"}
  /\ ~opts.sync
  /\ IF head = Nil THEN Goto(g, "new") /\ UNCHANGED loc
     ELSE Goto(g, "pop") /\ loc' = [loc EXCEPT ![g] = [@ EXCEPT !.h = head, !.nxt = next[head]]]
  /\ UNCHANGED <<opts, stack, cached, tracker, inUse, total, peak, hold, dirty, wrong>>

AllocSync(g) ==
  /\ pc[g] = "idle"
  /\ opts.sync
  /\ \/ \E o \in Object :
          /\ cached[o] > 0
          /\ cached' = [cached EXCEPT ![o] = @ - 1]
          /\ Found(g, o)
     \/ /\ \A o \in Object : cached[o] = 0
        /\ Goto(g, "new")
        /\ UNCHANGED <<cached, loc>>
  /\ UNCHANGED <<opts, stack, tracker, inUse, total, peak, hold, dirty, wrong>>

(***************************************************************************)
(* sync.Pool forgets objects whenever the collector runs.                  *)
(***************************************************************************)
DropCached ==
  /\ \E o \in Object : cached[o] > 0 /\ cached' = [cached EXCEPT ![o] = @ - 1]
  /\ UNCHANGED <<opts, stack, tracker, inUse, total, peak, hold, dirty, wrong, pc, loc>>

PopNode_PlainStore(g) ==
  /\ pc[g] = "pop"
  /\ head' = loc[g].nxt
  /\ Found(g, val[loc[g].h])
  /\ UNCHANGED <<opts, val, next, cached, tracker, inUse, total, peak, hold, dirty, wrong>>

(***************************************************************************)
(* p.head.CompareAndSwap(h, h.next)                                        *)
(***************************************************************************)
PopNode(g) ==
  /\ pc[g] = "pop"
  /\ LET h == loc[g].h
     IN IF head = h
          THEN head' = loc[g].nxt /\ Found(g, val[h])
          ELSE /\ loc' = [loc EXCEPT ![g] = NoLocals]
               /\ Goto(g, "retry")
               /\ UNCHANGED head
  /\ UNCHANGED <<opts, val, next, cached, tracker, inUse, total, peak, hold, dirty, wrong>>

NewObject(g) ==
  /\ pc[g] = "new"
  /\ total < MaxObjects
  /\ total' = total + 1
  /\ Found(g, total + 1)
  /\ UNCHANGED <<opts, stack, cached, tracker, inUse, peak, hold, dirty, wrong>>

DebugMarkAlloc(g) ==
  /\ pc[g] = "mark"
  /\ tracker' = tracker \cup {loc[g].obj}
  /\ Goto(g, "count")
  /\ UNCHANGED <<opts, stack, cached, inUse, total, peak, hold, dirty, wrong, loc>>

CountAlloc(g) ==
  /\ pc[g] = "count"
  /\ inUse' = inUse + 1
  /\ loc' = [loc EXCEPT ![g].in = inUse + 1]
  /\ Goto(g, "peak")
  /\ UNCHANGED <<opts, stack, cached, tracker, total, peak, hold, dirty, wrong>>

(***************************************************************************)
(* updatePeak64: load, then CompareAndSwap, until the peak is large        *)
(* enough; then Alloc returns the object.                                  *)
(***************************************************************************)
Deliver(g) ==
  /\ hold' = [hold EXCEPT ![g] = @ \cup {loc[g].obj}]
  /\ Goto(g, "idle")
  /\ loc' = [loc EXCEPT ![g] = NoLocals]

LoadPeak(g) ==
  /\ pc[g] = "peak"
  /\ IF loc[g].in <= peak THEN Deliver(g)
     ELSE loc' = [loc EXCEPT ![g].old = peak] /\ Goto(g, "raise") /\ UNCHANGED hold
  /\ UNCHANGED <<opts, stack, cached, tracker, inUse, total, peak, dirty, wrong>>

RaisePeak_NoRetry(g) ==
  /\ pc[g] = "raise"
  /\ peak' = IF peak = loc[g].old THEN loc[g].in ELSE peak
  /\ Deliver(g)
  /\ UNCHANGED <<opts, stack, cached, tracker, inUse, total, dirty, wrong>>

RaisePeak(g) ==
  /\ pc[g] = "raise"
  /\ IF peak = loc[g].old THEN peak' = loc[g].in /\ Deliver(g)
     ELSE Goto(g, "peak") /\ UNCHANGED <<peak, hold, loc>>
  /\ UNCHANGED <<opts, stack, cached, tracker, inUse, total, dirty, wrong>>

----------------------------------------------------------------------------

(***************************************************************************)
(* A client writes to an object it holds.                                  *)
(***************************************************************************)
Use(g, o) ==
  /\ pc[g] = "idle"
  /\ o \in hold[g]
  /\ dirty' = dirty \cup {o}
  /\ UNCHANGED <<opts, stack, cached, tracker, inUse, total, peak, hold, wrong, pc, loc>>

(***************************************************************************)
(* Free is called, and clears the object if it was told to.                *)
(***************************************************************************)
Free_ClearsNothing(g, o) ==
  /\ pc[g] = "idle"
  /\ o \in hold[g] \/ (wrong < opts.rogue /\ o <= total)
  /\ hold' = [hold EXCEPT ![g] = @ \ {o}]
  /\ wrong' = IF o \in hold[g] THEN wrong ELSE wrong + 1
  /\ loc' = [loc EXCEPT ![g] = [NoLocals EXCEPT !.obj = o]]
  /\ Goto(g, IF opts.debug THEN "check" ELSE "put")
  /\ UNCHANGED <<opts, stack, cached, tracker, inUse, total, peak, dirty>>

Free(g, o) ==
  /\ pc[g] = "idle"
  /\ o \in hold[g] \/ (wrong < opts.rogue /\ o <= total)
  /\ hold' = [hold EXCEPT ![g] = @ \ {o}]
  /\ wrong' = IF o \in hold[g] THEN wrong ELSE wrong + 1
  /\ dirty' = IF opts.zero THEN dirty \ {o} ELSE dirty
  /\ loc' = [loc EXCEPT ![g] = [NoLocals EXCEPT !.obj = o]]
  /\ Goto(g, IF opts.debug THEN "check" ELSE "put")
  /\ UNCHANGED <<opts, stack, cached, tracker, inUse, total, peak>>

(***************************************************************************)
(* debugMarkFree panics if the object is not in the tracker.               *)
(***************************************************************************)
DebugMarkFree(g) ==
  /\ pc[g] = "check"
  /\ Goto(g, IF loc[g].obj \in tracker THEN "put" ELSE "panic")
  /\ tracker' = tracker \ {loc[g].obj}
  /\ UNCHANGED <<opts, stack, cached, inUse, total, peak, hold, dirty, wrong, loc>>

PutSync(g) ==
  /\ pc[g] = "put"
  /\ opts.sync
  /\ cached' = [cached EXCEPT ![loc[g].obj] = @ + 1]
  /\ Goto(g, "uncount")
  /\ UNCHANGED <<opts, stack, tracker, inUse, total, peak, hold, dirty, wrong, loc>>

(***************************************************************************)
(* The nodes the collector must keep: those that can be reached from head  *)
(* or from a local variable, that is, are in every set of nodes that has   *)
(* the roots and is closed under next.                                     *)
(***************************************************************************)
Closed(S, roots) ==
  /\ roots \subseteq S \cup {Nil}
  /\ \A n \in S : next[n] \in S \cup {Nil}

Closure(roots) == {n \in Node : \A S \in SUBSET Node : Closed(S, roots) => n \in S}

Locals == UNION {{loc[g].h, loc[g].nxt, loc[g].n} : g \in Goroutines}

Referenced == Closure({head} \cup Locals)

NewNode(g) ==
  /\ pc[g] = "put"
  /\ ~opts.sync
  /\ \E n \in Node \ Referenced :
       /\ val' = [val EXCEPT ![n] = loc[g].obj]
       /\ next' = [next EXCEPT ![n] = Nil]
       /\ loc' = [loc EXCEPT ![g].n = n]
  /\ Goto(g, "load")
  /\ UNCHANGED <<opts, head, cached, tracker, inUse, total, peak, hold, dirty, wrong>>

(***************************************************************************)
(* h := p.head.Load(); n.next = h                                          *)
(***************************************************************************)
LoadHead(g) ==
  /\ pc[g] = "load"
  /\ loc' = [loc EXCEPT ![g].h = head]
  /\ next' = [next EXCEPT ![loc[g].n] = head]
  /\ Goto(g, "push")
  /\ UNCHANGED <<opts, head, val, cached, tracker, inUse, total, peak, hold, dirty, wrong>>

PushNode_PlainStore(g) ==
  /\ pc[g] = "push"
  /\ head' = loc[g].n
  /\ loc' = [loc EXCEPT ![g] = NoLocals]
  /\ Goto(g, "uncount")
  /\ UNCHANGED <<opts, val, next, cached, tracker, inUse, total, peak, hold, dirty, wrong>>

PushNode(g) ==
  /\ pc[g] = "push"
  /\ IF head = loc[g].h
       THEN /\ head' = loc[g].n
            /\ loc' = [loc EXCEPT ![g] = NoLocals]
            /\ Goto(g, "uncount")
       ELSE Goto(g, "load") /\ UNCHANGED <<head, loc>>
  /\ UNCHANGED <<opts, val, next, cached, tracker, inUse, total, peak, hold, dirty, wrong>>

CountFree(g) ==
  /\ pc[g] = "uncount"
  /\ inUse' = inUse - 1
  /\ Goto(g, "idle")
  /\ loc' = [loc EXCEPT ![g] = NoLocals]
  /\ UNCHANGED <<opts, stack, cached, tracker, total, peak, hold, dirty, wrong>>

----------------------------------------------------------------------------

Step(g) ==
  \/ Alloc(g) \/ AllocSync(g) \/ PopNode(g) \/ NewObject(g) \/ DebugMarkAlloc(g)
  \/ CountAlloc(g) \/ LoadPeak(g) \/ RaisePeak(g)
  \/ \E o \in Object : Use(g, o) \/ Free(g, o)
  \/ DebugMarkFree(g) \/ PutSync(g) \/ NewNode(g) \/ LoadHead(g) \/ PushNode(g)
  \/ CountFree(g)

Next == DropCached \/ \E g \in Goroutines : Step(g)

Spec == Init /\ [][Next]_pvars

----------------------------------------------------------------------------
(* Properties *)

Labels == {"idle", "retry", "new", "pop", "mark", "count", "peak", "raise",
           "check", "put", "load", "push", "uncount", "panic"}

(***************************************************************************)
(* The pool and the goroutines inside its methods are well typed.          *)
(***************************************************************************)
TypeOK ==
  /\ opts \in Options
  /\ head \in Node \cup {Nil}
  /\ val \in [Node -> Object \cup {Nil}]
  /\ next \in [Node -> Node \cup {Nil}]
  /\ cached \in [Object -> Nat]
  /\ tracker \subseteq Object
  /\ inUse \in Int /\ total \in 0..MaxObjects /\ peak \in Nat
  /\ hold \in [Goroutines -> SUBSET (1..total)]
  /\ dirty \subseteq 1..total
  /\ wrong \in 0..opts.rogue
  /\ pc \in [Goroutines -> Labels]
  /\ loc \in [Goroutines ->
        [obj : 0..total, h : Node \cup {Nil}, nxt : Node \cup {Nil},
         n : Node \cup {Nil}, in : Int, old : Nat]]

Lend == INSTANCE Lending WITH
  Client <- Goroutines, Object <- Object,
  leases <- {p \in Goroutines \X Object : p[2] \in hold[p[1]]},
  gone   <- {}

Orderly == wrong = 0

(***************************************************************************)
(* Unless a client frees what it does not hold, Alloc never gives away an  *)
(* object that another client still holds, whatever the races on p.head    *)
(* and however the addresses of nodes are recycled.                        *)
(***************************************************************************)
ImplementsLending == Lend!LendInit /\ [][~Orderly \/ Lend!LendNext]_(Lend!lvars)

Pooled(o) == cached[o] + Cardinality({n \in Closure({head}) : val[n] = o})

(***************************************************************************)
(* The pool never holds an object twice.  With the tracker of the debug    *)
(* build this is so even if clients free objects they do not hold.         *)
(***************************************************************************)
PooledOnce == Orderly \/ opts.debug => \A o \in Object : Pooled(o) <= 1

Held == UNION {hold[g] : g \in Goroutines}

Quiet == \A g \in Goroutines : pc[g] = "idle"

(***************************************************************************)
(* The counters of Stats: InUse is never less than what clients hold and   *)
(* is exactly that when no call is under way, and the peak is never below  *)
(* the number of objects held at any one time, in spite of lost races in   *)
(* updatePeak64.                                                           *)
(***************************************************************************)
StatsSound ==
  Orderly => /\ peak >= Cardinality(Held)
             /\ inUse >= Cardinality(Held)
             /\ Quiet => inUse = Cardinality(Held)

(***************************************************************************)
(* No object is lost by the stack: while no call is under way, every       *)
(* object made is held by a client or pooled.                              *)
(***************************************************************************)
NothingLost ==
  Orderly /\ ~opts.sync /\ Quiet => \A o \in 1..total : o \in Held \/ Pooled(o) = 1

(***************************************************************************)
(* The pool holds an object it was given back once: not twice, and not     *)
(* not at all, although Alloc and Free race on the stack's nodes.          *)
(***************************************************************************)
PooledExactlyOnce == PooledOnce /\ NothingLost

(***************************************************************************)
(* With zeroOnFree the object Alloc hands out holds no data of its former  *)
(* client.                                                                 *)
(***************************************************************************)
HandsOutClean ==
  [][opts.zero /\ Orderly =>
       \A g \in Goroutines : (hold'[g] \ hold[g]) \cap dirty = {}]_pvars
============================================================================
