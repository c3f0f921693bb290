----------------------------- MODULE PoolProofs -----------------------------
(***************************************************************************)
(* A Pool lends an object to one client at a time, keeps each object it    *)
(* was given back exactly once, counts what clients hold and, if told to,  *)
(* hands out objects without data of the client before: proved for any     *)
(* number of goroutines, objects and nodes, both backends and both builds, *)
(* with addresses of nodes that are recycled.                              *)
(***************************************************************************)
EXTENDS Pool, FiniteSetTheorems, TLAPS

Stacked == Closure({head})

Pushing == {"load", "push"}

(***************************************************************************)
(* The labels at which a call has an object in its hands: seen from the    *)
(* clients, and seen from the tracker of the debug build, which lists an   *)
(* object from debugMarkAlloc to debugMarkFree.                            *)
(***************************************************************************)
Carrying == {"mark", "count", "peak", "raise", "check", "put", "load", "push", "panic"}
Unlisted == {"mark", "put", "load", "push"}

(***************************************************************************)
(* What a goroutine in mid-call may rely on.  Nobody changes the fields of *)
(* a node it has loaded, since nobody can be given its address; and the    *)
(* node it is about to push is its own.                                    *)
(***************************************************************************)
CallAt(g) ==
  /\ pc[g] \in Carrying => loc[g].obj \in 1..total
  /\ pc[g] = "pop" => loc[g].h \in Node /\ loc[g].nxt = next[loc[g].h]
  /\ pc[g] \in Pushing =>
       /\ loc[g].n \in Node /\ loc[g].n \notin Stacked /\ val[loc[g].n] = loc[g].obj
       /\ \A k \in Goroutines :
            /\ pc[k] = "pop" => loc[k].h # loc[g].n
            /\ pc[k] \in Pushing /\ k # g => loc[k].n # loc[g].n
  /\ pc[g] = "push" => next[loc[g].n] = loc[g].h
  /\ pc[g] = "raise" => loc[g].old < loc[g].in

CallInv == \A g \in Goroutines : CallAt(g)

(***************************************************************************)
(* The stack has no cycle: some rank goes down along next.  And all that   *)
(* is pooled was made.                                                     *)
(***************************************************************************)
Ranked(r, S) == \A n \in S : next[n] \in Node => r[next[n]] < r[n]

RankInv == \E r \in [Node -> Nat] : Ranked(r, Stacked)

MadeInv ==
  /\ tracker \subseteq 1..total
  /\ \A o \in Object : cached[o] > 0 => o <= total
  /\ \A n \in Stacked : val[n] \in 1..total

(***************************************************************************)
(* An object is in at most one place: with one of the Hs, in the hands of  *)
(* one call of C, k = 1 time in sync.Pool, or in one node of S.            *)
(***************************************************************************)
OnePlace(H, C, k, S) ==
  /\ \A a, b \in H : a = b
  /\ \A a, b \in C : a = b
  /\ \A a, b \in S : a = b
  /\ k <= 1
  /\ H # {} => C = {} /\ k = 0 /\ S = {}
  /\ C # {} => k = 0 /\ S = {}
  /\ k > 0 => S = {}

Holders(o) == {g \in Goroutines : o \in hold[g]}
Carriers(o, L) == {g \in Goroutines : pc[g] \in L /\ loc[g].obj = o}
NodesOf(o) == {n \in Stacked : val[n] = o}

ClientPlace(o) == OnePlace(Holders(o), Carriers(o, Carrying), cached[o], NodesOf(o))
TrackerPlace(o) == OnePlace({o} \cap tracker, Carriers(o, Unlisted), cached[o], NodesOf(o))

ClientInv == Orderly => \A o \in Object : ClientPlace(o)
TrackerInv == opts.debug => \A o \in Object : TrackerPlace(o)

(***************************************************************************)
(* The stack loses nothing, also while calls are under way.                *)
(***************************************************************************)
KeptInv ==
  Orderly /\ ~opts.sync =>
    \A o \in 1..total : Holders(o) # {} \/ Carriers(o, Carrying) # {} \/ NodesOf(o) # {}

(***************************************************************************)
(* inUse counts the objects held, the calls of Alloc past its increment    *)
(* and the calls of Free before its decrement.                             *)
(***************************************************************************)
Arriving == {g \in Goroutines : pc[g] \in {"peak", "raise"}}
Leaving == {g \in Goroutines : pc[g] \in {"check", "put", "load", "push", "uncount", "panic"}}

UseInv ==
  /\ IsFiniteSet(Arriving) /\ IsFiniteSet(Leaving)
  /\ Orderly => inUse = Cardinality(Held) + Cardinality(Arriving) + Cardinality(Leaving)

(***************************************************************************)
(* A call that is late to raise the peak is covered by the value it is     *)
(* about to write: whatever is as large as the peak and the counts of some *)
(* arriving calls has room for what is held and for those calls.           *)
(***************************************************************************)
PeakInv ==
  Orderly =>
    \A S \in SUBSET Arriving : \A v \in Nat :
      peak <= v /\ (\A g \in S : loc[g].in <= v) => Cardinality(Held) + Cardinality(S) <= v

(***************************************************************************)
(* Data of clients is in objects that clients hold.                        *)
(***************************************************************************)
CleanInv == opts.zero /\ Orderly => dirty \subseteq Held

PoolInv ==
  /\ TypeOK /\ CallInv /\ RankInv /\ MadeInv /\ ClientInv /\ TrackerInv /\ KeptInv
  /\ UseInv /\ PeakInv /\ CleanInv

----------------------------------------------------------------------------
(* Reachability *)

(***************************************************************************)
(* Closure as a function of the links, to compare it before and after a    *)
(* step.                                                                   *)
(***************************************************************************)
Links == [Node -> Node \cup {Nil}]

Within(nx, S, r) == r \in S \cup {Nil} /\ \A n \in S : nx[n] \in S \cup {Nil}

Reach(nx, r) == {n \in Node : \A S \in SUBSET Node : Within(nx, S, r) => n \in S}

LEMMA NilIsNoNode == Nil \notin Node
  BY PoolAssumption DEF Nil, Node

LEMMA StackedReach == Stacked = Reach(next, head)
<1>1. \A S : Closed(S, {head}) <=> Within(next, S, head)
  BY DEF Closed, Within
<1> QED
  BY <1>1 DEF Stacked, Closure, Reach

LEMMA ReachLeast ==
  ASSUME NEW nx, NEW r, NEW S \in SUBSET Node, Within(nx, S, r)
  PROVE  Reach(nx, r) \subseteq S
  BY DEF Reach

LEMMA ReachWithin ==
  ASSUME NEW nx \in Links, NEW r \in Node \cup {Nil}
  PROVE  Within(nx, Reach(nx, r), r) /\ Reach(nx, r) \subseteq Node
<1>1. r \in Reach(nx, r) \cup {Nil}
  BY DEF Reach, Within
<1>2. ASSUME NEW n \in Reach(nx, r), nx[n] # Nil PROVE nx[n] \in Reach(nx, r)
  <2>1. n \in Node /\ nx[n] \in Node
    BY <1>2 DEF Reach, Links
  <2>2. ASSUME NEW S \in SUBSET Node, Within(nx, S, r) PROVE nx[n] \in S
    <3>1. n \in S
      BY <2>2 DEF Reach
    <3> QED
      BY <3>1, <2>2, <1>2 DEF Within
  <2> QED
    BY <2>1, <2>2 DEF Reach
<1>3. Reach(nx, r) \subseteq Node
  BY DEF Reach
<1> HIDE DEF Reach
<1> QED
  BY <1>1, <1>2, <1>3 DEF Within

LEMMA ReachNil == ASSUME NEW nx PROVE Reach(nx, Nil) = {}
<1>1. Within(nx, {}, Nil)
  BY DEF Within
<1> QED
  BY <1>1 DEF Reach

(***************************************************************************)
(* Taking the first node off a stack without cycles leaves the others.     *)
(***************************************************************************)
LEMMA ReachPop ==
  ASSUME NEW nx \in Links, NEW h \in Node, NEW rank \in [Node -> Nat],
         \A n \in Reach(nx, h) : nx[n] \in Node => rank[nx[n]] < rank[n]
  PROVE  Reach(nx, nx[h]) = Reach(nx, h) \ {h}
<1> DEFINE A == Reach(nx, h)
           B == Reach(nx, nx[h])
           L == {m \in A : rank[m] < rank[h]}
<1>1. nx[h] \in Node \cup {Nil}
  BY DEF Links
<1>2. Within(nx, A, h) /\ A \subseteq Node /\ Within(nx, B, nx[h]) /\ B \subseteq Node
  BY <1>1, ReachWithin
<1>3. \A n \in A : nx[n] \in Node => rank[nx[n]] < rank[n]
  OBVIOUS
<1> HIDE DEF A, B
<1>4. h \in A
  BY <1>2, NilIsNoNode DEF Within
<1>5. Within(nx, L, nx[h])
  <2>1. nx[h] \in L \cup {Nil}
    BY <1>2, <1>3, <1>4 DEF Within
  <2>2. ASSUME NEW n \in L, nx[n] # Nil PROVE nx[n] \in L
    <3>1. nx[n] \in A /\ nx[n] \in Node
      BY <2>2, <1>2 DEF Within
    <3>2. rank[nx[n]] < rank[n] /\ rank[n] < rank[h]
      BY <3>1, <1>3, <2>2
    <3>3. rank[nx[n]] \in Nat /\ rank[n] \in Nat /\ rank[h] \in Nat
      BY <3>1, <2>2, <1>2
    <3> QED
      BY <3>1, <3>2, <3>3
  <2> QED
    BY <2>1, <2>2 DEF Within
<1>6. B \subseteq L
  BY <1>2, <1>5, ReachLeast DEF B
<1>7. h \notin L
  OBVIOUS
<1>8. Within(nx, B \cup {h}, h)
  BY <1>2 DEF Within
<1>9. A \subseteq B \cup {h}
  <2>1. B \cup {h} \in SUBSET Node
    BY <1>2
  <2> QED
    BY <2>1, <1>8, ReachLeast DEF A
<1>10. B = A \ {h}
  BY <1>6, <1>7, <1>9
<1> QED
  BY <1>10 DEF A, B

LEMMA ReachPush ==
  ASSUME NEW nx \in Links, NEW n \in Node
  PROVE  Reach(nx, n) = Reach(nx, nx[n]) \cup {n}
<1> DEFINE A == Reach(nx, nx[n])
           B == Reach(nx, n)
<1>1. nx[n] \in Node \cup {Nil}
  BY DEF Links
<1>2. Within(nx, A, nx[n]) /\ A \subseteq Node /\ Within(nx, B, n) /\ B \subseteq Node
  BY <1>1, ReachWithin
<1> HIDE DEF A, B
<1>3. Within(nx, A \cup {n}, n) /\ A \cup {n} \in SUBSET Node
  BY <1>2 DEF Within
<1>4. B \subseteq A \cup {n}
  BY <1>3, ReachLeast DEF B
<1>5. n \in B
  BY <1>2, NilIsNoNode DEF Within
<1>6. Within(nx, B, nx[n])
  BY <1>2, <1>5 DEF Within
<1>7. A \subseteq B
  BY <1>2, <1>6, ReachLeast DEF A
<1>8. B = A \cup {n}
  BY <1>4, <1>5, <1>7
<1> QED
  BY <1>8 DEF A, B

(***************************************************************************)
(* A link of a node that is not on the stack can change.                   *)
(***************************************************************************)
LEMMA ReachElsewhere ==
  ASSUME NEW nx \in Links, NEW ny \in Links, NEW r \in Node \cup {Nil},
         NEW n, n \notin Reach(nx, r), \A m \in Node : m # n => ny[m] = nx[m]
  PROVE  Reach(ny, r) = Reach(nx, r)
<1> DEFINE A == Reach(nx, r)
           B == Reach(ny, r)
<1>1. Within(nx, A, r) /\ A \subseteq Node /\ Within(ny, B, r) /\ B \subseteq Node /\ n \notin A
  BY ReachWithin
<1> HIDE DEF A, B
<1>2. Within(ny, A, r)
  BY <1>1 DEF Within
<1>3. B \subseteq A
  BY <1>1, <1>2, ReachLeast DEF B
<1>4. Within(nx, B, r)
  BY <1>1, <1>3 DEF Within
<1>5. A \subseteq B
  BY <1>1, <1>4, ReachLeast DEF A
<1> QED
  BY <1>3, <1>5 DEF A, B

----------------------------------------------------------------------------
(* Type correctness *)

Elsewhere(g) == \A k \in Goroutines : k # g => pc'[k] = pc[k] /\ loc'[k] = loc[k]

LocalType == [obj : 0..total, h : Node \cup {Nil}, nxt : Node \cup {Nil},
              n : Node \cup {Nil}, in : Int, old : Nat]

LEMMA Numbers == MaxObjects \in Nat /\ NumNodes \in Nat /\ Nil = 0
  BY PoolAssumption DEF Nil


LEMMA NoLocalsTyped == TypeOK => NoLocals \in LocalType
  BY Numbers DEF TypeOK, NoLocals, LocalType

LEMMA LocalsMoved ==
  ASSUME TypeOK, NEW g \in Goroutines, NEW label \in Labels, NEW l \in LocalType',
         total' \in 0..MaxObjects, total <= total',
         pc' = [pc EXCEPT ![g] = label], loc' = [loc EXCEPT ![g] = l]
  PROVE  /\ pc' \in [Goroutines -> Labels] /\ loc' \in [Goroutines -> LocalType']
         /\ pc'[g] = label /\ loc'[g] = l /\ Elsewhere(g)
<1>1. LocalType \subseteq LocalType'
  BY DEF LocalType, TypeOK
<1>2. loc \in [Goroutines -> LocalType] /\ pc \in [Goroutines -> Labels]
  BY DEF TypeOK, LocalType
<1> HIDE DEF LocalType
<1> QED
  BY <1>1, <1>2 DEF Elsewhere

LEMMA LocalsTyped == TypeOK => \A g \in Goroutines : loc[g] \in LocalType
  BY DEF TypeOK, LocalType

LEMMA TotalSame ==
  ASSUME TypeOK, UNCHANGED total
  PROVE  LocalType' = LocalType /\ total' \in 0..MaxObjects /\ total <= total'
<1>1. LocalType' = LocalType
  BY DEF LocalType
<1>2. total' \in 0..MaxObjects /\ total <= total'
  BY Numbers DEF TypeOK
<1> QED
  BY <1>1, <1>2

LEMMA StackedNext == Stacked' = Reach(next', head')
<1>1. \A S : Closed(S, {head})' <=> Within(next', S, head')
  BY DEF Closed, Within
<1> QED
  BY <1>1 DEF Stacked, Closure, Reach

LEMMA StackSame == UNCHANGED <<head, next>> => Stacked' = Stacked
  BY StackedReach, StackedNext

LEMMA StackedNodes == TypeOK => Stacked \subseteq Node /\ (head # Nil => head \in Stacked)
<1> SUFFICES ASSUME TypeOK PROVE Stacked \subseteq Node /\ (head # Nil => head \in Stacked)
  OBVIOUS
<1>1. next \in Links /\ head \in Node \cup {Nil}
  BY DEF TypeOK, Links
<1>2. Within(next, Stacked, head) /\ Stacked \subseteq Node
  BY <1>1, ReachWithin, StackedReach
<1> QED
  BY <1>2 DEF Within

(***************************************************************************)
(* The steps that touch neither the stack nor what it holds, seen from     *)
(* outside of the counters.                                                *)
(***************************************************************************)
Same(g) ==
  /\ TypeOK' /\ Elsewhere(g) /\ Stacked' = Stacked
  /\ UNCHANGED <<opts, head, val, next>>

LEMMA AllocEffect ==
  ASSUME TypeOK, NEW g \in Goroutines, Alloc(g)
  PROVE  /\ Same(g) /\ pc[g] \in {"idle", "retry"} /\ ~opts.sync
         /\ UNCHANGED <<cached, tracker, inUse, total, peak, hold, dirty, wrong>>
         /\ \/ pc'[g] = "new"
            \/ /\ pc'[g] = "pop" /\ head \in Node
               /\ loc'[g].h = head /\ loc'[g].nxt = next[head]
<1>1. Stacked' = Stacked
  BY StackSame DEF Alloc, stack
<1>2. UNCHANGED <<opts, head, val, next, cached, tracker, inUse, total, peak, hold, dirty, wrong>>
  BY DEF Alloc, stack
<1>3. LocalType' = LocalType /\ loc[g] \in LocalType /\ total' \in 0..MaxObjects /\ total <= total'
  BY <1>2, TotalSame, LocalsTyped
<1>4. CASE head = Nil
  <2>1. pc' = [pc EXCEPT ![g] = "new"] /\ loc' = [loc EXCEPT ![g] = loc[g]]
    BY <1>4 DEF Alloc, Goto, TypeOK
  <2>2. /\ pc' \in [Goroutines -> Labels] /\ loc' \in [Goroutines -> LocalType']
        /\ pc'[g] = "new" /\ Elsewhere(g)
    BY <2>1, <1>3, LocalsMoved DEF Labels
  <2>3. TypeOK'
    BY <2>2, <1>2 DEF TypeOK, LocalType
  <2> QED
    BY <1>1, <1>2, <2>2, <2>3 DEF Alloc, Same
<1>5. CASE head # Nil
  <2>1. head \in Node /\ next[head] \in Node \cup {Nil}
    BY <1>5 DEF TypeOK
  <2> DEFINE l == [loc[g] EXCEPT !.h = head, !.nxt = next[head]]
  <2>2. pc' = [pc EXCEPT ![g] = "pop"] /\ loc' = [loc EXCEPT ![g] = l]
    BY <1>5 DEF Alloc, Goto, TypeOK
  <2>3. l \in LocalType /\ l.h = head /\ l.nxt = next[head]
    <3>1. loc[g] \in LocalType
      BY <1>3
    <3> QED
      BY <2>1, <3>1 DEF LocalType
  <2> HIDE DEF l
  <2>4. /\ pc' \in [Goroutines -> Labels] /\ loc' \in [Goroutines -> LocalType']
        /\ pc'[g] = "pop" /\ loc'[g] = l /\ Elsewhere(g)
    BY <2>2, <2>3, <1>3, LocalsMoved DEF Labels
  <2>5. TypeOK'
    BY <2>4, <1>2 DEF TypeOK, LocalType
  <2> QED
    BY <1>1, <1>2, <2>1, <2>3, <2>4, <2>5 DEF Alloc, Same
<1> QED
  BY <1>4, <1>5

LEMMA FoundEffect ==
  ASSUME TypeOK, NEW g \in Goroutines, NEW o \in 0..total', Found(g, o),
         total' \in 0..MaxObjects, total <= total'
  PROVE  /\ pc' \in [Goroutines -> Labels] /\ loc' \in [Goroutines -> LocalType']
         /\ pc'[g] = IF opts.debug THEN "mark" ELSE "count"
         /\ loc'[g].obj = o /\ Elsewhere(g)
<1> DEFINE l == [NoLocals EXCEPT !.obj = o]
<1>1. l \in LocalType' /\ l.obj = o
  BY Numbers DEF NoLocals, LocalType
<1> DEFINE label == IF opts.debug THEN "mark" ELSE "count"
<1>2. loc' = [loc EXCEPT ![g] = l] /\ pc' = [pc EXCEPT ![g] = label] /\ label \in Labels
  BY DEF Found, Goto, Labels
<1> HIDE DEF l, label
<1>3. /\ pc' \in [Goroutines -> Labels] /\ loc' \in [Goroutines -> LocalType']
      /\ pc'[g] = label /\ loc'[g] = l /\ Elsewhere(g)
  BY <1>1, <1>2, LocalsMoved
<1> QED
  BY <1>1, <1>3 DEF label

LEMMA AllocSyncEffect ==
  ASSUME TypeOK, MadeInv, NEW g \in Goroutines, AllocSync(g)
  PROVE  /\ Same(g) /\ pc[g] = "idle" /\ opts.sync
         /\ UNCHANGED <<tracker, inUse, total, peak, hold, dirty, wrong>>
         /\ \/ pc'[g] = "new" /\ UNCHANGED cached
            \/ \E o \in Object :
                 /\ cached[o] > 0 /\ o \in 1..total
                 /\ cached' = [cached EXCEPT ![o] = @ - 1]
                 /\ loc'[g].obj = o
                 /\ pc'[g] = IF opts.debug THEN "mark" ELSE "count"
<1>1. Stacked' = Stacked
  BY StackSame DEF AllocSync, stack
<1>2. UNCHANGED <<opts, head, val, next, tracker, inUse, total, peak, hold, dirty, wrong>>
  BY DEF AllocSync, stack
<1>3. LocalType' = LocalType /\ loc[g] \in LocalType /\ total' \in 0..MaxObjects /\ total <= total'
  BY <1>2, TotalSame, LocalsTyped
<1>4. CASE UNCHANGED <<cached, loc>> /\ Goto(g, "new")
  <2>1. pc' = [pc EXCEPT ![g] = "new"] /\ loc' = [loc EXCEPT ![g] = loc[g]]
    BY <1>4 DEF Goto, TypeOK
  <2>2. /\ pc' \in [Goroutines -> Labels] /\ loc' \in [Goroutines -> LocalType']
        /\ pc'[g] = "new" /\ Elsewhere(g)
    BY <2>1, <1>3, LocalsMoved DEF Labels
  <2>3. TypeOK'
    BY <2>2, <1>2, <1>4 DEF TypeOK, LocalType
  <2> QED
    BY <1>1, <1>2, <1>4, <2>2, <2>3 DEF AllocSync, Same
<1>5. ASSUME NEW o \in Object, cached[o] > 0, cached' = [cached EXCEPT ![o] = @ - 1], Found(g, o)
      PROVE  /\ TypeOK' /\ Elsewhere(g) /\ o \in 1..total /\ loc'[g].obj = o
             /\ pc'[g] = IF opts.debug THEN "mark" ELSE "count"
  <2>1. o \in 1..total /\ o \in 0..total'
    BY <1>2, <1>5, Numbers DEF MadeInv, Object, TypeOK
  <2>2. /\ pc' \in [Goroutines -> Labels] /\ loc' \in [Goroutines -> LocalType']
        /\ pc'[g] = IF opts.debug THEN "mark" ELSE "count"
        /\ loc'[g].obj = o /\ Elsewhere(g)
    BY <2>1, <1>3, <1>5, FoundEffect
  <2>3. cached' \in [Object -> Nat]
    BY <1>5 DEF TypeOK
  <2>4. TypeOK'
    BY <2>2, <2>3, <1>2 DEF TypeOK, LocalType
  <2> QED
    BY <2>1, <2>2, <2>4
<1> QED
  BY <1>1, <1>2, <1>4, <1>5 DEF AllocSync, Same

LEMMA LocalsSet ==
  ASSUME TypeOK, NEW g \in Goroutines, NEW label \in Labels, NEW l \in LocalType, UNCHANGED total,
         Goto(g, label), loc' = [loc EXCEPT ![g] = l]
  PROVE  /\ pc' \in [Goroutines -> Labels] /\ loc' \in [Goroutines -> LocalType']
         /\ pc'[g] = label /\ loc'[g] = l /\ Elsewhere(g)
  BY TotalSame, LocalsMoved DEF Goto

LEMMA LabelSet ==
  ASSUME TypeOK, NEW g \in Goroutines, NEW label \in Labels, UNCHANGED <<loc, total>>, Goto(g, label)
  PROVE  /\ pc' \in [Goroutines -> Labels] /\ loc' \in [Goroutines -> LocalType']
         /\ pc'[g] = label /\ loc'[g] = loc[g] /\ Elsewhere(g)
<1>1. loc[g] \in LocalType
  BY LocalsTyped
<1>2. loc' = [loc EXCEPT ![g] = loc[g]]
  BY DEF TypeOK
<1> QED
  BY <1>1, <1>2, LocalsSet

LEMMA PopNodeEffect ==
  ASSUME TypeOK, CallInv, MadeInv, RankInv, NEW g \in Goroutines, PopNode(g)
  PROVE  /\ TypeOK' /\ Elsewhere(g) /\ pc[g] = "pop"
         /\ UNCHANGED <<opts, val, next, cached, tracker, inUse, total, peak, hold, dirty, wrong>>
         /\ \/ pc'[g] = "retry" /\ head' = head /\ Stacked' = Stacked
            \/ /\ loc[g].h \in Stacked
               /\ Stacked' = Stacked \ {loc[g].h}
               /\ loc'[g].obj = val[loc[g].h]
               /\ pc'[g] = IF opts.debug THEN "mark" ELSE "count"
<1> SUFFICES ASSUME NEW h, h = loc[g].h PROVE /\ TypeOK' /\ Elsewhere(g) /\ pc[g] = "pop"
         /\ UNCHANGED <<opts, val, next, cached, tracker, inUse, total, peak, hold, dirty, wrong>>
         /\ \/ pc'[g] = "retry" /\ head' = head /\ Stacked' = Stacked
            \/ /\ h \in Stacked
               /\ Stacked' = Stacked \ {h}
               /\ loc'[g].obj = val[h]
               /\ pc'[g] = IF opts.debug THEN "mark" ELSE "count"
  OBVIOUS
<1>1. UNCHANGED <<opts, val, next, cached, tracker, inUse, total, peak, hold, dirty, wrong>>
  BY DEF PopNode
<1>2. pc[g] = "pop" /\ h \in Node /\ loc[g].nxt = next[h]
  BY DEF PopNode, CallInv, CallAt
<1>3. CASE head = h
  <2>1. h \in Stacked
    BY <1>2, <1>3, StackedNodes, NilIsNoNode
  <2>2. val[h] \in 1..total /\ val[h] \in 0..total'
    BY <1>1, <2>1 DEF MadeInv
  <2>3. head' = next[h] /\ Found(g, val[h])
    BY <1>2, <1>3 DEF PopNode
  <2>4. /\ pc' \in [Goroutines -> Labels] /\ loc' \in [Goroutines -> LocalType']
        /\ pc'[g] = IF opts.debug THEN "mark" ELSE "count"
        /\ loc'[g].obj = val[h] /\ Elsewhere(g)
    BY <1>1, <2>2, <2>3, FoundEffect, TotalSame
  <2>5. TypeOK'
    BY <1>1, <1>2, <2>3, <2>4 DEF TypeOK, LocalType
  <2>6. Stacked' = Stacked \ {h}
    <3>1. PICK r \in [Node -> Nat] : Ranked(r, Stacked)
      BY DEF RankInv
    <3>2. next \in Links
      BY DEF TypeOK, Links
    <3>3. Stacked = Reach(next, h) /\ Stacked' = Reach(next, next[h])
      BY <1>1, <1>3, <2>3, StackedReach, StackedNext
    <3> QED
      BY <1>2, <3>1, <3>2, <3>3, ReachPop DEF Ranked
  <2> QED
    BY <1>1, <1>2, <2>1, <2>4, <2>5, <2>6
<1>4. CASE head # h
  <2>1. loc' = [loc EXCEPT ![g] = NoLocals] /\ Goto(g, "retry") /\ UNCHANGED head
    BY <1>4 DEF PopNode
  <2>2. /\ pc' \in [Goroutines -> Labels] /\ loc' \in [Goroutines -> LocalType']
        /\ pc'[g] = "retry" /\ Elsewhere(g)
    BY <1>1, <2>1, NoLocalsTyped, LocalsSet DEF Labels
  <2>3. TypeOK'
    BY <1>1, <2>1, <2>2 DEF TypeOK, LocalType
  <2> QED
    BY <1>1, <1>2, <2>1, <2>2, <2>3, StackSame
<1> QED
  BY <1>3, <1>4

LEMMA NewObjectEffect ==
  ASSUME TypeOK, NEW g \in Goroutines, NewObject(g)
  PROVE  /\ Same(g) /\ pc[g] = "new"
         /\ UNCHANGED <<cached, tracker, inUse, peak, hold, dirty, wrong>>
         /\ total' = total + 1 /\ total' \in Object
         /\ loc'[g].obj = total'
         /\ pc'[g] = IF opts.debug THEN "mark" ELSE "count"
<1>1. UNCHANGED <<opts, head, val, next, cached, tracker, inUse, peak, hold, dirty, wrong>>
  BY DEF NewObject, stack
<1>2. pc[g] = "new" /\ total' = total + 1 /\ total < MaxObjects /\ Found(g, total')
  BY DEF NewObject
<1>3. total' \in 0..MaxObjects /\ total <= total' /\ total' \in 0..total' /\ total' \in Object
      /\ total \in Nat
  BY <1>2, Numbers DEF TypeOK, Object
<1>4. /\ pc' \in [Goroutines -> Labels] /\ loc' \in [Goroutines -> LocalType']
      /\ pc'[g] = IF opts.debug THEN "mark" ELSE "count"
      /\ loc'[g].obj = total' /\ Elsewhere(g)
  BY <1>2, <1>3, FoundEffect
<1>5. hold \in [Goroutines -> SUBSET (1..total')] /\ dirty \subseteq 1..total'
  <2>1. 1..total \subseteq 1..total'
    BY <1>2, <1>3
  <2>2. hold \in [Goroutines -> SUBSET (1..total)] /\ dirty \subseteq 1..total
    BY DEF TypeOK
  <2> QED
    BY <2>1, <2>2
<1>6. TypeOK'
  BY <1>1, <1>3, <1>4, <1>5 DEF TypeOK, LocalType
<1> QED
  BY <1>1, <1>2, <1>3, <1>4, <1>6, StackSame DEF Same

LEMMA DebugMarkAllocEffect ==
  ASSUME TypeOK, CallInv, NEW g \in Goroutines, DebugMarkAlloc(g)
  PROVE  /\ Same(g) /\ pc[g] = "mark"
         /\ UNCHANGED <<cached, inUse, total, peak, hold, dirty, wrong>>
         /\ tracker' = tracker \cup {loc[g].obj}
         /\ pc'[g] = "count" /\ loc'[g] = loc[g]
<1>1. UNCHANGED <<opts, head, val, next, cached, inUse, total, peak, hold, dirty, wrong>>
  BY DEF DebugMarkAlloc, stack
<1>2. /\ pc' \in [Goroutines -> Labels] /\ loc' \in [Goroutines -> LocalType']
      /\ pc'[g] = "count" /\ loc'[g] = loc[g] /\ Elsewhere(g)
  BY <1>1, LabelSet DEF DebugMarkAlloc, Labels
<1>3. loc[g].obj \in Object
  BY Numbers DEF CallInv, CallAt, DebugMarkAlloc, Carrying, TypeOK, Object
<1>4. TypeOK'
  BY <1>1, <1>2, <1>3 DEF TypeOK, LocalType, DebugMarkAlloc
<1> QED
  BY <1>1, <1>2, <1>4, StackSame DEF Same, DebugMarkAlloc

LEMMA CountAllocEffect ==
  ASSUME TypeOK, NEW g \in Goroutines, CountAlloc(g)
  PROVE  /\ Same(g) /\ pc[g] = "count"
         /\ UNCHANGED <<cached, tracker, total, peak, hold, dirty, wrong>>
         /\ inUse' = inUse + 1
         /\ pc'[g] = "peak" /\ loc'[g].obj = loc[g].obj /\ loc'[g].in = inUse + 1
<1>1. UNCHANGED <<opts, head, val, next, cached, tracker, total, peak, hold, dirty, wrong>>
  BY DEF CountAlloc, stack
<1> DEFINE l == [loc[g] EXCEPT !.in = inUse + 1]
<1>2. l \in LocalType /\ l.obj = loc[g].obj /\ l.in = inUse + 1
  <2>1. loc[g] \in LocalType /\ inUse + 1 \in Int
    BY LocalsTyped DEF TypeOK
  <2> QED
    BY <2>1 DEF LocalType
<1>3. loc' = [loc EXCEPT ![g] = l] /\ Goto(g, "peak") /\ inUse' = inUse + 1 /\ pc[g] = "count"
  BY DEF CountAlloc
<1> HIDE DEF l
<1>4. /\ pc' \in [Goroutines -> Labels] /\ loc' \in [Goroutines -> LocalType']
      /\ pc'[g] = "peak" /\ loc'[g] = l /\ Elsewhere(g)
  BY <1>1, <1>2, <1>3, LocalsSet DEF Labels
<1>5. TypeOK'
  BY <1>1, <1>3, <1>4 DEF TypeOK, LocalType
<1> QED
  BY <1>1, <1>2, <1>3, <1>4, <1>5, StackSame DEF Same

LEMMA PeakEffect ==
  ASSUME TypeOK, CallInv, NEW g \in Goroutines, LoadPeak(g) \/ RaisePeak(g)
  PROVE  /\ Same(g) /\ pc[g] \in {"peak", "raise"}
         /\ UNCHANGED <<cached, tracker, inUse, total, dirty, wrong>>
         /\ peak <= peak'
         /\ \/ /\ hold' = [hold EXCEPT ![g] = @ \cup {loc[g].obj}]
               /\ pc'[g] = "idle" /\ loc[g].in <= peak' /\ peak' \in {peak, loc[g].in}
            \/ /\ hold' = hold /\ peak' = peak
               /\ pc'[g] \in {"peak", "raise"} /\ (pc'[g] = "raise" => loc'[g].old < loc'[g].in)
               /\ loc'[g].obj = loc[g].obj /\ loc'[g].in = loc[g].in
<1>1. UNCHANGED <<opts, head, val, next, cached, tracker, inUse, total, dirty, wrong>>
  BY DEF LoadPeak, RaisePeak, stack
<1>2. loc[g] \in LocalType /\ loc[g].in \in Int /\ peak \in Nat /\ pc[g] \in {"peak", "raise"}
  BY LocalsTyped DEF LocalType, TypeOK, LoadPeak, RaisePeak
<1>3. CASE Deliver(g) /\ peak <= peak' /\ loc[g].in <= peak' /\ peak' \in {peak, loc[g].in}
  <2>1. loc[g].obj \in 1..total
    BY <1>2 DEF CallInv, CallAt, Carrying
  <2>2. hold' \in [Goroutines -> SUBSET (1..total)] /\ peak' \in Nat
    BY <1>2, <1>3, <2>1 DEF Deliver, TypeOK
  <2>3. /\ pc' \in [Goroutines -> Labels] /\ loc' \in [Goroutines -> LocalType']
        /\ pc'[g] = "idle" /\ Elsewhere(g)
    BY <1>1, <1>3, NoLocalsTyped, LocalsSet DEF Labels, Deliver
  <2>4. TypeOK'
    BY <1>1, <2>2, <2>3 DEF TypeOK, LocalType
  <2> QED
    BY <1>1, <1>2, <1>3, <2>3, <2>4, StackSame DEF Same, Deliver
<1>4. CASE loc' = [loc EXCEPT ![g].old = peak] /\ Goto(g, "raise") /\ hold' = hold /\ peak' = peak
           /\ peak < loc[g].in
  <2> DEFINE l == [loc[g] EXCEPT !.old = peak]
  <2>1. l \in LocalType /\ l.obj = loc[g].obj /\ l.in = loc[g].in /\ l.old = peak
    BY <1>2 DEF LocalType
  <2>2. loc' = [loc EXCEPT ![g] = l] /\ Goto(g, "raise")
    BY <1>4
  <2> HIDE DEF l
  <2>3. /\ pc' \in [Goroutines -> Labels] /\ loc' \in [Goroutines -> LocalType']
        /\ pc'[g] = "raise" /\ loc'[g] = l /\ Elsewhere(g)
    BY <1>1, <2>1, <2>2, LocalsSet DEF Labels
  <2>4. TypeOK'
    BY <1>1, <1>4, <2>3 DEF TypeOK, LocalType
  <2>5. /\ pc'[g] \in {"peak", "raise"} /\ loc'[g].old < loc'[g].in
        /\ loc'[g].obj = loc[g].obj /\ loc'[g].in = loc[g].in /\ peak <= peak'
    BY <1>2, <1>4, <2>1, <2>3
  <2> QED
    BY <1>1, <1>2, <1>4, <2>3, <2>4, <2>5, StackSame DEF Same
<1>5. CASE Goto(g, "peak") /\ UNCHANGED <<peak, hold, loc>>
  <2>1. /\ pc' \in [Goroutines -> Labels] /\ loc' \in [Goroutines -> LocalType']
        /\ pc'[g] = "peak" /\ loc'[g] = loc[g] /\ Elsewhere(g)
    BY <1>1, <1>5, LabelSet DEF Labels
  <2>2. TypeOK'
    BY <1>1, <1>5, <2>1 DEF TypeOK, LocalType
  <2> QED
    BY <1>1, <1>2, <1>5, <2>1, <2>2, StackSame DEF Same
<1>6. CASE LoadPeak(g)
  BY <1>2, <1>3, <1>4, <1>6 DEF LoadPeak
<1>7. CASE RaisePeak(g)
  <2>1. loc[g].old < loc[g].in /\ loc[g].old \in Nat
    BY <1>2, <1>7 DEF CallInv, CallAt, RaisePeak, LocalType
  <2> QED
    BY <1>2, <1>3, <1>5, <1>7, <2>1 DEF RaisePeak
<1> QED
  BY <1>6, <1>7

LEMMA FreeEffect ==
  ASSUME TypeOK, NEW g \in Goroutines, NEW o \in Object, Free(g, o)
  PROVE  /\ Same(g) /\ pc[g] = "idle"
         /\ UNCHANGED <<cached, tracker, inUse, total, peak>>
         /\ o \in 1..total /\ hold' = [hold EXCEPT ![g] = @ \ {o}]
         /\ Orderly' => Orderly /\ o \in hold[g]
         /\ dirty' = IF opts.zero THEN dirty \ {o} ELSE dirty
         /\ loc'[g].obj = o
         /\ pc'[g] = IF opts.debug THEN "check" ELSE "put"
<1>1. UNCHANGED <<opts, head, val, next, cached, tracker, inUse, total, peak>>
  BY DEF Free, stack
<1>2. pc[g] = "idle" /\ hold' = [hold EXCEPT ![g] = @ \ {o}]
      /\ dirty' = IF opts.zero THEN dirty \ {o} ELSE dirty
  BY DEF Free
<1>3. o \in 1..total /\ o \in 0..total
  BY Numbers DEF Free, TypeOK, Object
<1>4. wrong' \in 0..opts.rogue /\ (Orderly' => Orderly /\ o \in hold[g])
  <2>1. opts.rogue \in Nat /\ wrong \in Nat /\ wrong <= opts.rogue
    BY PoolAssumption DEF TypeOK
  <2> QED
    BY <2>1 DEF Free, Orderly
<1> DEFINE l == [NoLocals EXCEPT !.obj = o]
           label == IF opts.debug THEN "check" ELSE "put"
<1>5. l \in LocalType /\ l.obj = o
  BY <1>3, Numbers DEF NoLocals, LocalType
<1>6. loc' = [loc EXCEPT ![g] = l] /\ Goto(g, label) /\ label \in Labels
  BY DEF Free, Labels
<1> HIDE DEF l, label
<1>7. /\ pc' \in [Goroutines -> Labels] /\ loc' \in [Goroutines -> LocalType']
      /\ pc'[g] = label /\ loc'[g] = l /\ Elsewhere(g)
  BY <1>1, <1>5, <1>6, LocalsSet
<1>8. hold' \in [Goroutines -> SUBSET (1..total)] /\ dirty' \subseteq 1..total
  BY <1>2 DEF TypeOK
<1>9. TypeOK'
  BY <1>1, <1>4, <1>7, <1>8 DEF TypeOK, LocalType
<1> QED
  BY <1>1, <1>2, <1>3, <1>4, <1>5, <1>7, <1>9, StackSame DEF Same, label

LEMMA DebugMarkFreeEffect ==
  ASSUME TypeOK, NEW g \in Goroutines, DebugMarkFree(g)
  PROVE  /\ Same(g) /\ pc[g] = "check"
         /\ UNCHANGED <<cached, inUse, total, peak, hold, dirty, wrong>>
         /\ tracker' = tracker \ {loc[g].obj}
         /\ loc'[g] = loc[g]
         /\ pc'[g] = IF loc[g].obj \in tracker THEN "put" ELSE "panic"
<1>1. UNCHANGED <<opts, head, val, next, cached, inUse, total, peak, hold, dirty, wrong, loc>>
  BY DEF DebugMarkFree, stack
<1> DEFINE label == IF loc[g].obj \in tracker THEN "put" ELSE "panic"
<1>2. Goto(g, label) /\ label \in Labels
  BY DEF DebugMarkFree, Labels
<1> HIDE DEF label
<1>3. /\ pc' \in [Goroutines -> Labels] /\ loc' \in [Goroutines -> LocalType']
      /\ pc'[g] = label /\ loc'[g] = loc[g] /\ Elsewhere(g)
  BY <1>1, <1>2, LabelSet
<1>4. TypeOK'
  BY <1>1, <1>3 DEF TypeOK, LocalType, DebugMarkFree
<1> QED
  BY <1>1, <1>3, <1>4, StackSame DEF Same, DebugMarkFree, label

LEMMA PutSyncEffect ==
  ASSUME TypeOK, CallInv, NEW g \in Goroutines, PutSync(g)
  PROVE  /\ Same(g) /\ pc[g] = "put" /\ opts.sync
         /\ UNCHANGED <<tracker, inUse, total, peak, hold, dirty, wrong>>
         /\ loc[g].obj \in Object
         /\ cached' = [cached EXCEPT ![loc[g].obj] = @ + 1]
         /\ pc'[g] = "uncount"
<1>1. UNCHANGED <<opts, head, val, next, tracker, inUse, total, peak, hold, dirty, wrong>>
  BY DEF PutSync, stack
<1>2. /\ pc' \in [Goroutines -> Labels] /\ loc' \in [Goroutines -> LocalType']
      /\ pc'[g] = "uncount" /\ Elsewhere(g)
  BY <1>1, LabelSet DEF PutSync, Labels
<1>3. loc[g].obj \in Object
  BY Numbers DEF CallInv, CallAt, PutSync, Carrying, TypeOK, Object
<1>4. cached' \in [Object -> Nat]
  BY <1>3 DEF TypeOK, PutSync
<1>5. TypeOK'
  BY <1>1, <1>2, <1>4 DEF TypeOK, LocalType
<1> QED
  BY <1>1, <1>2, <1>3, <1>5, StackSame DEF Same, PutSync

LEMMA CountFreeEffect ==
  ASSUME TypeOK, NEW g \in Goroutines, CountFree(g)
  PROVE  /\ Same(g) /\ pc[g] = "uncount"
         /\ UNCHANGED <<cached, tracker, total, peak, hold, dirty, wrong>>
         /\ inUse' = inUse - 1 /\ pc'[g] = "idle"
<1>1. UNCHANGED <<opts, head, val, next, cached, tracker, total, peak, hold, dirty, wrong>>
  BY DEF CountFree, stack
<1>2. /\ pc' \in [Goroutines -> Labels] /\ loc' \in [Goroutines -> LocalType']
      /\ pc'[g] = "idle" /\ Elsewhere(g)
  BY <1>1, LocalsSet, NoLocalsTyped DEF CountFree, Labels
<1>3. TypeOK'
  BY <1>1, <1>2 DEF TypeOK, LocalType, CountFree
<1> QED
  BY <1>1, <1>2, <1>3, StackSame DEF Same, CountFree

(***************************************************************************)
(* What the collector does not keep is neither on the stack nor known to a *)
(* goroutine.                                                              *)
(***************************************************************************)
LEMMA Unreferenced ==
  ASSUME TypeOK, NEW n \in Node, n \notin Referenced
  PROVE  n \notin Stacked /\ \A k \in Goroutines : loc[k].h # n /\ loc[k].n # n
<1>1. PICK S \in SUBSET Node : Closed(S, {head} \cup Locals) /\ n \notin S
  BY DEF Referenced, Closure
<1>2. Closed(S, {head})
  BY <1>1 DEF Closed
<1>3. n \notin Stacked
  BY <1>1, <1>2 DEF Stacked, Closure
<1>4. n \notin Locals
  BY <1>1, NilIsNoNode DEF Closed
<1>5. \A k \in Goroutines : loc[k].h \in Locals /\ loc[k].n \in Locals
  BY DEF Locals
<1> QED
  BY <1>3, <1>4, <1>5

LEMMA NewNodeEffect ==
  ASSUME TypeOK, CallInv, NEW g \in Goroutines, NewNode(g)
  PROVE  /\ TypeOK' /\ Elsewhere(g) /\ pc[g] = "put" /\ pc'[g] = "load" /\ Stacked' = Stacked
         /\ UNCHANGED <<opts, head, cached, tracker, inUse, total, peak, hold, dirty, wrong>>
         /\ \E n \in Node :
              /\ n \notin Stacked
              /\ \A k \in Goroutines : loc[k].h # n /\ loc[k].n # n
              /\ val' = [val EXCEPT ![n] = loc[g].obj]
              /\ next' = [next EXCEPT ![n] = Nil]
              /\ loc'[g].n = n /\ loc'[g].obj = loc[g].obj
<1>1. UNCHANGED <<opts, head, cached, tracker, inUse, total, peak, hold, dirty, wrong>>
  BY DEF NewNode
<1>2. PICK n \in Node \ Referenced :
        /\ val' = [val EXCEPT ![n] = loc[g].obj]
        /\ next' = [next EXCEPT ![n] = Nil]
        /\ loc' = [loc EXCEPT ![g].n = n]
  BY DEF NewNode
<1>3. n \notin Stacked /\ \A k \in Goroutines : loc[k].h # n /\ loc[k].n # n
  BY Unreferenced
<1> DEFINE l == [loc[g] EXCEPT !.n = n]
<1>4. l \in LocalType /\ l.n = n /\ l.obj = loc[g].obj
  BY LocalsTyped DEF LocalType
<1>5. loc' = [loc EXCEPT ![g] = l] /\ Goto(g, "load") /\ pc[g] = "put"
  BY <1>2 DEF NewNode
<1> HIDE DEF l
<1>6. /\ pc' \in [Goroutines -> Labels] /\ loc' \in [Goroutines -> LocalType']
      /\ pc'[g] = "load" /\ loc'[g] = l /\ Elsewhere(g)
  BY <1>1, <1>4, <1>5, LocalsSet DEF Labels
<1>7. loc[g].obj \in Object
  BY <1>5, Numbers DEF CallInv, CallAt, Carrying, TypeOK, Object
<1>8. val' \in [Node -> Object \cup {Nil}] /\ next' \in [Node -> Node \cup {Nil}]
  BY <1>2, <1>7 DEF TypeOK
<1>9. TypeOK'
  BY <1>1, <1>6, <1>8 DEF TypeOK, LocalType
<1>10. Stacked' = Stacked
  <2>1. next \in Links /\ next' \in Links /\ head \in Node \cup {Nil} /\ n \notin Reach(next, head)
    BY <1>3, <1>8, StackedReach DEF TypeOK, Links
  <2>2. \A m \in Node : m # n => next'[m] = next[m]
    BY <1>2 DEF TypeOK
  <2> QED
    BY <1>1, <2>1, <2>2, StackedReach, StackedNext, ReachElsewhere
<1>11. loc'[g].n = n /\ loc'[g].obj = loc[g].obj
  BY <1>4, <1>6
<1> QED
  BY <1>1, <1>2, <1>3, <1>5, <1>6, <1>9, <1>10, <1>11

LEMMA LoadHeadEffect ==
  ASSUME TypeOK, CallInv, NEW g \in Goroutines, LoadHead(g)
  PROVE  /\ TypeOK' /\ Elsewhere(g) /\ pc[g] = "load" /\ pc'[g] = "push" /\ Stacked' = Stacked
         /\ UNCHANGED <<opts, head, val, cached, tracker, inUse, total, peak, hold, dirty, wrong>>
         /\ next' = [next EXCEPT ![loc[g].n] = head]
         /\ loc'[g].n = loc[g].n /\ loc'[g].obj = loc[g].obj /\ loc'[g].h = head
<1>1. UNCHANGED <<opts, head, val, cached, tracker, inUse, total, peak, hold, dirty, wrong>>
  BY DEF LoadHead
<1> DEFINE l == [loc[g] EXCEPT !.h = head]
<1>2. l \in LocalType /\ l.n = loc[g].n /\ l.obj = loc[g].obj /\ l.h = head
  BY LocalsTyped DEF LocalType, TypeOK
<1>3. /\ loc' = [loc EXCEPT ![g] = l] /\ Goto(g, "push") /\ pc[g] = "load"
      /\ next' = [next EXCEPT ![loc[g].n] = head]
  BY DEF LoadHead
<1> HIDE DEF l
<1>4. /\ pc' \in [Goroutines -> Labels] /\ loc' \in [Goroutines -> LocalType']
      /\ pc'[g] = "push" /\ loc'[g] = l /\ Elsewhere(g)
  BY <1>1, <1>2, <1>3, LocalsSet DEF Labels
<1>5. loc[g].n \in Node /\ loc[g].n \notin Stacked
  BY <1>3 DEF CallInv, CallAt, Pushing
<1>6. next' \in [Node -> Node \cup {Nil}]
  BY <1>3, <1>5 DEF TypeOK
<1>7. TypeOK'
  BY <1>1, <1>4, <1>6 DEF TypeOK, LocalType
<1>8. Stacked' = Stacked
  <2>1. next \in Links /\ next' \in Links /\ head \in Node \cup {Nil} /\ loc[g].n \notin Reach(next, head)
    BY <1>5, <1>6, StackedReach DEF TypeOK, Links
  <2>2. \A m \in Node : m # loc[g].n => next'[m] = next[m]
    BY <1>3 DEF TypeOK
  <2> QED
    BY <1>1, <2>1, <2>2, StackedReach, StackedNext, ReachElsewhere
<1> QED
  BY <1>1, <1>2, <1>3, <1>4, <1>7, <1>8

LEMMA PushNodeEffect ==
  ASSUME TypeOK, CallInv, NEW g \in Goroutines, PushNode(g)
  PROVE  /\ TypeOK' /\ Elsewhere(g) /\ pc[g] = "push"
         /\ UNCHANGED <<opts, val, next, cached, tracker, inUse, total, peak, hold, dirty, wrong>>
         /\ \/ pc'[g] = "load" /\ loc'[g] = loc[g] /\ head' = head /\ Stacked' = Stacked
            \/ /\ pc'[g] = "uncount" /\ head = next[loc[g].n]
               /\ Stacked' = Stacked \cup {loc[g].n}
<1> SUFFICES ASSUME NEW n, n = loc[g].n
             PROVE  /\ TypeOK' /\ Elsewhere(g) /\ pc[g] = "push"
         /\ UNCHANGED <<opts, val, next, cached, tracker, inUse, total, peak, hold, dirty, wrong>>
         /\ \/ pc'[g] = "load" /\ loc'[g] = loc[g] /\ head' = head /\ Stacked' = Stacked
            \/ pc'[g] = "uncount" /\ head = next[n] /\ Stacked' = Stacked \cup {n}
  OBVIOUS
<1>1. UNCHANGED <<opts, val, next, cached, tracker, inUse, total, peak, hold, dirty, wrong>>
  BY DEF PushNode
<1>2. pc[g] = "push" /\ n \in Node /\ next[n] = loc[g].h
  BY DEF PushNode, CallInv, CallAt, Pushing
<1>3. CASE head = loc[g].h
  <2>1. head' = n /\ loc' = [loc EXCEPT ![g] = NoLocals] /\ Goto(g, "uncount")
    BY <1>3 DEF PushNode
  <2>2. /\ pc' \in [Goroutines -> Labels] /\ loc' \in [Goroutines -> LocalType']
        /\ pc'[g] = "uncount" /\ Elsewhere(g)
    BY <1>1, <2>1, NoLocalsTyped, LocalsSet DEF Labels
  <2>3. TypeOK'
    BY <1>1, <1>2, <2>1, <2>2 DEF TypeOK, LocalType
  <2>4. Stacked' = Stacked \cup {n}
    <3>1. next \in Links
      BY DEF TypeOK, Links
    <3>2. Stacked = Reach(next, next[n]) /\ Stacked' = Reach(next, n)
      BY <1>1, <1>2, <1>3, <2>1, StackedReach, StackedNext
    <3> QED
      BY <1>2, <3>1, <3>2, ReachPush
  <2> QED
    BY <1>1, <1>2, <1>3, <2>2, <2>3, <2>4
<1>4. CASE head # loc[g].h
  <2>1. Goto(g, "load") /\ UNCHANGED <<head, loc>>
    BY <1>4 DEF PushNode
  <2>2. /\ pc' \in [Goroutines -> Labels] /\ loc' \in [Goroutines -> LocalType']
        /\ pc'[g] = "load" /\ loc'[g] = loc[g] /\ Elsewhere(g)
    BY <1>1, <2>1, LabelSet DEF Labels
  <2>3. TypeOK'
    BY <1>1, <2>1, <2>2 DEF TypeOK, LocalType
  <2> QED
    BY <1>1, <1>2, <2>1, <2>2, <2>3, StackSame
<1> QED
  BY <1>3, <1>4

(***************************************************************************)
(* The two steps that move no goroutine.                                   *)
(***************************************************************************)
LEMMA UseEffect ==
  ASSUME TypeOK, NEW g \in Goroutines, NEW o \in Object, Use(g, o)
  PROVE  /\ TypeOK' /\ Stacked' = Stacked
         /\ UNCHANGED <<opts, head, val, next, cached, tracker, inUse, total, peak, hold, wrong, pc, loc>>
         /\ o \in hold[g] /\ dirty' = dirty \cup {o}
<1>1. /\ UNCHANGED <<opts, head, val, next, cached, tracker, inUse, total, peak, hold, wrong, pc, loc>>
      /\ o \in hold[g] /\ dirty' = dirty \cup {o}
  BY DEF Use, stack
<1>2. dirty' \subseteq 1..total
  BY <1>1 DEF TypeOK
<1>3. TypeOK'
  BY <1>1, <1>2 DEF TypeOK
<1> QED
  BY <1>1, <1>3, StackSame

LEMMA DropCachedEffect ==
  ASSUME TypeOK, DropCached
  PROVE  /\ TypeOK' /\ Stacked' = Stacked
         /\ UNCHANGED <<opts, head, val, next, tracker, inUse, total, peak, hold, dirty, wrong, pc, loc>>
         /\ \A o \in Object : cached'[o] <= cached[o]
<1>1. UNCHANGED <<opts, head, val, next, tracker, inUse, total, peak, hold, dirty, wrong, pc, loc>>
  BY DEF DropCached, stack
<1>2. PICK o \in Object : cached[o] > 0 /\ cached' = [cached EXCEPT ![o] = @ - 1]
  BY DEF DropCached
<1>3. cached' \in [Object -> Nat] /\ \A p \in Object : cached'[p] <= cached[p]
  BY <1>2 DEF TypeOK
<1>4. TypeOK'
  BY <1>1, <1>3 DEF TypeOK
<1> QED
  BY <1>1, <1>3, <1>4, StackSame

----------------------------------------------------------------------------
(* Calls *)

(***************************************************************************)
(* A step of g that changes no node and does not leave g with a node of    *)
(* its own.                                                                *)
(***************************************************************************)
LEMMA CallKept ==
  ASSUME TypeOK, CallInv, NEW g \in Goroutines, Elsewhere(g), UNCHANGED <<val, next>>,
         total' \in Nat, total <= total', pc'[g] \notin Pushing,
         \A k \in Goroutines : k # g /\ pc[k] \in Pushing => loc[k].n \notin Stacked',
         pc'[g] \in Carrying => loc'[g].obj \in 1..total',
         pc'[g] = "pop" => /\ loc'[g].h \in Stacked /\ loc'[g].h \in Node
                           /\ loc'[g].nxt = next[loc'[g].h],
         pc'[g] = "raise" => loc'[g].old < loc'[g].in
  PROVE  CallInv'
<1>1. CallAt(g)'
  BY DEF CallAt, Pushing
<1>2. ASSUME NEW k \in Goroutines, k # g PROVE CallAt(k)'
  <2>1. pc'[k] = pc[k] /\ loc'[k] = loc[k] /\ CallAt(k)
    BY <1>2 DEF Elsewhere, CallInv
  <2>2. pc'[k] \in Carrying => loc'[k].obj \in 1..total'
    BY <2>1 DEF CallAt, TypeOK
  <2>3. ASSUME pc'[k] \in Pushing
        PROVE  /\ loc'[k].n \in Node /\ loc'[k].n \notin Stacked' /\ val'[loc'[k].n] = loc'[k].obj
               /\ \A i \in Goroutines :
                    /\ pc'[i] = "pop" => loc'[i].h # loc'[k].n
                    /\ pc'[i] \in Pushing /\ i # k => loc'[i].n # loc'[k].n
    <3>1. /\ loc[k].n \in Node /\ loc[k].n \notin Stacked /\ val[loc[k].n] = loc[k].obj
          /\ \A i \in Goroutines :
               /\ pc[i] = "pop" => loc[i].h # loc[k].n
               /\ pc[i] \in Pushing /\ i # k => loc[i].n # loc[k].n
      BY <2>1, <2>3 DEF CallAt
    <3>2. ASSUME NEW i \in Goroutines PROVE /\ pc'[i] = "pop" => loc'[i].h # loc'[k].n
                                            /\ pc'[i] \in Pushing /\ i # k => loc'[i].n # loc'[k].n
      <4>1. CASE i = g
        BY <2>1, <3>1, <4>1
      <4>2. CASE i # g
        BY <2>1, <3>1, <4>2 DEF Elsewhere
      <4> QED
        BY <4>1, <4>2
    <3> QED
      BY <1>2, <2>1, <2>3, <3>1, <3>2
  <2> QED
    BY <2>1, <2>2, <2>3 DEF CallAt
<1> QED
  BY <1>1, <1>2 DEF CallInv

LEMMA CallNewNode ==
  ASSUME TypeOK, CallInv, NEW g \in Goroutines, NewNode(g) PROVE CallInv'
<1>1. PICK n \in Node :
              /\ n \notin Stacked
              /\ \A k \in Goroutines : loc[k].h # n /\ loc[k].n # n
              /\ val' = [val EXCEPT ![n] = loc[g].obj]
              /\ next' = [next EXCEPT ![n] = Nil]
              /\ loc'[g].n = n /\ loc'[g].obj = loc[g].obj
  BY NewNodeEffect
<1>2. /\ Elsewhere(g) /\ pc[g] = "put" /\ pc'[g] = "load" /\ Stacked' = Stacked /\ total' = total
  BY NewNodeEffect
<1>3. val'[n] = loc[g].obj /\ \A m \in Node : m # n => val'[m] = val[m] /\ next'[m] = next[m]
  BY <1>1 DEF TypeOK
<1>4. ASSUME NEW k \in Goroutines PROVE CallAt(k)'
  <2>1. CASE k = g
    <3>1. loc[g].obj \in 1..total
      BY <1>2 DEF CallInv, CallAt, Carrying
    <3>2. \A i \in Goroutines : i # g => loc'[i].h # n /\ loc'[i].n # n
      BY <1>1, <1>2 DEF Elsewhere
    <3> QED
      BY <1>1, <1>2, <1>3, <2>1, <3>1, <3>2 DEF CallAt, Pushing, Carrying
  <2>2. CASE k # g
    <3>1. pc'[k] = pc[k] /\ loc'[k] = loc[k] /\ CallAt(k) /\ loc[k].h # n /\ loc[k].n # n
      BY <1>1, <1>2, <2>2 DEF Elsewhere, CallInv
    <3>2. pc'[k] = "pop" => loc'[k].h \in Node /\ loc'[k].nxt = next'[loc'[k].h]
      BY <1>3, <3>1 DEF CallAt
    <3>3. pc'[k] = "push" => next'[loc'[k].n] = loc'[k].h
      BY <1>3, <3>1 DEF CallAt, Pushing
    <3>4. ASSUME pc'[k] \in Pushing
          PROVE  /\ loc'[k].n \in Node /\ loc'[k].n \notin Stacked' /\ val'[loc'[k].n] = loc'[k].obj
                 /\ \A i \in Goroutines :
                      /\ pc'[i] = "pop" => loc'[i].h # loc'[k].n
                      /\ pc'[i] \in Pushing /\ i # k => loc'[i].n # loc'[k].n
      <4>1. /\ loc[k].n \in Node /\ loc[k].n \notin Stacked /\ val[loc[k].n] = loc[k].obj
            /\ \A i \in Goroutines :
                 /\ pc[i] = "pop" => loc[i].h # loc[k].n
                 /\ pc[i] \in Pushing /\ i # k => loc[i].n # loc[k].n
        BY <3>1, <3>4 DEF CallAt
      <4>2. ASSUME NEW i \in Goroutines PROVE /\ pc'[i] = "pop" => loc'[i].h # loc'[k].n
                                              /\ pc'[i] \in Pushing /\ i # k => loc'[i].n # loc'[k].n
        <5>1. CASE i = g
          BY <1>1, <1>2, <3>1, <5>1
        <5>2. CASE i # g
          BY <1>2, <3>1, <4>1, <5>2 DEF Elsewhere
        <5> QED
          BY <5>1, <5>2
      <4> QED
        BY <1>2, <1>3, <3>1, <4>1, <4>2
    <3> QED
      BY <1>2, <3>1, <3>2, <3>3, <3>4 DEF CallAt
  <2> QED
    BY <2>1, <2>2
<1> QED
  BY <1>4 DEF CallInv

LEMMA CallLoadHead ==
  ASSUME TypeOK, CallInv, NEW g \in Goroutines, LoadHead(g) PROVE CallInv'
<1>1. /\ Elsewhere(g) /\ pc[g] = "load" /\ pc'[g] = "push" /\ Stacked' = Stacked
      /\ UNCHANGED <<total, val>>
      /\ next' = [next EXCEPT ![loc[g].n] = head]
      /\ loc'[g].n = loc[g].n /\ loc'[g].obj = loc[g].obj /\ loc'[g].h = head
  BY LoadHeadEffect
<1> SUFFICES ASSUME NEW n, n = loc[g].n PROVE CallInv'
  OBVIOUS
<1>2. /\ n \in Node /\ n \notin Stacked /\ val[n] = loc[g].obj /\ loc[g].obj \in 1..total
      /\ \A i \in Goroutines : /\ pc[i] = "pop" => loc[i].h # n
                               /\ pc[i] \in Pushing /\ i # g => loc[i].n # n
  BY <1>1 DEF CallInv, CallAt, Pushing, Carrying
<1>3. next'[n] = head /\ \A m \in Node : m # n => next'[m] = next[m]
  BY <1>1, <1>2 DEF TypeOK
<1>4. \A i \in Goroutines : i # g => pc'[i] = pc[i] /\ loc'[i] = loc[i]
  BY <1>1 DEF Elsewhere
<1>5. ASSUME NEW k \in Goroutines PROVE CallAt(k)'
  <2>1. CASE k = g
    BY <1>1, <1>2, <1>3, <1>4, <2>1 DEF CallAt, Pushing, Carrying
  <2>2. CASE k # g
    <3>1. pc'[k] = pc[k] /\ loc'[k] = loc[k] /\ CallAt(k)
      BY <1>4, <2>2 DEF CallInv
    <3>2. pc'[k] = "pop" => loc'[k].h \in Node /\ loc'[k].nxt = next'[loc'[k].h]
      BY <1>2, <1>3, <3>1 DEF CallAt
    <3>3. pc'[k] = "push" => next'[loc'[k].n] = loc'[k].h
      BY <1>2, <1>3, <2>2, <3>1 DEF CallAt, Pushing
    <3>4. ASSUME pc'[k] \in Pushing
          PROVE  /\ loc'[k].n \in Node /\ loc'[k].n \notin Stacked' /\ val'[loc'[k].n] = loc'[k].obj
                 /\ \A i \in Goroutines :
                      /\ pc'[i] = "pop" => loc'[i].h # loc'[k].n
                      /\ pc'[i] \in Pushing /\ i # k => loc'[i].n # loc'[k].n
      <4>1. /\ loc[k].n \in Node /\ loc[k].n \notin Stacked /\ val[loc[k].n] = loc[k].obj
            /\ \A i \in Goroutines :
                 /\ pc[i] = "pop" => loc[i].h # loc[k].n
                 /\ pc[i] \in Pushing /\ i # k => loc[i].n # loc[k].n
        BY <3>1, <3>4 DEF CallAt
      <4>2. ASSUME NEW i \in Goroutines PROVE /\ pc'[i] = "pop" => loc'[i].h # loc'[k].n
                                              /\ pc'[i] \in Pushing /\ i # k => loc'[i].n # loc'[k].n
        <5>1. CASE i = g
          BY <1>1, <1>2, <2>2, <3>1, <3>4, <5>1
        <5>2. CASE i # g
          BY <1>4, <3>1, <4>1, <5>2
        <5> QED
          BY <5>1, <5>2
      <4> QED
        BY <1>1, <3>1, <4>1, <4>2
    <3> QED
      BY <1>1, <3>1, <3>2, <3>3, <3>4 DEF CallAt
  <2> QED
    BY <2>1, <2>2
<1> QED
  BY <1>5 DEF CallInv

LEMMA CallPushNode ==
  ASSUME TypeOK, CallInv, NEW g \in Goroutines, PushNode(g) PROVE CallInv'
<1>0. /\ TypeOK' /\ Elsewhere(g) /\ pc[g] = "push" /\ UNCHANGED <<val, next, total>>
      /\ total' \in Nat /\ total <= total'
  BY PushNodeEffect DEF TypeOK
<1>1. CASE pc'[g] = "load" /\ loc'[g] = loc[g] /\ Stacked' = Stacked
  <2>1. \A k \in Goroutines : /\ loc'[k] = loc[k] /\ (pc'[k] = "pop" <=> pc[k] = "pop")
                              /\ (pc'[k] \in Pushing <=> pc[k] \in Pushing)
                              /\ (pc'[k] \in Carrying <=> pc[k] \in Carrying)
                              /\ (pc'[k] = "push" => pc[k] = "push")
                              /\ (pc'[k] = "raise" => pc[k] = "raise")
    BY <1>0, <1>1 DEF Elsewhere, Pushing, Carrying
  <2> QED
    BY <1>0, <1>1, <2>1 DEF CallInv, CallAt
<1>2. CASE pc'[g] = "uncount" /\ Stacked' = Stacked \cup {loc[g].n}
  <2>1. \A k \in Goroutines : k # g /\ pc[k] \in Pushing => loc[k].n \notin Stacked'
    BY <1>0, <1>2 DEF CallInv, CallAt, Pushing
  <2> QED
    BY <1>0, <1>2, <2>1, CallKept DEF Pushing, Carrying
<1> QED
  BY <1>1, <1>2, PushNodeEffect

Core == TypeOK /\ CallInv /\ RankInv /\ MadeInv

LEMMA CallStill ==
  ASSUME CallInv, Stacked' = Stacked, UNCHANGED <<val, next, pc, loc, total>> PROVE CallInv'
  BY DEF CallInv, CallAt

LEMMA CallStep == ASSUME Core, NEW g \in Goroutines, Step(g) PROVE CallInv'
<1>0. TypeOK /\ CallInv /\ RankInv /\ MadeInv
  BY DEF Core
<1>1. ASSUME Same(g), total <= total', pc'[g] \notin Pushing,
         pc'[g] \in Carrying => loc'[g].obj \in 1..total',
         pc'[g] = "pop" => /\ loc'[g].h \in Stacked /\ loc'[g].h \in Node
                           /\ loc'[g].nxt = next[loc'[g].h],
         pc'[g] = "raise" => loc'[g].old < loc'[g].in
      PROVE  CallInv'
  <2>1. \A k \in Goroutines : k # g /\ pc[k] \in Pushing => loc[k].n \notin Stacked'
    BY <1>0, <1>1 DEF CallInv, CallAt, Same
  <2>2. total' \in Nat
    BY <1>1, Numbers DEF Same, TypeOK
  <2> QED
    BY <1>0, <1>1, <2>1, <2>2, CallKept DEF Same
<1>2. total \in Nat
  BY <1>0, Numbers DEF TypeOK
<1>3. pc[g] \in Carrying => loc[g].obj \in 1..total
  BY <1>0 DEF CallInv, CallAt
<1>4. ASSUME Alloc(g) PROVE CallInv'
  <2>1. head \in Node => head \in Stacked
    BY <1>0, StackedNodes, NilIsNoNode
  <2> QED
    BY <1>0, <1>1, <1>2, <1>4, <2>1, AllocEffect DEF Pushing, Carrying
<1>5. ASSUME AllocSync(g) PROVE CallInv'
  <2>1. /\ Same(g) /\ total' = total
        /\ \/ pc'[g] = "new"
           \/ loc'[g].obj \in 1..total /\ pc'[g] \in {"mark", "count"}
    BY <1>0, <1>5, AllocSyncEffect
  <2> QED
    BY <1>1, <1>2, <2>1 DEF Pushing, Carrying
<1>6. ASSUME PopNode(g) PROVE CallInv'
  <2>1. /\ TypeOK' /\ Elsewhere(g) /\ UNCHANGED <<val, next, total>> /\ Stacked' \subseteq Stacked
        /\ \/ pc'[g] = "retry"
           \/ loc'[g].obj \in 1..total /\ pc'[g] \in {"mark", "count"}
    BY <1>0, <1>6, PopNodeEffect DEF MadeInv
  <2>2. \A k \in Goroutines : k # g /\ pc[k] \in Pushing => loc[k].n \notin Stacked'
    BY <1>0, <2>1 DEF CallInv, CallAt
  <2> QED
    BY <1>0, <1>2, <2>1, <2>2, CallKept DEF Pushing, Carrying
<1>7. ASSUME NewObject(g) PROVE CallInv'
  <2>1. Same(g) /\ total' = total + 1 /\ loc'[g].obj \in 1..total' /\ pc'[g] \in {"mark", "count"}
    BY <1>0, <1>2, <1>7, NewObjectEffect
  <2> QED
    BY <1>1, <1>2, <2>1 DEF Pushing, Carrying
<1>8. ASSUME DebugMarkAlloc(g) PROVE CallInv'
  BY <1>0, <1>1, <1>2, <1>3, <1>8, DebugMarkAllocEffect DEF Pushing, Carrying
<1>9. ASSUME CountAlloc(g) PROVE CallInv'
  BY <1>0, <1>1, <1>2, <1>3, <1>9, CountAllocEffect DEF Pushing, Carrying
<1>10. ASSUME LoadPeak(g) \/ RaisePeak(g) PROVE CallInv'
  <2>1. pc[g] \in Carrying /\ Same(g) /\ total' = total
        /\ \/ pc'[g] = "idle"
           \/ /\ pc'[g] \in {"peak", "raise"} /\ (pc'[g] = "raise" => loc'[g].old < loc'[g].in)
              /\ loc'[g].obj = loc[g].obj
    BY <1>0, <1>10, PeakEffect DEF Carrying
  <2>2. pc'[g] \in Carrying => loc'[g].obj \in 1..total'
    BY <1>3, <2>1 DEF Carrying
  <2>3. pc'[g] \notin Pushing /\ pc'[g] # "pop" /\ (pc'[g] = "raise" => loc'[g].old < loc'[g].in)
    BY <2>1 DEF Pushing
  <2> QED
    BY <1>1, <1>2, <2>1, <2>2, <2>3
<1>11. ASSUME NEW o \in Object, Use(g, o) PROVE CallInv'
  BY <1>0, <1>11, UseEffect, CallStill
<1>12. ASSUME NEW o \in Object, Free(g, o) PROVE CallInv'
  <2>1. Same(g) /\ total' = total /\ loc'[g].obj \in 1..total /\ pc'[g] \in {"check", "put"}
    BY <1>0, <1>12, FreeEffect
  <2> QED
    BY <1>1, <1>2, <2>1 DEF Pushing, Carrying
<1>13. ASSUME DebugMarkFree(g) PROVE CallInv'
  <2>1. /\ Same(g) /\ total' = total /\ pc[g] \in Carrying /\ loc'[g] = loc[g]
        /\ pc'[g] \in {"put", "panic"}
    BY <1>0, <1>13, DebugMarkFreeEffect DEF Carrying
  <2> QED
    BY <1>1, <1>2, <1>3, <2>1 DEF Pushing, Carrying
<1>14. ASSUME PutSync(g) PROVE CallInv'
  BY <1>0, <1>1, <1>2, <1>14, PutSyncEffect DEF Pushing, Carrying
<1>15. ASSUME CountFree(g) PROVE CallInv'
  BY <1>0, <1>1, <1>2, <1>15, CountFreeEffect DEF Pushing, Carrying
<1> QED
  BY <1>0, <1>4, <1>5, <1>6, <1>7, <1>8, <1>9, <1>10, <1>11, <1>12, <1>13, <1>14, <1>15,
     CallNewNode, CallLoadHead, CallPushNode DEF Step

----------------------------------------------------------------------------
(* The stack and what was made *)

LEMMA RankSame ==
  ASSUME RankInv, Stacked' = Stacked, \A n \in Stacked : next'[n] = next[n] PROVE RankInv'
  BY DEF RankInv, Ranked

LEMMA RankStep == ASSUME Core, NEW g \in Goroutines, Step(g) PROVE RankInv'
<1>0. TypeOK /\ CallInv /\ RankInv /\ MadeInv
  BY DEF Core
<1>1. ASSUME Stacked' = Stacked, next' = next PROVE RankInv'
  BY <1>0, <1>1, RankSame
<1>2. ASSUME PopNode(g) PROVE RankInv'
  <2>1. Stacked' \subseteq Stacked /\ next' = next
    BY <1>0, <1>2, PopNodeEffect
  <2> QED
    BY <1>0, <2>1 DEF RankInv, Ranked
<1>3. ASSUME NewNode(g) PROVE RankInv'
  <2>1. PICK n \in Node : n \notin Stacked /\ next' = [next EXCEPT ![n] = Nil] /\ Stacked' = Stacked
    BY <1>0, <1>3, NewNodeEffect
  <2>2. \A m \in Stacked : next'[m] = next[m]
    BY <1>0, <2>1, StackedNodes DEF TypeOK
  <2> QED
    BY <1>0, <2>1, <2>2, RankSame
<1>4. ASSUME LoadHead(g) PROVE RankInv'
  <2>1. next' = [next EXCEPT ![loc[g].n] = head] /\ Stacked' = Stacked /\ pc[g] = "load"
    BY <1>0, <1>4, LoadHeadEffect
  <2>2. loc[g].n \notin Stacked
    BY <1>0, <2>1 DEF CallInv, CallAt, Pushing
  <2>3. \A m \in Stacked : next'[m] = next[m]
    BY <1>0, <2>1, <2>2, StackedNodes DEF TypeOK
  <2> QED
    BY <1>0, <2>1, <2>3, RankSame
<1>5. ASSUME PushNode(g) PROVE RankInv'
  <2>1. CASE next' = next /\ Stacked' = Stacked
    BY <1>1, <2>1
  <2>2. CASE next' = next /\ head = next[loc[g].n] /\ Stacked' = Stacked \cup {loc[g].n} /\ pc[g] = "push"
    <3> SUFFICES ASSUME NEW n, n = loc[g].n PROVE RankInv'
      OBVIOUS
    <3>1. n \in Node /\ n \notin Stacked /\ Stacked \subseteq Node
      BY <1>0, <2>2, StackedNodes DEF CallInv, CallAt, Pushing
    <3>2. PICK r \in [Node -> Nat] : Ranked(r, Stacked)
      BY <1>0 DEF RankInv
    <3>3. Within(next, Stacked, head)
      <4>1. next \in Links /\ head \in Node \cup {Nil}
        BY <1>0 DEF TypeOK, Links
      <4> QED
        BY <4>1, StackedReach, ReachWithin
    <3>4. PICK q \in [Node -> Nat] : /\ \A m \in Node : m # n => q[m] = r[m]
                                     /\ next[n] \in Node => q[n] = r[next[n]] + 1
      <4>1. CASE next[n] \in Node
        <5>1. PICK v \in Nat : v = r[next[n]] + 1
          BY <3>2, <4>1
        <5>2. [r EXCEPT ![n] = v] \in [Node -> Nat]
          BY <3>2
        <5> QED
          BY <3>1, <3>2, <5>1, <5>2
      <4>2. CASE next[n] \notin Node
        BY <3>2, <4>2
      <4> QED
        BY <4>1, <4>2
    <3>5. ASSUME NEW m \in Stacked', next[m] \in Node PROVE q[next[m]] < q[m]
      <4>1. CASE m = n
        <5>1. next[n] \in Stacked /\ next[n] # n
          BY <2>2, <3>1, <3>3, <3>5, <4>1, NilIsNoNode DEF Within
        <5>2. q[next[n]] = r[next[n]] /\ q[n] = r[next[n]] + 1 /\ r[next[n]] \in Nat
          BY <3>1, <3>2, <3>4, <3>5, <4>1, <5>1
        <5> QED
          BY <4>1, <5>2
      <4>2. CASE m # n
        <5>1. m \in Stacked /\ m \in Node
          BY <2>2, <3>1, <3>5, <4>2
        <5>2. next[m] \in Stacked
          BY <3>3, <3>5, <5>1, NilIsNoNode DEF Within
        <5>3. r[next[m]] < r[m]
          BY <3>2, <3>5, <5>1 DEF Ranked
        <5> QED
          BY <3>1, <3>4, <3>5, <4>2, <5>1, <5>2, <5>3
      <4> QED
        BY <4>1, <4>2
    <3> QED
      BY <2>2, <3>4, <3>5 DEF RankInv, Ranked
  <2> QED
    BY <1>0, <1>5, <2>1, <2>2, PushNodeEffect
<1>6. ASSUME Step(g), ~PopNode(g), ~NewNode(g), ~LoadHead(g), ~PushNode(g)
      PROVE  UNCHANGED <<head, next>>
  BY <1>6 DEF Step, Alloc, AllocSync, NewObject, DebugMarkAlloc, CountAlloc, LoadPeak, RaisePeak,
     Use, Free, DebugMarkFree, PutSync, CountFree, stack
<1> QED
  BY <1>0, <1>2, <1>3, <1>4, <1>5, <1>6, RankSame, StackSame

LEMMA MadeSame ==
  ASSUME MadeInv, total \in Nat, total' \in Nat, total <= total',
         tracker' \subseteq 1..total',
         \A o \in Object : cached'[o] > 0 => cached[o] > 0 \/ o <= total',
         Stacked' \subseteq Stacked, \A n \in Stacked : val'[n] = val[n]
  PROVE  MadeInv'
<1>1. \A o \in Object : cached'[o] > 0 => o <= total'
  BY Numbers DEF MadeInv, Object
<1>2. \A n \in Stacked' : val'[n] \in 1..total'
  BY DEF MadeInv
<1> QED
  BY <1>1, <1>2 DEF MadeInv

LEMMA MadeStep == ASSUME Core, NEW g \in Goroutines, Step(g) PROVE MadeInv'
<1>0. TypeOK /\ CallInv /\ RankInv /\ MadeInv
  BY DEF Core
<1>1. total \in Nat /\ tracker \subseteq 1..total /\ Stacked \subseteq Node
  BY <1>0, Numbers, StackedNodes DEF TypeOK, MadeInv
<1>2. pc[g] \in Carrying => loc[g].obj \in 1..total
  BY <1>0 DEF CallInv, CallAt
<1>3. ASSUME Stacked' = Stacked, UNCHANGED <<val, cached, tracker, total>> PROVE MadeInv'
  BY <1>0, <1>3 DEF MadeInv
<1>4. ASSUME Alloc(g) \/ CountAlloc(g) \/ LoadPeak(g) \/ RaisePeak(g) \/ CountFree(g) PROVE MadeInv'
  BY <1>0, <1>3, <1>4, AllocEffect, CountAllocEffect, PeakEffect, CountFreeEffect DEF Same
<1>5. ASSUME AllocSync(g) PROVE MadeInv'
  <2>1. /\ Stacked' = Stacked /\ UNCHANGED <<val, tracker, total>>
        /\ \/ cached' = cached
           \/ \E p \in Object : cached[p] > 0 /\ cached' = [cached EXCEPT ![p] = @ - 1]
    BY <1>0, <1>5, AllocSyncEffect DEF Same
  <2>2. \A o \in Object : cached'[o] > 0 => cached[o] > 0
    BY <1>0, <2>1 DEF TypeOK
  <2> QED
    BY <1>0, <1>1, <2>1, <2>2, MadeSame
<1>6. ASSUME PopNode(g) PROVE MadeInv'
  <2>1. Stacked' \subseteq Stacked /\ UNCHANGED <<val, cached, tracker, total>>
    BY <1>0, <1>6, PopNodeEffect
  <2> QED
    BY <1>0, <1>1, <2>1, MadeSame
<1>7. ASSUME NewObject(g) PROVE MadeInv'
  <2>1. Stacked' = Stacked /\ UNCHANGED <<val, cached, tracker>> /\ total' = total + 1
    BY <1>0, <1>7, NewObjectEffect DEF Same
  <2>2. tracker' \subseteq 1..total' /\ total' \in Nat /\ total <= total'
    BY <1>1, <2>1
  <2> QED
    BY <1>0, <1>1, <2>1, <2>2, MadeSame
<1>8. ASSUME DebugMarkAlloc(g) PROVE MadeInv'
  <2>1. /\ Stacked' = Stacked /\ UNCHANGED <<val, cached, total>>
        /\ tracker' = tracker \cup {loc[g].obj} /\ pc[g] \in Carrying
    BY <1>0, <1>8, DebugMarkAllocEffect DEF Same, Carrying
  <2>2. tracker' \subseteq 1..total'
    BY <1>1, <1>2, <2>1
  <2>3. total' \in Nat /\ total <= total'
    BY <1>1, <2>1
  <2> QED
    BY <1>0, <1>1, <2>1, <2>2, <2>3, MadeSame
<1>9. ASSUME NEW o \in Object, Use(g, o) \/ Free(g, o) PROVE MadeInv'
  BY <1>0, <1>3, <1>9, UseEffect, FreeEffect DEF Same
<1>10. ASSUME DebugMarkFree(g) PROVE MadeInv'
  <2>1. /\ Stacked' = Stacked /\ UNCHANGED <<val, cached, total>> /\ tracker' \subseteq tracker
    BY <1>0, <1>10, DebugMarkFreeEffect DEF Same
  <2> QED
    BY <1>0, <1>1, <2>1, MadeSame
<1>11. ASSUME PutSync(g) PROVE MadeInv'
  <2>1. /\ Stacked' = Stacked /\ UNCHANGED <<val, total, tracker>> /\ pc[g] \in Carrying
        /\ cached' = [cached EXCEPT ![loc[g].obj] = @ + 1]
    BY <1>0, <1>11, PutSyncEffect DEF Same, Carrying
  <2>2. loc[g].obj <= total
    BY <1>1, <1>2, <2>1
  <2>3. \A o \in Object : cached'[o] > 0 => cached[o] > 0 \/ o <= total
    BY <1>0, <2>1, <2>2 DEF TypeOK
  <2> QED
    BY <1>0, <1>1, <2>1, <2>3, MadeSame
<1>12. ASSUME NewNode(g) PROVE MadeInv'
  <2>1. /\ Stacked' = Stacked /\ UNCHANGED <<cached, total, tracker>>
        /\ \E n \in Node : n \notin Stacked /\ val' = [val EXCEPT ![n] = loc[g].obj]
    BY <1>0, <1>12, NewNodeEffect
  <2>2. \A n \in Stacked : val'[n] = val[n]
    BY <1>0, <1>1, <2>1 DEF TypeOK
  <2> QED
    BY <1>0, <1>1, <2>1, <2>2, MadeSame
<1>13. ASSUME LoadHead(g) PROVE MadeInv'
  BY <1>0, <1>3, <1>13, LoadHeadEffect
<1>14. ASSUME PushNode(g) PROVE MadeInv'
  <2>1. CASE Stacked' = Stacked /\ UNCHANGED <<val, cached, tracker, total>>
    BY <1>3, <2>1
  <2>2. CASE Stacked' = Stacked \cup {loc[g].n} /\ UNCHANGED <<val, cached, tracker, total>> /\ pc[g] = "push"
    <3>1. val[loc[g].n] \in 1..total
      BY <1>0, <2>2 DEF CallInv, CallAt, Pushing, Carrying
    <3> QED
      BY <1>0, <2>2, <3>1 DEF MadeInv
  <2> QED
    BY <1>0, <1>14, <2>1, <2>2, PushNodeEffect
<1> QED
  BY <1>4, <1>5, <1>6, <1>7, <1>8, <1>9, <1>10, <1>11, <1>12, <1>13, <1>14 DEF Step

LEMMA TypeStep == ASSUME Core, NEW g \in Goroutines, Step(g) PROVE TypeOK'
<1>0. TypeOK /\ CallInv /\ RankInv /\ MadeInv
  BY DEF Core
<1>1. ASSUME Alloc(g) \/ AllocSync(g) \/ PopNode(g) \/ NewObject(g) \/ DebugMarkAlloc(g) \/ CountAlloc(g)
      PROVE  TypeOK'
  BY <1>0, <1>1, AllocEffect, AllocSyncEffect, PopNodeEffect, NewObjectEffect, DebugMarkAllocEffect,
     CountAllocEffect DEF Same
<1>2. ASSUME LoadPeak(g) \/ RaisePeak(g) \/ DebugMarkFree(g) \/ PutSync(g) \/ NewNode(g)
             \/ LoadHead(g) \/ PushNode(g) \/ CountFree(g)
      PROVE  TypeOK'
  BY <1>0, <1>2, PeakEffect, DebugMarkFreeEffect, PutSyncEffect, NewNodeEffect, LoadHeadEffect,
     PushNodeEffect, CountFreeEffect DEF Same
<1>3. ASSUME NEW o \in Object, Use(g, o) \/ Free(g, o) PROVE TypeOK'
  BY <1>0, <1>3, UseEffect, FreeEffect DEF Same
<1> QED
  BY <1>1, <1>2, <1>3 DEF Step

LEMMA CoreStep == ASSUME Core, NEW g \in Goroutines, Step(g) PROVE Core'
  BY TypeStep, CallStep, RankStep, MadeStep DEF Core

----------------------------------------------------------------------------
(* Where an object is *)

LEMMA CarriersNext ==
  ASSUME NEW g \in Goroutines, Elsewhere(g), NEW o, NEW L
  PROVE  /\ \A k \in Goroutines : k # g => (k \in Carriers(o, L)' <=> k \in Carriers(o, L))
         /\ g \in Carriers(o, L)' <=> pc'[g] \in L /\ loc'[g].obj = o
         /\ g \in Carriers(o, L) <=> pc[g] \in L /\ loc[g].obj = o
         /\ Carriers(o, L)' \subseteq Goroutines /\ Carriers(o, L) \subseteq Goroutines
  BY DEF Carriers, Elsewhere

(***************************************************************************)
(* A step that puts the object nowhere it was not before.                  *)
(***************************************************************************)
LEMMA PlaceKept ==
  ASSUME TypeOK, TypeOK', NEW g \in Goroutines, Elsewhere(g), NEW L, NEW A, NEW B, NEW o \in Object,
         OnePlace(A, Carriers(o, L), cached[o], NodesOf(o)),
         B \subseteq A, cached'[o] <= cached[o], NodesOf(o)' \subseteq NodesOf(o),
         pc'[g] \in L /\ loc'[g].obj = o => pc[g] \in L /\ loc[g].obj = o
  PROVE  OnePlace(B, Carriers(o, L)', cached'[o], NodesOf(o)')
<1>1. cached[o] \in Nat /\ cached'[o] \in Nat
  BY DEF TypeOK
<1>2. Carriers(o, L)' \subseteq Carriers(o, L)
  BY CarriersNext
<1> QED
  BY <1>1, <1>2 DEF OnePlace

(***************************************************************************)
(* A step of g that takes the object from where it was, which leaves it    *)
(* there nowhere, and keeps it.                                            *)
(***************************************************************************)
LEMMA PlaceTaken ==
  ASSUME NEW g \in Goroutines, Elsewhere(g), NEW L, NEW o, NEW k, NEW S,
         pc[g] \notin L, Carriers(o, L) = {}, k = 0, S = {}
  PROVE  OnePlace({}, Carriers(o, L)', k, S)
<1>1. Carriers(o, L)' \subseteq {g}
  BY CarriersNext
<1> QED
  BY <1>1 DEF OnePlace

(***************************************************************************)
(* g has the object and lets go of it.                                     *)
(***************************************************************************)
LEMMA PlaceGiven ==
  ASSUME NEW g \in Goroutines, Elsewhere(g), NEW L, NEW A, NEW o, pc[g] \in L, loc[g].obj = o,
         pc'[g] \notin L, OnePlace(A, Carriers(o, L), cached[o], NodesOf(o))
  PROVE  A = {} /\ Carriers(o, L)' = {} /\ cached[o] = 0 /\ NodesOf(o) = {}
<1>1. g \in Carriers(o, L) /\ g \notin Carriers(o, L)'
  BY CarriersNext
<1>2. Carriers(o, L) \subseteq {g}
  BY <1>1 DEF OnePlace
<1>3. Carriers(o, L)' = {}
  BY <1>1, <1>2, CarriersNext
<1> QED
  BY <1>1, <1>3 DEF OnePlace

LEMMA NodesKept ==
  ASSUME Stacked' = Stacked, \A n \in Stacked : val'[n] = val[n]
  PROVE  \A o : NodesOf(o)' = NodesOf(o)
  BY DEF NodesOf

LEMMA PlacePopNode ==
  ASSUME Core, NEW g \in Goroutines, PopNode(g), NEW L \in {Carrying, Unlisted}, NEW A, NEW o \in Object,
         OnePlace(A, Carriers(o, L), cached[o], NodesOf(o))
  PROVE  OnePlace(A, Carriers(o, L)', cached'[o], NodesOf(o)')
<1>0. TypeOK /\ CallInv /\ RankInv /\ MadeInv
  BY DEF Core
<1>1. /\ TypeOK' /\ Elsewhere(g) /\ pc[g] = "pop" /\ UNCHANGED <<val, cached>>
      /\ \/ pc'[g] = "retry" /\ Stacked' = Stacked
         \/ /\ loc[g].h \in Stacked /\ Stacked' = Stacked \ {loc[g].h}
            /\ loc'[g].obj = val[loc[g].h]
  BY <1>0, PopNodeEffect
<1>2. pc[g] \notin L /\ "retry" \notin L
  BY <1>1 DEF Carrying, Unlisted
<1>3. NodesOf(o)' \subseteq NodesOf(o) /\ cached[o] \in Nat
  BY <1>0, <1>1 DEF NodesOf, TypeOK
<1>4. CASE pc'[g] \in L /\ loc'[g].obj = o
  <2>1. loc[g].h \in NodesOf(o) /\ loc[g].h \notin NodesOf(o)'
    BY <1>1, <1>2, <1>4 DEF NodesOf
  <2>2. A = {} /\ Carriers(o, L) = {} /\ cached'[o] = 0 /\ NodesOf(o)' = {}
    BY <1>1, <1>3, <2>1 DEF OnePlace
  <2> QED
    BY <1>1, <1>2, <2>2, PlaceTaken
<1>5. CASE ~(pc'[g] \in L /\ loc'[g].obj = o)
  BY <1>0, <1>1, <1>3, <1>5, PlaceKept
<1> QED
  BY <1>4, <1>5

LEMMA PlaceAllocSync ==
  ASSUME Core, NEW g \in Goroutines, AllocSync(g), NEW L \in {Carrying, Unlisted}, NEW A, NEW o \in Object,
         OnePlace(A, Carriers(o, L), cached[o], NodesOf(o))
  PROVE  OnePlace(A, Carriers(o, L)', cached'[o], NodesOf(o)')
<1>0. TypeOK /\ CallInv /\ RankInv /\ MadeInv
  BY DEF Core
<1>1. /\ TypeOK' /\ Elsewhere(g) /\ pc[g] = "idle" /\ Stacked' = Stacked /\ val' = val
      /\ \/ pc'[g] = "new" /\ cached' = cached
         \/ \E p \in Object : cached[p] > 0 /\ cached' = [cached EXCEPT ![p] = @ - 1] /\ loc'[g].obj = p
  BY <1>0, AllocSyncEffect DEF Same
<1>2. pc[g] \notin L /\ "new" \notin L
  BY <1>1 DEF Carrying, Unlisted
<1>3. NodesOf(o)' = NodesOf(o) /\ cached[o] \in Nat /\ cached \in [Object -> Nat]
  BY <1>0, <1>1, NodesKept DEF TypeOK
<1>4. CASE pc'[g] \in L /\ loc'[g].obj = o
  <2>1. cached[o] > 0 /\ cached'[o] = cached[o] - 1
    BY <1>1, <1>2, <1>3, <1>4
  <2>2. A = {} /\ Carriers(o, L) = {} /\ cached'[o] = 0 /\ NodesOf(o)' = {}
    BY <1>3, <2>1 DEF OnePlace
  <2> QED
    BY <1>1, <1>2, <2>2, PlaceTaken
<1>5. CASE ~(pc'[g] \in L /\ loc'[g].obj = o)
  <2>1. cached'[o] <= cached[o]
    BY <1>1, <1>3
  <2> QED
    BY <1>0, <1>1, <1>3, <1>5, <2>1, PlaceKept
<1> QED
  BY <1>4, <1>5

LEMMA PlaceNewObject ==
  ASSUME Core, NEW g \in Goroutines, NewObject(g), NEW L \in {Carrying, Unlisted}, NEW A, NEW o \in Object,
         o > total => A = {},
         OnePlace(A, Carriers(o, L), cached[o], NodesOf(o))
  PROVE  OnePlace(A, Carriers(o, L)', cached'[o], NodesOf(o)')
<1>0. TypeOK /\ CallInv /\ RankInv /\ MadeInv /\ total \in Nat
  BY Numbers DEF Core, TypeOK
<1>1. /\ TypeOK' /\ Elsewhere(g) /\ pc[g] = "new" /\ Stacked' = Stacked /\ UNCHANGED <<val, cached>>
      /\ total' = total + 1 /\ loc'[g].obj = total'
  BY <1>0, NewObjectEffect DEF Same
<1>2. pc[g] \notin L
  BY <1>1 DEF Carrying, Unlisted
<1>3. NodesOf(o)' = NodesOf(o) /\ cached[o] \in Nat
  BY <1>0, <1>1, NodesKept DEF TypeOK
<1>4. CASE pc'[g] \in L /\ loc'[g].obj = o
  <2>1. o = total + 1 /\ o \notin 1..total /\ o > total
    BY <1>0, <1>1, <1>4
  <2>2. Carriers(o, L) = {}
    BY <1>0, <2>1 DEF Carriers, CallInv, CallAt, Carrying, Unlisted
  <2>3. cached'[o] = 0 /\ NodesOf(o)' = {}
    BY <1>0, <1>1, <1>3, <2>1 DEF MadeInv, NodesOf
  <2> QED
    BY <1>1, <1>2, <2>1, <2>2, <2>3, PlaceTaken
<1>5. CASE ~(pc'[g] \in L /\ loc'[g].obj = o)
  <2>1. NodesOf(o)' \subseteq NodesOf(o) /\ cached'[o] <= cached[o] /\ A \subseteq A
    BY <1>1, <1>3
  <2>2. TypeOK /\ TypeOK' /\ Elsewhere(g)
    BY <1>0, <1>1
  <2> QED
    BY <1>5, <2>1, <2>2, PlaceKept
<1> QED
  BY <1>4, <1>5

LEMMA PlacePutSync ==
  ASSUME Core, NEW g \in Goroutines, PutSync(g), NEW L \in {Carrying, Unlisted}, NEW A, NEW o \in Object,
         OnePlace(A, Carriers(o, L), cached[o], NodesOf(o))
  PROVE  OnePlace(A, Carriers(o, L)', cached'[o], NodesOf(o)')
<1>0. TypeOK /\ CallInv /\ RankInv /\ MadeInv
  BY DEF Core
<1>1. /\ TypeOK' /\ Elsewhere(g) /\ pc[g] = "put" /\ pc'[g] = "uncount" /\ Stacked' = Stacked /\ val' = val
      /\ loc[g].obj \in Object /\ cached' = [cached EXCEPT ![loc[g].obj] = @ + 1]
  BY <1>0, PutSyncEffect DEF Same
<1>2. pc[g] \in L /\ pc'[g] \notin L
  BY <1>1 DEF Carrying, Unlisted
<1>3. NodesOf(o)' = NodesOf(o) /\ cached[o] \in Nat /\ cached \in [Object -> Nat]
  BY <1>0, <1>1, NodesKept DEF TypeOK
<1>4. CASE loc[g].obj = o
  <2>1. A = {} /\ Carriers(o, L)' = {} /\ cached[o] = 0 /\ NodesOf(o) = {}
    BY <1>1, <1>2, <1>4, PlaceGiven
  <2>2. cached'[o] = 1
    BY <1>1, <1>3, <1>4, <2>1
  <2> QED
    BY <1>3, <2>1, <2>2 DEF OnePlace
<1>5. CASE loc[g].obj # o
  <2>1. cached'[o] <= cached[o]
    BY <1>1, <1>3, <1>5
  <2> QED
    BY <1>0, <1>1, <1>2, <1>3, <2>1, PlaceKept
<1> QED
  BY <1>4, <1>5

LEMMA PlacePushNode ==
  ASSUME Core, NEW g \in Goroutines, PushNode(g), NEW L \in {Carrying, Unlisted}, NEW A, NEW o \in Object,
         OnePlace(A, Carriers(o, L), cached[o], NodesOf(o))
  PROVE  OnePlace(A, Carriers(o, L)', cached'[o], NodesOf(o)')
<1>0. TypeOK /\ CallInv /\ RankInv /\ MadeInv
  BY DEF Core
<1>1. /\ TypeOK' /\ Elsewhere(g) /\ pc[g] = "push" /\ UNCHANGED <<val, cached>>
      /\ \/ pc'[g] = "load" /\ loc'[g] = loc[g] /\ Stacked' = Stacked
         \/ pc'[g] = "uncount" /\ Stacked' = Stacked \cup {loc[g].n}
  BY <1>0, PushNodeEffect
<1>2. pc[g] \in L /\ "uncount" \notin L
  BY <1>1 DEF Carrying, Unlisted
<1>3. val[loc[g].n] = loc[g].obj /\ cached[o] \in Nat
  BY <1>0, <1>1 DEF CallInv, CallAt, Pushing, TypeOK
<1>4. CASE pc'[g] = "load" /\ loc'[g] = loc[g] /\ Stacked' = Stacked
  <2>1. NodesOf(o)' = NodesOf(o)
    BY <1>1, <1>4, NodesKept
  <2> QED
    BY <1>0, <1>1, <1>2, <1>3, <1>4, <2>1, PlaceKept
<1>5. CASE pc'[g] = "uncount" /\ Stacked' = Stacked \cup {loc[g].n}
  <2>1. CASE loc[g].obj = o
    <3>1. A = {} /\ Carriers(o, L)' = {} /\ cached[o] = 0 /\ NodesOf(o) = {}
      BY <1>1, <1>2, <1>5, <2>1, PlaceGiven
    <3>2. NodesOf(o)' \subseteq {loc[g].n}
      BY <1>1, <1>5, <3>1 DEF NodesOf
    <3> QED
      BY <1>1, <3>1, <3>2 DEF OnePlace
  <2>2. CASE loc[g].obj # o
    <3>1. NodesOf(o)' \subseteq NodesOf(o)
      BY <1>1, <1>3, <1>5, <2>2 DEF NodesOf
    <3>2. /\ TypeOK /\ TypeOK' /\ Elsewhere(g) /\ A \subseteq A /\ cached'[o] <= cached[o]
          /\ ~(pc'[g] \in L /\ loc'[g].obj = o)
      BY <1>0, <1>1, <1>2, <1>3, <1>5
    <3> QED
      BY <3>1, <3>2, PlaceKept
  <2> QED
    BY <2>1, <2>2
<1> QED
  BY <1>1, <1>4, <1>5

(***************************************************************************)
(* Writing the fields of a node that is not on the stack.                  *)
(***************************************************************************)
LEMMA PlaceOwnNode ==
  ASSUME Core, NEW g \in Goroutines, NewNode(g) \/ LoadHead(g), NEW L \in {Carrying, Unlisted},
         NEW A, NEW o \in Object, OnePlace(A, Carriers(o, L), cached[o], NodesOf(o))
  PROVE  OnePlace(A, Carriers(o, L)', cached'[o], NodesOf(o)')
<1>0. TypeOK /\ CallInv /\ RankInv /\ MadeInv /\ Stacked \subseteq Node
  BY StackedNodes DEF Core
<1>1. /\ TypeOK' /\ Elsewhere(g) /\ pc[g] \in {"put", "load"} /\ Stacked' = Stacked /\ cached' = cached
      /\ loc'[g].obj = loc[g].obj
  BY <1>0, NewNodeEffect, LoadHeadEffect
<1>2. pc[g] \in L
  BY <1>1 DEF Carrying, Unlisted
<1>3. \A n \in Stacked : val'[n] = val[n]
  BY <1>0, NewNodeEffect, LoadHeadEffect DEF TypeOK
<1>4. NodesOf(o)' = NodesOf(o) /\ cached[o] \in Nat
  BY <1>0, <1>1, <1>3, NodesKept DEF TypeOK
<1> QED
  BY <1>0, <1>1, <1>2, <1>4, PlaceKept

LEMMA HoldersKept == UNCHANGED hold => \A o : Holders(o)' = Holders(o)
  BY DEF Holders

LEMMA OrderlyBefore ==
  ASSUME Core, NEW g \in Goroutines, Step(g), Orderly' PROVE Orderly
<1>0. TypeOK
  BY DEF Core
<1>1. ASSUME NEW o \in Object, Free(g, o) PROVE Orderly
  BY <1>0, <1>1, FreeEffect
<1>2. ASSUME \A o \in Object : ~Free(g, o) PROVE wrong' = wrong
  BY <1>2 DEF Step, Alloc, AllocSync, PopNode, NewObject, DebugMarkAlloc, CountAlloc, LoadPeak,
     RaisePeak, Use, DebugMarkFree, PutSync, NewNode, LoadHead, PushNode, CountFree
<1> QED
  BY <1>1, <1>2 DEF Orderly

LEMMA ClientStep ==
  ASSUME Core, ClientInv, NEW g \in Goroutines, Step(g) PROVE ClientInv'
<1> SUFFICES ASSUME Orderly', NEW o \in Object PROVE ClientPlace(o)'
  BY DEF ClientInv
<1>0. TypeOK /\ CallInv /\ RankInv /\ MadeInv /\ Orderly /\ ClientPlace(o)
  BY OrderlyBefore DEF Core, ClientInv
<1>1. OnePlace(Holders(o), Carriers(o, Carrying), cached[o], NodesOf(o)) /\ cached[o] \in Nat
  BY <1>0 DEF ClientPlace, TypeOK
<1>2. ASSUME hold' = hold, OnePlace(Holders(o), Carriers(o, Carrying)', cached'[o], NodesOf(o)')
      PROVE  ClientPlace(o)'
  BY <1>2, HoldersKept DEF ClientPlace
<1>3. ASSUME Same(g), UNCHANGED <<hold, cached>>,
             pc'[g] \in Carrying => pc[g] \in Carrying /\ loc'[g].obj = loc[g].obj
      PROVE  ClientPlace(o)'
  <2>1. NodesOf(o)' = NodesOf(o)
    BY <1>3, NodesKept DEF Same
  <2>2. OnePlace(Holders(o), Carriers(o, Carrying)', cached'[o], NodesOf(o)')
    BY <1>0, <1>1, <1>3, <2>1, PlaceKept DEF Same
  <2> QED
    BY <1>2, <1>3, <2>2
<1>4. ASSUME Alloc(g) \/ DebugMarkAlloc(g) \/ CountAlloc(g) \/ DebugMarkFree(g) \/ CountFree(g)
      PROVE  ClientPlace(o)'
  BY <1>0, <1>3, <1>4, AllocEffect, DebugMarkAllocEffect, CountAllocEffect, DebugMarkFreeEffect,
     CountFreeEffect DEF Carrying
<1>5. ASSUME AllocSync(g) PROVE ClientPlace(o)'
  BY <1>0, <1>1, <1>2, <1>5, AllocSyncEffect, PlaceAllocSync
<1>6. ASSUME PopNode(g) PROVE ClientPlace(o)'
  BY <1>0, <1>1, <1>2, <1>6, PopNodeEffect, PlacePopNode
<1>7. ASSUME NewObject(g) PROVE ClientPlace(o)'
  <2>1. o > total => Holders(o) = {}
    BY <1>0, Numbers DEF Holders, TypeOK, Object
  <2> QED
    BY <1>0, <1>1, <1>2, <1>7, <2>1, NewObjectEffect, PlaceNewObject
<1>8. ASSUME PutSync(g) PROVE ClientPlace(o)'
  BY <1>0, <1>1, <1>2, <1>8, PutSyncEffect, PlacePutSync
<1>9. ASSUME PushNode(g) PROVE ClientPlace(o)'
  BY <1>0, <1>1, <1>2, <1>9, PushNodeEffect, PlacePushNode
<1>10. ASSUME NewNode(g) \/ LoadHead(g) PROVE ClientPlace(o)'
  BY <1>0, <1>1, <1>2, <1>10, NewNodeEffect, LoadHeadEffect, PlaceOwnNode
<1>11. ASSUME NEW p \in Object, Use(g, p) PROVE ClientPlace(o)'
  <2>1. UNCHANGED <<pc, loc, hold, cached, val>> /\ Stacked' = Stacked
    BY <1>0, <1>11, UseEffect
  <2>2. NodesOf(o)' = NodesOf(o) /\ Carriers(o, Carrying)' = Carriers(o, Carrying)
    BY <2>1, NodesKept DEF Carriers
  <2> QED
    BY <1>1, <1>2, <2>1, <2>2
<1>12. ASSUME NEW p \in Object, Free(g, p) PROVE ClientPlace(o)'
  <2>1. /\ Same(g) /\ pc[g] = "idle" /\ cached' = cached /\ hold' = [hold EXCEPT ![g] = @ \ {p}]
        /\ p \in hold[g] /\ loc'[g].obj = p
    BY <1>0, <1>12, FreeEffect
  <2>2. pc[g] \notin Carrying /\ NodesOf(o)' = NodesOf(o)
    BY <2>1, NodesKept DEF Carrying, Same
  <2>3. hold'[g] = hold[g] \ {p} /\ \A k \in Goroutines : k # g => hold'[k] = hold[k]
    BY <1>0, <2>1 DEF TypeOK
  <2>4. Holders(o)' \subseteq Holders(o)
    BY <2>3 DEF Holders
  <2>5. CASE o = p
    <3>1. g \in Holders(o) /\ g \notin Holders(o)'
      BY <2>1, <2>3, <2>5 DEF Holders
    <3>2. Carriers(o, Carrying) = {} /\ cached'[o] = 0 /\ NodesOf(o)' = {} /\ Holders(o)' = {}
      BY <1>1, <2>1, <2>2, <2>4, <3>1 DEF OnePlace
    <3> QED
      BY <2>1, <2>2, <3>2, PlaceTaken DEF ClientPlace, Same
  <2>6. CASE o # p
    <3>1. OnePlace(Holders(o)', Carriers(o, Carrying)', cached'[o], NodesOf(o)')
      <4>1. /\ TypeOK /\ TypeOK' /\ Elsewhere(g) /\ cached'[o] <= cached[o]
            /\ NodesOf(o)' \subseteq NodesOf(o) /\ loc'[g].obj # o
        BY <1>0, <2>1, <2>2, <2>6 DEF Same, TypeOK
      <4> QED
        BY <1>1, <2>4, <4>1, PlaceKept
    <3> QED
      BY <3>1 DEF ClientPlace
  <2> QED
    BY <2>5, <2>6
<1>13. ASSUME LoadPeak(g) \/ RaisePeak(g) PROVE ClientPlace(o)'
  <2>0. Same(g) /\ pc[g] \in Carrying /\ cached' = cached
    BY <1>0, <1>13, PeakEffect DEF Carrying
  <2>1. CASE hold' = hold /\ loc'[g].obj = loc[g].obj
    BY <1>3, <2>0, <2>1
  <2>2. CASE hold' = [hold EXCEPT ![g] = @ \cup {loc[g].obj}] /\ pc'[g] = "idle"
    <3>1. pc'[g] \notin Carrying /\ NodesOf(o)' = NodesOf(o)
      BY <2>0, <2>2, NodesKept DEF Carrying, Same
    <3>2. hold'[g] = hold[g] \cup {loc[g].obj} /\ \A k \in Goroutines : k # g => hold'[k] = hold[k]
      BY <1>0, <2>2 DEF TypeOK
    <3>3. CASE loc[g].obj = o
      <4>1. Holders(o) = {} /\ Carriers(o, Carrying)' = {} /\ cached[o] = 0 /\ NodesOf(o) = {}
        BY <1>1, <2>0, <3>1, <3>3, PlaceGiven DEF Same
      <4>2. Holders(o)' \subseteq {g}
        BY <3>2, <4>1 DEF Holders
      <4> QED
        BY <2>0, <3>1, <4>1, <4>2 DEF ClientPlace, OnePlace
    <3>4. CASE loc[g].obj # o
      <4>1. Holders(o)' \subseteq Holders(o)
        BY <3>2, <3>4 DEF Holders
      <4>2. OnePlace(Holders(o)', Carriers(o, Carrying)', cached'[o], NodesOf(o)')
        BY <1>0, <1>1, <2>0, <3>1, <4>1, PlaceKept DEF Same
      <4> QED
        BY <4>2 DEF ClientPlace
    <3> QED
      BY <3>3, <3>4
  <2> QED
    BY <1>0, <1>13, <2>1, <2>2, PeakEffect
<1> QED
  BY <1>4, <1>5, <1>6, <1>7, <1>8, <1>9, <1>10, <1>11, <1>12, <1>13 DEF Step

(***************************************************************************)
(* With the debug tracker, whatever clients do.                            *)
(***************************************************************************)
LEMMA TrackerStep ==
  ASSUME Core, TrackerInv, NEW g \in Goroutines, Step(g) PROVE TrackerInv'
<1>0. TypeOK /\ CallInv /\ RankInv /\ MadeInv /\ opts' = opts
  BY DEF Core, Step, Alloc, AllocSync, PopNode, NewObject, DebugMarkAlloc, CountAlloc, LoadPeak,
     RaisePeak, Use, Free, DebugMarkFree, PutSync, NewNode, LoadHead, PushNode, CountFree
<1> SUFFICES ASSUME opts.debug, NEW o \in Object PROVE TrackerPlace(o)'
  BY <1>0 DEF TrackerInv
<1>1. OnePlace({o} \cap tracker, Carriers(o, Unlisted), cached[o], NodesOf(o)) /\ cached[o] \in Nat
  BY <1>0 DEF TrackerInv, TrackerPlace, TypeOK
<1>2. ASSUME tracker' = tracker, OnePlace({o} \cap tracker, Carriers(o, Unlisted)', cached'[o], NodesOf(o)')
      PROVE  TrackerPlace(o)'
  BY <1>2 DEF TrackerPlace
<1>3. ASSUME Same(g), UNCHANGED cached, tracker' \subseteq tracker, pc'[g] \notin Unlisted
      PROVE  TrackerPlace(o)'
  <2>1. NodesOf(o)' = NodesOf(o) /\ {o} \cap tracker' \subseteq {o} \cap tracker
    BY <1>3, NodesKept DEF Same
  <2>2. OnePlace({o} \cap tracker', Carriers(o, Unlisted)', cached'[o], NodesOf(o)')
    BY <1>0, <1>1, <1>3, <2>1, PlaceKept DEF Same
  <2> QED
    BY <2>2 DEF TrackerPlace
<1>4. ASSUME Alloc(g) \/ CountAlloc(g) \/ LoadPeak(g) \/ RaisePeak(g) \/ CountFree(g)
      PROVE  TrackerPlace(o)'
  BY <1>0, <1>3, <1>4, AllocEffect, CountAllocEffect, PeakEffect, CountFreeEffect DEF Unlisted
<1>5. ASSUME AllocSync(g) PROVE TrackerPlace(o)'
  BY <1>0, <1>1, <1>2, <1>5, AllocSyncEffect, PlaceAllocSync
<1>6. ASSUME PopNode(g) PROVE TrackerPlace(o)'
  BY <1>0, <1>1, <1>2, <1>6, PopNodeEffect, PlacePopNode
<1>7. ASSUME NewObject(g) PROVE TrackerPlace(o)'
  <2>1. o > total => {o} \cap tracker = {}
    BY <1>0, Numbers DEF MadeInv, TypeOK, Object
  <2> QED
    BY <1>0, <1>1, <1>2, <1>7, <2>1, NewObjectEffect, PlaceNewObject
<1>8. ASSUME PutSync(g) PROVE TrackerPlace(o)'
  BY <1>0, <1>1, <1>2, <1>8, PutSyncEffect, PlacePutSync
<1>9. ASSUME PushNode(g) PROVE TrackerPlace(o)'
  BY <1>0, <1>1, <1>2, <1>9, PushNodeEffect, PlacePushNode
<1>10. ASSUME NewNode(g) \/ LoadHead(g) PROVE TrackerPlace(o)'
  BY <1>0, <1>1, <1>2, <1>10, NewNodeEffect, LoadHeadEffect, PlaceOwnNode
<1>11. ASSUME NEW p \in Object, Use(g, p) PROVE TrackerPlace(o)'
  <2>1. UNCHANGED <<pc, loc, tracker, cached, val>> /\ Stacked' = Stacked
    BY <1>0, <1>11, UseEffect
  <2>2. NodesOf(o)' = NodesOf(o) /\ Carriers(o, Unlisted)' = Carriers(o, Unlisted)
    BY <2>1, NodesKept DEF Carriers
  <2> QED
    BY <1>1, <1>2, <2>1, <2>2
<1>12. ASSUME NEW p \in Object, Free(g, p) PROVE TrackerPlace(o)'
  BY <1>0, <1>3, <1>12, FreeEffect DEF Unlisted
<1>13. ASSUME DebugMarkAlloc(g) PROVE TrackerPlace(o)'
  <2>1. /\ Same(g) /\ cached' = cached /\ tracker' = tracker \cup {loc[g].obj}
        /\ pc[g] \in Unlisted /\ pc'[g] \notin Unlisted
    BY <1>0, <1>13, DebugMarkAllocEffect DEF Unlisted
  <2>2. NodesOf(o)' = NodesOf(o)
    BY <2>1, NodesKept DEF Same
  <2>3. CASE loc[g].obj = o
    <3>1. Carriers(o, Unlisted)' = {} /\ cached[o] = 0 /\ NodesOf(o) = {}
      BY <1>1, <2>1, <2>3, PlaceGiven DEF Same
    <3> QED
      BY <2>1, <2>2, <3>1 DEF TrackerPlace, OnePlace
  <2>4. CASE loc[g].obj # o
    <3>1. {o} \cap tracker' \subseteq {o} \cap tracker
      BY <2>1, <2>4
    <3>2. OnePlace({o} \cap tracker', Carriers(o, Unlisted)', cached'[o], NodesOf(o)')
      BY <1>0, <1>1, <2>1, <2>2, <3>1, PlaceKept DEF Same
    <3> QED
      BY <3>2 DEF TrackerPlace
  <2> QED
    BY <2>3, <2>4
<1>14. ASSUME DebugMarkFree(g) PROVE TrackerPlace(o)'
  <2>1. /\ Same(g) /\ cached' = cached /\ tracker' = tracker \ {loc[g].obj}
        /\ pc[g] \notin Unlisted /\ loc'[g] = loc[g]
        /\ pc'[g] = IF loc[g].obj \in tracker THEN "put" ELSE "panic"
    BY <1>0, <1>14, DebugMarkFreeEffect DEF Unlisted
  <2>2. CASE loc[g].obj = o /\ o \in tracker
    <3>1. NodesOf(o)' = NodesOf(o) /\ {o} \cap tracker' = {} /\ {o} \cap tracker # {}
      BY <2>1, <2>2, NodesKept DEF Same
    <3>2. Carriers(o, Unlisted) = {} /\ cached'[o] = 0 /\ NodesOf(o)' = {}
      BY <1>1, <2>1, <3>1 DEF OnePlace
    <3> QED
      BY <2>1, <3>1, <3>2, PlaceTaken DEF TrackerPlace, Same
  <2>3. CASE loc[g].obj # o
    <3>1. NodesOf(o)' = NodesOf(o) /\ {o} \cap tracker' \subseteq {o} \cap tracker
      BY <2>1, NodesKept DEF Same
    <3>2. OnePlace({o} \cap tracker', Carriers(o, Unlisted)', cached'[o], NodesOf(o)')
      BY <1>0, <1>1, <2>1, <2>3, <3>1, PlaceKept DEF Same
    <3> QED
      BY <3>2 DEF TrackerPlace
  <2>4. CASE loc[g].obj = o /\ o \notin tracker
    BY <1>3, <2>1, <2>4 DEF Unlisted
  <2> QED
    BY <2>2, <2>3, <2>4
<1> QED
  BY <1>4, <1>5, <1>6, <1>7, <1>8, <1>9, <1>10, <1>11, <1>12, <1>13, <1>14 DEF Step

(***************************************************************************)
(* The stack keeps what it was given.                                      *)
(***************************************************************************)
LEMMA KeptStep ==
  ASSUME Core, KeptInv, NEW g \in Goroutines, Step(g) PROVE KeptInv'
<1> DEFINE Somewhere(o) == Holders(o) # {} \/ Carriers(o, Carrying) # {} \/ NodesOf(o) # {}
<1>0. TypeOK /\ CallInv /\ RankInv /\ MadeInv /\ opts' = opts /\ total \in Nat
  BY Numbers DEF Core, Step, Alloc, AllocSync, PopNode, NewObject, DebugMarkAlloc, CountAlloc, LoadPeak,
     RaisePeak, Use, Free, DebugMarkFree, PutSync, NewNode, LoadHead, PushNode, CountFree, TypeOK
<1> SUFFICES ASSUME Orderly', ~opts.sync, NEW o \in 1..total' PROVE Somewhere(o)'
  BY <1>0 DEF KeptInv
<1>1. Orderly /\ (o \in 1..total => Somewhere(o))
  BY OrderlyBefore DEF KeptInv
<1>2. ASSUME Elsewhere(g), total' = total, hold' = hold, NodesOf(o) \subseteq NodesOf(o)',
             pc[g] \in Carrying => pc'[g] \in Carrying /\ loc'[g].obj = loc[g].obj
      PROVE  Somewhere(o)'
  <2>1. Holders(o)' = Holders(o)
    BY <1>2, HoldersKept
  <2>2. Carriers(o, Carrying) \subseteq Carriers(o, Carrying)'
    BY <1>2, CarriersNext
  <2> QED
    BY <1>1, <1>2, <2>1, <2>2
<1>3. ASSUME Same(g) PROVE NodesOf(o) \subseteq NodesOf(o)' /\ Elsewhere(g)
  BY <1>3, NodesKept DEF Same
<1>4. ASSUME Alloc(g) \/ DebugMarkAlloc(g) \/ CountAlloc(g) \/ DebugMarkFree(g) \/ CountFree(g)
      PROVE  Somewhere(o)'
  <2>1. Same(g) /\ UNCHANGED <<total, hold>>
        /\ (pc[g] \in Carrying => pc'[g] \in Carrying /\ loc'[g].obj = loc[g].obj)
    BY <1>0, <1>4, AllocEffect, DebugMarkAllocEffect, CountAllocEffect, DebugMarkFreeEffect,
       CountFreeEffect DEF Carrying
  <2> QED
    BY <1>2, <1>3, <2>1
<1>5. ~AllocSync(g) /\ ~PutSync(g)
  BY DEF AllocSync, PutSync
<1>6. ASSUME Elsewhere(g), pc'[g] \in Carrying, loc'[g].obj = o PROVE Somewhere(o)'
  BY <1>6, CarriersNext
<1>7. ASSUME PopNode(g) PROVE Somewhere(o)'
  <2>1. CASE pc'[g] = "retry" /\ Stacked' = Stacked
    <3>1. NodesOf(o) \subseteq NodesOf(o)'
      BY <1>0, <1>7, <2>1, PopNodeEffect DEF NodesOf
    <3> QED
      BY <1>0, <1>2, <1>7, <3>1, PopNodeEffect DEF Carrying
  <2>2. CASE /\ Stacked' = Stacked \ {loc[g].h} /\ loc'[g].obj = val[loc[g].h]
             /\ pc'[g] = IF opts.debug THEN "mark" ELSE "count"
    <3>1. CASE val[loc[g].h] = o
      BY <1>0, <1>6, <1>7, <2>2, <3>1, PopNodeEffect DEF Carrying
    <3>2. CASE val[loc[g].h] # o
      <4>1. NodesOf(o) \subseteq NodesOf(o)'
        BY <1>0, <1>7, <2>2, <3>2, PopNodeEffect DEF NodesOf
      <4> QED
        BY <1>0, <1>2, <1>7, <4>1, PopNodeEffect DEF Carrying
    <3> QED
      BY <3>1, <3>2
  <2> QED
    BY <1>0, <1>7, <2>1, <2>2, PopNodeEffect
<1>8. ASSUME NewObject(g) PROVE Somewhere(o)'
  <2>1. /\ Same(g) /\ pc[g] = "new" /\ hold' = hold /\ total' = total + 1
        /\ loc'[g].obj = total' /\ pc'[g] \in Carrying
    BY <1>0, <1>8, NewObjectEffect DEF Carrying
  <2>2. CASE o = total'
    BY <1>3, <1>6, <2>1, <2>2
  <2>3. CASE o # total'
    <3>1. o \in 1..total
      BY <1>0, <2>1, <2>3
    <3>2. Holders(o)' = Holders(o) /\ NodesOf(o)' = NodesOf(o)
      BY <2>1, HoldersKept, NodesKept DEF Same
    <3>3. Carriers(o, Carrying) \subseteq Carriers(o, Carrying)'
      BY <1>3, <2>1, CarriersNext DEF Carrying
    <3> QED
      BY <1>1, <3>1, <3>2, <3>3
  <2> QED
    BY <2>2, <2>3
<1>9. ASSUME LoadPeak(g) \/ RaisePeak(g) PROVE Somewhere(o)'
  <2>0. Same(g) /\ pc[g] \in Carrying /\ total' = total
    BY <1>0, <1>9, PeakEffect DEF Carrying
  <2>1. CASE hold' = hold /\ loc'[g].obj = loc[g].obj /\ pc'[g] \in {"peak", "raise"}
    BY <1>2, <1>3, <2>0, <2>1 DEF Carrying
  <2>2. CASE hold' = [hold EXCEPT ![g] = @ \cup {loc[g].obj}] /\ pc'[g] = "idle"
    <3>1. hold'[g] = hold[g] \cup {loc[g].obj} /\ \A k \in Goroutines : k # g => hold'[k] = hold[k]
      BY <1>0, <2>2 DEF TypeOK
    <3>2. Holders(o) \subseteq Holders(o)' /\ NodesOf(o) \subseteq NodesOf(o)'
      BY <1>3, <2>0, <3>1 DEF Holders
    <3>3. loc[g].obj = o => g \in Holders(o)'
      BY <3>1 DEF Holders
    <3>4. loc[g].obj # o => Carriers(o, Carrying) \subseteq Carriers(o, Carrying)'
      BY <1>3, <2>0, CarriersNext
    <3> QED
      BY <1>1, <2>0, <3>2, <3>3, <3>4
  <2> QED
    BY <1>0, <1>9, <2>1, <2>2, PeakEffect
<1>10. ASSUME NEW p \in Object, Use(g, p) PROVE Somewhere(o)'
  <2>1. UNCHANGED <<pc, loc, hold, total, val>> /\ Stacked' = Stacked
    BY <1>0, <1>10, UseEffect
  <2>2. /\ NodesOf(o)' = NodesOf(o) /\ Carriers(o, Carrying)' = Carriers(o, Carrying)
        /\ Holders(o)' = Holders(o)
    BY <2>1, NodesKept, HoldersKept DEF Carriers
  <2> QED
    BY <1>1, <2>1, <2>2
<1>11. ASSUME NEW p \in Object, Free(g, p) PROVE Somewhere(o)'
  <2>1. /\ Same(g) /\ pc[g] = "idle" /\ total' = total /\ hold' = [hold EXCEPT ![g] = @ \ {p}]
        /\ loc'[g].obj = p /\ pc'[g] \in Carrying
    BY <1>0, <1>11, FreeEffect DEF Carrying
  <2>2. CASE o = p
    BY <1>3, <1>6, <2>1, <2>2
  <2>3. CASE o # p
    <3>1. hold'[g] = hold[g] \ {p} /\ \A k \in Goroutines : k # g => hold'[k] = hold[k]
      BY <1>0, <2>1 DEF TypeOK
    <3>2. Holders(o) \subseteq Holders(o)' /\ NodesOf(o) \subseteq NodesOf(o)'
      BY <1>3, <2>1, <2>3, <3>1 DEF Holders
    <3>3. Carriers(o, Carrying) \subseteq Carriers(o, Carrying)'
      BY <1>3, <2>1, CarriersNext DEF Carrying
    <3> QED
      BY <1>1, <2>1, <3>2, <3>3
  <2> QED
    BY <2>2, <2>3
<1>12. ASSUME NewNode(g) \/ LoadHead(g) PROVE Somewhere(o)'
  <2>1. /\ Elsewhere(g) /\ UNCHANGED <<total, hold>> /\ Stacked' = Stacked
        /\ pc'[g] \in Carrying /\ loc'[g].obj = loc[g].obj
    BY <1>0, <1>12, NewNodeEffect, LoadHeadEffect DEF Carrying
  <2>2. \A n \in Stacked : val'[n] = val[n]
    BY <1>0, <1>12, StackedNodes, NewNodeEffect, LoadHeadEffect DEF TypeOK
  <2>3. NodesOf(o)' = NodesOf(o)
    BY <2>1, <2>2, NodesKept
  <2> QED
    BY <1>2, <2>1, <2>3
<1>13. ASSUME PushNode(g) PROVE Somewhere(o)'
  <2>0. Elsewhere(g) /\ pc[g] = "push" /\ UNCHANGED <<total, hold, val>>
    BY <1>0, <1>13, PushNodeEffect
  <2>1. CASE pc'[g] = "load" /\ loc'[g] = loc[g] /\ Stacked' = Stacked
    <3>1. NodesOf(o)' = NodesOf(o)
      BY <2>0, <2>1, NodesKept
    <3> QED
      BY <1>2, <2>0, <2>1, <3>1 DEF Carrying
  <2>2. CASE pc'[g] = "uncount" /\ Stacked' = Stacked \cup {loc[g].n}
    <3>1. val[loc[g].n] = loc[g].obj
      BY <1>0, <2>0 DEF CallInv, CallAt, Pushing
    <3>2. NodesOf(o) \subseteq NodesOf(o)' /\ (loc[g].obj = o => loc[g].n \in NodesOf(o)')
      BY <2>0, <2>2, <3>1 DEF NodesOf
    <3>3. Holders(o)' = Holders(o)
      BY <2>0, HoldersKept
    <3>4. loc[g].obj # o => Carriers(o, Carrying) \subseteq Carriers(o, Carrying)'
      BY <2>0, CarriersNext
    <3> QED
      BY <1>1, <2>0, <3>2, <3>3, <3>4
  <2> QED
    BY <1>0, <1>13, <2>1, <2>2, PushNodeEffect
<1> QED
  BY <1>4, <1>5, <1>7, <1>8, <1>9, <1>10, <1>11, <1>12, <1>13 DEF Step

----------------------------------------------------------------------------
(* The counters *)

LEMMA OneMore ==
  ASSUME NEW S, NEW T, NEW x, IsFiniteSet(S), x \notin S, T = S \cup {x}
  PROVE  IsFiniteSet(T) /\ Cardinality(T) = Cardinality(S) + 1
  BY FS_AddElement

LEMMA OneLess ==
  ASSUME NEW S, NEW T, NEW x, IsFiniteSet(S), x \in S, T = S \ {x}
  PROVE  IsFiniteSet(T) /\ Cardinality(T) = Cardinality(S) - 1
  BY FS_RemoveElement

LEMMA HeldFinite == TypeOK => IsFiniteSet(Held) /\ Cardinality(Held) \in Nat
<1> SUFFICES ASSUME TypeOK PROVE IsFiniteSet(Held) /\ Cardinality(Held) \in Nat
  OBVIOUS
<1>1. total \in Nat /\ Held \subseteq 1..total
  BY Numbers DEF TypeOK, Held
<1>2. IsFiniteSet(1..total)
  BY <1>1, FS_Interval
<1> QED
  BY <1>1, <1>2, FS_Subset, FS_CardinalityType

ArrivingAt == {"peak", "raise"}
LeavingAt == {"check", "put", "load", "push", "uncount", "panic"}

LEMMA CrowdNext ==
  ASSUME NEW g \in Goroutines, Elsewhere(g)
  PROVE  /\ pc'[g] \in ArrivingAt => Arriving' = Arriving \cup {g}
         /\ pc'[g] \notin ArrivingAt => Arriving' = Arriving \ {g}
         /\ pc'[g] \in LeavingAt => Leaving' = Leaving \cup {g}
         /\ pc'[g] \notin LeavingAt => Leaving' = Leaving \ {g}
         /\ g \in Arriving <=> pc[g] \in ArrivingAt
         /\ g \in Leaving <=> pc[g] \in LeavingAt
<1>1. \A k \in Goroutines : k # g => pc'[k] = pc[k]
  BY DEF Elsewhere
<1>2. g \in Arriving <=> pc[g] \in ArrivingAt
  BY DEF Arriving, ArrivingAt
<1>3. g \in Leaving <=> pc[g] \in LeavingAt
  BY DEF Leaving, LeavingAt
<1>4. /\ pc'[g] \in ArrivingAt => Arriving' = Arriving \cup {g}
      /\ pc'[g] \notin ArrivingAt => Arriving' = Arriving \ {g}
  BY <1>1 DEF Arriving, ArrivingAt
<1>5. /\ pc'[g] \in LeavingAt => Leaving' = Leaving \cup {g}
      /\ pc'[g] \notin LeavingAt => Leaving' = Leaving \ {g}
  BY <1>1 DEF Leaving, LeavingAt
<1> QED
  BY <1>2, <1>3, <1>4, <1>5

LEMMA HeldSame == UNCHANGED hold => Held' = Held
  BY DEF Held

LEMMA HeldDelivered ==
  ASSUME Core, ClientInv, Orderly, NEW g \in Goroutines, pc[g] \in Carrying,
         hold' = [hold EXCEPT ![g] = @ \cup {loc[g].obj}]
  PROVE  loc[g].obj \notin Held /\ Held' = Held \cup {loc[g].obj}
<1>0. TypeOK /\ CallInv
  BY DEF Core
<1>1. loc[g].obj \in Object
  BY <1>0, Numbers DEF CallInv, CallAt, TypeOK, Object
<1>2. g \in Carriers(loc[g].obj, Carrying) /\ ClientPlace(loc[g].obj)
  BY <1>1 DEF Carriers, ClientInv
<1>3. Holders(loc[g].obj) = {}
  BY <1>2 DEF ClientPlace, OnePlace
<1>4. loc[g].obj \notin Held
  BY <1>3 DEF Holders, Held
<1>5. hold'[g] = hold[g] \cup {loc[g].obj} /\ \A k \in Goroutines : k # g => hold'[k] = hold[k]
  BY <1>0 DEF TypeOK
<1>6. Held' = Held \cup {loc[g].obj}
  BY <1>5 DEF Held
<1> QED
  BY <1>4, <1>6

LEMMA HeldFreed ==
  ASSUME Core, ClientInv, Orderly, NEW g \in Goroutines, NEW p \in Object, p \in hold[g],
         hold' = [hold EXCEPT ![g] = @ \ {p}]
  PROVE  p \in Held /\ Held' = Held \ {p}
<1>0. TypeOK /\ ClientPlace(p)
  BY DEF Core, ClientInv
<1>1. \A k \in Goroutines : p \in hold[k] => k = g
  BY <1>0 DEF ClientPlace, OnePlace, Holders
<1>2. hold'[g] = hold[g] \ {p} /\ \A k \in Goroutines : k # g => hold'[k] = hold[k]
  BY <1>0 DEF TypeOK
<1> QED
  BY <1>1, <1>2 DEF Held

(***************************************************************************)
(* The steps by their effect on the counters: most have none, and four     *)
(* move a goroutine or an object.                                          *)
(***************************************************************************)
Uncounted ==
  /\ Arriving' = Arriving /\ Leaving' = Leaving
  /\ UNCHANGED <<hold, inUse, peak>>
  /\ \A k \in Arriving : loc'[k].in = loc[k].in

Delivered(g) ==
  /\ TypeOK' /\ Elsewhere(g) /\ pc[g] \in ArrivingAt /\ pc'[g] = "idle" /\ inUse' = inUse
  /\ hold' = [hold EXCEPT ![g] = @ \cup {loc[g].obj}]
  /\ peak <= peak' /\ loc[g].in <= peak'

LEMMA CrowdSame ==
  ASSUME NEW g \in Goroutines, Elsewhere(g), UNCHANGED <<hold, inUse, peak>>,
         pc[g] \in ArrivingAt <=> pc'[g] \in ArrivingAt,
         pc[g] \in LeavingAt <=> pc'[g] \in LeavingAt,
         pc[g] \in ArrivingAt => loc'[g].in = loc[g].in
  PROVE  Uncounted
<1>1. Arriving' = Arriving /\ Leaving' = Leaving
  BY CrowdNext
<1>2. ASSUME NEW k \in Arriving PROVE loc'[k].in = loc[k].in
  <2>1. k \in Goroutines
    BY DEF Arriving
  <2> QED
    BY <2>1, CrowdNext DEF Elsewhere
<1> QED
  BY <1>1, <1>2 DEF Uncounted

LEMMA CountingSteps ==
  ASSUME Core, NEW g \in Goroutines, Step(g)
  PROVE  \/ Uncounted
         \/ CountAlloc(g) \/ CountFree(g) \/ Delivered(g)
         \/ \E p \in Object : Free(g, p)
<1>0. TypeOK /\ CallInv /\ RankInv /\ MadeInv
  BY DEF Core
<1>1. ASSUME Alloc(g) \/ AllocSync(g) \/ NewObject(g) \/ DebugMarkAlloc(g) PROVE Uncounted
  <2>1. /\ Elsewhere(g) /\ UNCHANGED <<hold, inUse, peak>>
        /\ pc[g] \in {"idle", "retry", "new", "mark"} /\ pc'[g] \in {"new", "pop", "mark", "count"}
    BY <1>0, <1>1, AllocEffect, AllocSyncEffect, NewObjectEffect, DebugMarkAllocEffect DEF Same
  <2> QED
    BY <2>1, CrowdSame DEF ArrivingAt, LeavingAt
<1>2. ASSUME PopNode(g) PROVE Uncounted
  <2>1. /\ Elsewhere(g) /\ UNCHANGED <<hold, inUse, peak>>
        /\ pc[g] = "pop" /\ pc'[g] \in {"retry", "mark", "count"}
    BY <1>0, <1>2, PopNodeEffect
  <2> QED
    BY <2>1, CrowdSame DEF ArrivingAt, LeavingAt
<1>3. ASSUME DebugMarkFree(g) \/ PutSync(g) \/ NewNode(g) \/ LoadHead(g) \/ PushNode(g) PROVE Uncounted
  <2>1. /\ Elsewhere(g) /\ UNCHANGED <<hold, inUse, peak>>
        /\ pc[g] \in LeavingAt /\ pc'[g] \in LeavingAt
    BY <1>0, <1>3, DebugMarkFreeEffect, PutSyncEffect, NewNodeEffect, LoadHeadEffect, PushNodeEffect
       DEF Same, LeavingAt
  <2> QED
    BY <2>1, CrowdSame DEF ArrivingAt, LeavingAt
<1>4. ASSUME NEW p \in Object, Use(g, p) PROVE Uncounted
  <2>1. UNCHANGED <<pc, loc, hold, inUse, peak>>
    BY <1>0, <1>4, UseEffect
  <2> QED
    BY <2>1, CrowdSame DEF Elsewhere
<1>5. ASSUME LoadPeak(g) \/ RaisePeak(g) PROVE Uncounted \/ Delivered(g)
  <2>1. CASE /\ hold' = [hold EXCEPT ![g] = @ \cup {loc[g].obj}]
             /\ pc'[g] = "idle" /\ loc[g].in <= peak'
    BY <1>0, <1>5, <2>1, PeakEffect DEF Delivered, Same, ArrivingAt
  <2>2. CASE hold' = hold /\ peak' = peak /\ pc'[g] \in {"peak", "raise"} /\ loc'[g].in = loc[g].in
    <3>1. /\ Elsewhere(g) /\ UNCHANGED <<hold, inUse, peak>>
          /\ pc[g] \in ArrivingAt /\ pc'[g] \in ArrivingAt /\ loc'[g].in = loc[g].in
      BY <1>0, <1>5, <2>2, PeakEffect DEF Same, ArrivingAt
    <3> QED
      BY <3>1, CrowdSame DEF ArrivingAt, LeavingAt
  <2> QED
    BY <1>0, <1>5, <2>1, <2>2, PeakEffect
<1> QED
  BY <1>1, <1>2, <1>3, <1>4, <1>5 DEF Step

LEMMA UseStep ==
  ASSUME Core, ClientInv, UseInv, NEW g \in Goroutines, Step(g) PROVE UseInv'
<1>0. TypeOK /\ CallInv /\ IsFiniteSet(Arriving) /\ IsFiniteSet(Leaving)
  BY DEF Core, UseInv
<1>1. IsFiniteSet(Held) /\ Cardinality(Held) \in Nat /\ Cardinality(Arriving) \in Nat
      /\ Cardinality(Leaving) \in Nat /\ inUse \in Int
  BY <1>0, HeldFinite, FS_CardinalityType DEF TypeOK
<1>2. Orderly => inUse = Cardinality(Held) + Cardinality(Arriving) + Cardinality(Leaving)
  BY DEF UseInv
<1>3. Orderly' => Orderly
  BY OrderlyBefore
<1>4. CASE Uncounted
  <2>1. Held' = Held /\ Arriving' = Arriving /\ Leaving' = Leaving /\ inUse' = inUse
    BY <1>4, HeldSame DEF Uncounted
  <2> QED
    BY <1>0, <1>2, <1>3, <2>1 DEF UseInv
<1>5. CASE CountAlloc(g)
  <2>1. /\ Elsewhere(g) /\ hold' = hold /\ inUse' = inUse + 1
        /\ pc[g] = "count" /\ pc'[g] = "peak"
    BY <1>0, <1>5, CountAllocEffect DEF Same
  <2>2. g \notin Arriving /\ g \notin Leaving /\ Arriving' = Arriving \cup {g} /\ Leaving' = Leaving
    BY <2>1, CrowdNext DEF ArrivingAt, LeavingAt
  <2>3. IsFiniteSet(Arriving') /\ Cardinality(Arriving') = Cardinality(Arriving) + 1
    BY <1>0, <2>2, OneMore
  <2>4. Held' = Held
    BY <2>1, HeldSame
  <2>5. Orderly' => inUse' = Cardinality(Held') + Cardinality(Arriving') + Cardinality(Leaving')
    BY <1>1, <1>2, <1>3, <2>1, <2>2, <2>3, <2>4
  <2> QED
    BY <1>0, <2>2, <2>3, <2>5 DEF UseInv
<1>6. CASE CountFree(g)
  <2>1. /\ Elsewhere(g) /\ hold' = hold /\ inUse' = inUse - 1
        /\ pc[g] = "uncount" /\ pc'[g] = "idle"
    BY <1>0, <1>6, CountFreeEffect DEF Same
  <2>2. g \notin Arriving /\ g \in Leaving /\ Arriving' = Arriving /\ Leaving' = Leaving \ {g}
    BY <2>1, CrowdNext DEF ArrivingAt, LeavingAt
  <2>3. IsFiniteSet(Leaving') /\ Cardinality(Leaving') = Cardinality(Leaving) - 1
    BY <1>0, <2>2, OneLess
  <2>4. Held' = Held
    BY <2>1, HeldSame
  <2>5. Orderly' => inUse' = Cardinality(Held') + Cardinality(Arriving') + Cardinality(Leaving')
    BY <1>1, <1>2, <1>3, <2>1, <2>2, <2>3, <2>4
  <2> QED
    BY <1>0, <2>2, <2>3, <2>5 DEF UseInv
<1>7. CASE Delivered(g)
  <2>1. /\ Elsewhere(g) /\ inUse' = inUse /\ pc[g] \in ArrivingAt /\ pc'[g] = "idle"
        /\ hold' = [hold EXCEPT ![g] = @ \cup {loc[g].obj}]
    BY <1>7 DEF Delivered
  <2>2. g \in Arriving /\ g \notin Leaving /\ Arriving' = Arriving \ {g} /\ Leaving' = Leaving
    BY <2>1, CrowdNext DEF ArrivingAt, LeavingAt
  <2>3. IsFiniteSet(Arriving') /\ Cardinality(Arriving') = Cardinality(Arriving) - 1
    BY <1>0, <2>2, OneLess
  <2>4. Orderly => Cardinality(Held') = Cardinality(Held) + 1
    <3>1. pc[g] \in Carrying
      BY <2>1 DEF ArrivingAt, Carrying
    <3>2. Orderly => loc[g].obj \notin Held /\ Held' = Held \cup {loc[g].obj}
      BY <2>1, <3>1, HeldDelivered
    <3> QED
      BY <1>1, <3>2, OneMore
  <2>5. Orderly' => inUse' = Cardinality(Held') + Cardinality(Arriving') + Cardinality(Leaving')
    BY <1>1, <1>2, <1>3, <2>1, <2>2, <2>3, <2>4
  <2> QED
    BY <1>0, <2>2, <2>3, <2>5 DEF UseInv
<1>8. ASSUME NEW p \in Object, Free(g, p) PROVE UseInv'
  <2>1. /\ Elsewhere(g) /\ inUse' = inUse /\ pc[g] = "idle" /\ pc'[g] \in {"check", "put"}
        /\ hold' = [hold EXCEPT ![g] = @ \ {p}] /\ (Orderly' => p \in hold[g])
    BY <1>0, <1>8, FreeEffect DEF Same
  <2>2. g \notin Arriving /\ g \notin Leaving /\ Arriving' = Arriving /\ Leaving' = Leaving \cup {g}
    BY <2>1, CrowdNext DEF ArrivingAt, LeavingAt
  <2>3. IsFiniteSet(Leaving') /\ Cardinality(Leaving') = Cardinality(Leaving) + 1
    BY <1>0, <2>2, OneMore
  <2>4. Orderly' => Cardinality(Held') = Cardinality(Held) - 1
    <3>1. Orderly' => p \in Held /\ Held' = Held \ {p}
      BY <1>3, <2>1, HeldFreed
    <3> QED
      BY <1>1, <3>1, OneLess
  <2>5. Orderly' => inUse' = Cardinality(Held') + Cardinality(Arriving') + Cardinality(Leaving')
    BY <1>1, <1>2, <1>3, <2>1, <2>2, <2>3, <2>4
  <2> QED
    BY <1>0, <2>2, <2>3, <2>5 DEF UseInv
<1> QED
  BY <1>4, <1>5, <1>6, <1>7, <1>8, CountingSteps

LEMMA PeakStep ==
  ASSUME Core, ClientInv, UseInv, PeakInv, NEW g \in Goroutines, Step(g) PROVE PeakInv'
<1>0. TypeOK /\ CallInv /\ IsFiniteSet(Arriving) /\ IsFiniteSet(Leaving)
  BY DEF Core, UseInv
<1>1. IsFiniteSet(Held) /\ Cardinality(Held) \in Nat /\ Cardinality(Arriving) \in Nat
      /\ Cardinality(Leaving) \in Nat /\ inUse \in Int /\ peak \in Nat
  BY <1>0, HeldFinite, FS_CardinalityType DEF TypeOK
<1> SUFFICES ASSUME Orderly', NEW S \in SUBSET Arriving', NEW v \in Nat,
                    peak' <= v, \A k \in S : loc'[k].in <= v
             PROVE  Cardinality(Held') + Cardinality(S) <= v
  BY DEF PeakInv
<1>2. Orderly
  BY OrderlyBefore
<1>3. ASSUME NEW T \in SUBSET Arriving, peak <= v, \A k \in T : loc[k].in <= v
      PROVE  Cardinality(Held) + Cardinality(T) <= v
  BY <1>2, <1>3 DEF PeakInv
<1>4. \A T \in SUBSET Arriving : IsFiniteSet(T) /\ Cardinality(T) \in Nat
                                 /\ Cardinality(T) <= Cardinality(Arriving)
  BY <1>0, FS_Subset, FS_CardinalityType
<1>5. CASE Uncounted
  BY <1>3, <1>5, HeldSame DEF Uncounted
<1>6. CASE CountAlloc(g)
  <2>1. /\ Elsewhere(g) /\ UNCHANGED <<hold, peak>> /\ inUse' = inUse + 1
        /\ pc[g] = "count" /\ pc'[g] = "peak" /\ loc'[g].in = inUse + 1
    BY <1>0, <1>6, CountAllocEffect DEF Same
  <2>2. g \notin Arriving /\ Arriving' = Arriving \cup {g} /\ Held' = Held /\ Arriving \subseteq Goroutines
    BY <2>1, CrowdNext, HeldSame DEF ArrivingAt, LeavingAt, Arriving
  <2>3. CASE g \in S
    <3>1. S \ {g} \in SUBSET Arriving /\ S = (S \ {g}) \cup {g} /\ g \notin S \ {g}
      BY <2>2, <2>3
    <3>2. Cardinality(S) = Cardinality(S \ {g}) + 1 /\ Cardinality(S \ {g}) \in Nat
          /\ Cardinality(S \ {g}) <= Cardinality(Arriving)
      BY <1>4, <3>1, OneMore
    <3>3. inUse + 1 <= v
      BY <2>1, <2>3
    <3>4. inUse = Cardinality(Held) + Cardinality(Arriving) + Cardinality(Leaving)
      BY <1>2 DEF UseInv
    <3>5. Cardinality(Held) + Cardinality(S) <= v
      BY <1>1, <3>2, <3>3, <3>4
    <3> QED
      BY <2>2, <3>5
  <2>4. CASE g \notin S
    <3>1. S \in SUBSET Arriving
      BY <2>2, <2>4
    <3>2. \A k \in S : loc[k].in <= v
      BY <2>1, <2>2, <2>4, <3>1 DEF Elsewhere
    <3> QED
      BY <1>3, <2>1, <2>2, <3>1, <3>2
  <2> QED
    BY <2>3, <2>4
<1>7. CASE CountFree(g)
  <2>1. /\ Elsewhere(g) /\ UNCHANGED <<hold, peak>> /\ pc[g] = "uncount" /\ pc'[g] = "idle"
    BY <1>0, <1>7, CountFreeEffect DEF Same
  <2>2. g \notin Arriving /\ Arriving' = Arriving /\ Held' = Held /\ Arriving \subseteq Goroutines
    BY <2>1, CrowdNext, HeldSame DEF ArrivingAt, Arriving
  <2>3. \A k \in S : loc[k].in <= v
    BY <2>1, <2>2 DEF Elsewhere
  <2> QED
    BY <1>3, <2>1, <2>2, <2>3
<1>8. CASE Delivered(g)
  <2>1. /\ Elsewhere(g) /\ pc[g] \in ArrivingAt /\ pc'[g] = "idle" /\ peak' \in Nat
        /\ hold' = [hold EXCEPT ![g] = @ \cup {loc[g].obj}]
        /\ peak <= peak' /\ loc[g].in <= peak' /\ loc[g].in \in Int
    BY <1>0, <1>8 DEF Delivered, TypeOK
  <2>2. g \in Arriving /\ Arriving' = Arriving \ {g} /\ Arriving \subseteq Goroutines
    BY <2>1, CrowdNext DEF ArrivingAt, Arriving
  <2>3. S \cup {g} \in SUBSET Arriving /\ S \in SUBSET Arriving /\ g \notin S
    BY <2>2
  <2>4. \A k \in S \cup {g} : loc[k].in <= v
    <3>1. loc[g].in <= v
      BY <2>1
    <3>2. \A k \in S : loc[k].in <= v
      BY <2>1, <2>2, <2>3 DEF Elsewhere
    <3> QED
      BY <3>1, <3>2
  <2>5. peak <= v
    BY <1>1, <2>1
  <2>6. Cardinality(Held) + Cardinality(S \cup {g}) <= v
    BY <1>3, <2>3, <2>4, <2>5
  <2>7. Cardinality(S \cup {g}) = Cardinality(S) + 1 /\ Cardinality(S) \in Nat
    BY <1>4, <2>3, OneMore
  <2>8. Cardinality(Held') = Cardinality(Held) + 1
    <3>1. pc[g] \in Carrying
      BY <2>1 DEF ArrivingAt, Carrying
    <3>2. loc[g].obj \notin Held /\ Held' = Held \cup {loc[g].obj}
      BY <1>2, <2>1, <3>1, HeldDelivered
    <3> QED
      BY <1>1, <3>2, OneMore
  <2> QED
    BY <1>1, <2>6, <2>7, <2>8
<1>9. ASSUME NEW p \in Object, Free(g, p) PROVE Cardinality(Held') + Cardinality(S) <= v
  <2>1. /\ Elsewhere(g) /\ peak' = peak /\ pc[g] = "idle" /\ pc'[g] \in {"check", "put"}
        /\ hold' = [hold EXCEPT ![g] = @ \ {p}] /\ p \in hold[g]
    BY <1>0, <1>9, FreeEffect DEF Same
  <2>2. g \notin Arriving /\ Arriving' = Arriving /\ Arriving \subseteq Goroutines
    BY <2>1, CrowdNext DEF ArrivingAt, Arriving
  <2>3. \A k \in S : loc[k].in <= v
    BY <2>1, <2>2 DEF Elsewhere
  <2>4. Cardinality(Held) + Cardinality(S) <= v /\ Cardinality(S) \in Nat
    BY <1>3, <1>4, <2>1, <2>2, <2>3
  <2>5. p \in Held /\ Held' = Held \ {p}
    BY <1>2, <2>1, HeldFreed
  <2>6. Cardinality(Held') = Cardinality(Held) - 1
    BY <1>1, <2>5, OneLess
  <2> QED
    BY <1>1, <2>4, <2>6
<1> QED
  BY <1>5, <1>6, <1>7, <1>8, <1>9, CountingSteps

LEMMA CleanStep ==
  ASSUME Core, ClientInv, CleanInv, NEW g \in Goroutines, Step(g) PROVE CleanInv'
<1>0. TypeOK /\ CallInv /\ opts' = opts
  BY DEF Core, Step, Alloc, AllocSync, PopNode, NewObject, DebugMarkAlloc, CountAlloc, LoadPeak,
     RaisePeak, Use, Free, DebugMarkFree, PutSync, NewNode, LoadHead, PushNode, CountFree
<1> SUFFICES ASSUME opts.zero, Orderly' PROVE dirty' \subseteq Held'
  BY <1>0 DEF CleanInv
<1>1. Orderly /\ dirty \subseteq Held
  BY OrderlyBefore DEF CleanInv
<1>2. ASSUME NEW p \in Object, Free(g, p) PROVE dirty' \subseteq Held'
  <2>1. hold' = [hold EXCEPT ![g] = @ \ {p}] /\ p \in hold[g] /\ dirty' = dirty \ {p}
    BY <1>0, <1>2, FreeEffect
  <2>2. Held' = Held \ {p}
    BY <1>1, <2>1, HeldFreed
  <2> QED
    BY <1>1, <2>1, <2>2
<1>3. ASSUME NEW p \in Object, Use(g, p) PROVE dirty' \subseteq Held'
  <2>1. hold' = hold /\ p \in hold[g] /\ dirty' = dirty \cup {p}
    BY <1>0, <1>3, UseEffect
  <2>2. p \in Held /\ Held' = Held
    BY <2>1, HeldSame DEF Held
  <2> QED
    BY <1>1, <2>1, <2>2
<1>4. ASSUME \A p \in Object : ~Free(g, p) /\ ~Use(g, p) PROVE dirty' = dirty
  BY <1>4 DEF Step, Alloc, AllocSync, PopNode, NewObject, DebugMarkAlloc, CountAlloc, LoadPeak,
     RaisePeak, DebugMarkFree, PutSync, NewNode, LoadHead, PushNode, CountFree
<1>5. CASE Delivered(g)
  <2>1. pc[g] \in Carrying /\ hold' = [hold EXCEPT ![g] = @ \cup {loc[g].obj}]
    BY <1>5 DEF Delivered, ArrivingAt, Carrying
  <2>2. Held' = Held \cup {loc[g].obj}
    BY <1>1, <2>1, HeldDelivered
  <2> QED
    BY <1>1, <1>2, <1>3, <1>4, <2>2
<1>6. CASE hold' = hold
  BY <1>1, <1>2, <1>3, <1>4, <1>6, HeldSame
<1>7. CountAlloc(g) \/ CountFree(g) \/ Uncounted => hold' = hold
  BY DEF CountAlloc, CountFree, Uncounted
<1> QED
  BY <1>2, <1>5, <1>6, <1>7, CountingSteps

----------------------------------------------------------------------------
(* The invariant *)

LEMMA PoolInvInit == Init => PoolInv
<1> SUFFICES ASSUME Init PROVE PoolInv
  OBVIOUS
<1>1. /\ opts \in Options /\ head = Nil
      /\ val = [n \in Node |-> Nil] /\ next = [n \in Node |-> Nil]
      /\ cached = [o \in Object |-> 0] /\ tracker = {}
      /\ inUse = 0 /\ total = 0 /\ peak = 0
      /\ hold = [g \in Goroutines |-> {}] /\ dirty = {} /\ wrong = 0
      /\ pc = [g \in Goroutines |-> "idle"] /\ loc = [g \in Goroutines |-> NoLocals]
  BY DEF Init
<1>2. TypeOK
  <2>1. opts.rogue \in Nat
    BY <1>1, PoolAssumption
  <2>2. NoLocals \in [obj : 0..total, h : Node \cup {Nil}, nxt : Node \cup {Nil},
                      n : Node \cup {Nil}, in : Int, old : Nat]
    BY <1>1, Numbers DEF NoLocals
  <2>3. loc \in [Goroutines -> [obj : 0..total, h : Node \cup {Nil}, nxt : Node \cup {Nil},
                                n : Node \cup {Nil}, in : Int, old : Nat]]
    BY <1>1, <2>2
  <2>4. "idle" \in Labels
    BY DEF Labels
  <2> QED
    BY <1>1, <2>1, <2>3, <2>4, Numbers DEF TypeOK
<1>3. Stacked = {}
  BY <1>1, StackedReach, ReachNil
<1>4. \A g \in Goroutines : pc[g] = "idle"
  BY <1>1
<1>5. CallInv
  BY <1>4 DEF CallInv, CallAt, Carrying, Pushing
<1>6. RankInv
  <2>1. [n \in Node |-> 0] \in [Node -> Nat] /\ Ranked([n \in Node |-> 0], Stacked)
    BY <1>3 DEF Ranked
  <2> QED
    BY <2>1 DEF RankInv
<1>7. MadeInv
  BY <1>1, <1>3 DEF MadeInv
<1>8. /\ \A o : Holders(o) = {} /\ NodesOf(o) = {}
      /\ \A o : Carriers(o, Carrying) = {} /\ Carriers(o, Unlisted) = {}
      /\ \A o \in Object : cached[o] = 0
  BY <1>1, <1>3, <1>4 DEF Holders, NodesOf, Carriers, Carrying, Unlisted
<1>9. ClientInv /\ TrackerInv
  BY <1>1, <1>8 DEF ClientInv, TrackerInv, ClientPlace, TrackerPlace, OnePlace
<1>10. KeptInv
  BY <1>1 DEF KeptInv
<1>11. Held = {} /\ Arriving = {} /\ Leaving = {}
  BY <1>1, <1>4 DEF Held, Arriving, Leaving
<1>12. IsFiniteSet({}) /\ Cardinality({}) = 0
  BY FS_EmptySet
<1>13. UseInv
  BY <1>1, <1>11, <1>12 DEF UseInv
<1>14. PeakInv
  <2>1. \A S \in SUBSET Arriving : S = {}
    BY <1>11
  <2> QED
    BY <1>1, <1>11, <1>12, <2>1 DEF PeakInv
<1>15. CleanInv
  BY <1>1 DEF CleanInv
<1> QED
  BY <1>2, <1>5, <1>6, <1>7, <1>9, <1>10, <1>13, <1>14, <1>15 DEF PoolInv

(***************************************************************************)
(* Steps in which no goroutine takes part.                                 *)
(***************************************************************************)
LEMMA PoolInvIdle ==
  ASSUME PoolInv, TypeOK', Stacked' = Stacked,
         UNCHANGED <<opts, val, next, tracker, inUse, total, peak, hold, dirty, wrong, pc, loc>>,
         \A o \in Object : cached'[o] <= cached[o]
  PROVE  PoolInv'
<1>0. \A o \in Object : cached[o] \in Nat /\ cached'[o] \in Nat
  BY DEF PoolInv, TypeOK
<1>1. CallInv' /\ RankInv'
  BY CallStill, RankSame DEF PoolInv
<1>2. MadeInv'
  <2>1. total \in Nat /\ tracker' \subseteq 1..total'
    BY Numbers DEF PoolInv, TypeOK, MadeInv
  <2>2. \A o \in Object : cached'[o] > 0 => cached[o] > 0
    BY <1>0
  <2> QED
    BY <2>1, <2>2, MadeSame DEF PoolInv
<1>3. /\ \A o : Holders(o)' = Holders(o) /\ NodesOf(o)' = NodesOf(o)
      /\ \A o : Carriers(o, Carrying)' = Carriers(o, Carrying)
      /\ \A o : Carriers(o, Unlisted)' = Carriers(o, Unlisted)
      /\ Orderly' = Orderly
  BY DEF Holders, NodesOf, Carriers, Orderly
<1>4. ClientInv'
  <2>1. ASSUME NEW o \in Object, ClientPlace(o) PROVE ClientPlace(o)'
    BY <1>0, <1>3, <2>1 DEF ClientPlace, OnePlace
  <2> QED
    BY <1>3, <2>1 DEF PoolInv, ClientInv
<1>5. TrackerInv'
  <2>1. ASSUME NEW o \in Object, TrackerPlace(o) PROVE TrackerPlace(o)'
    BY <1>0, <1>3, <2>1 DEF TrackerPlace, OnePlace
  <2> QED
    BY <2>1 DEF PoolInv, TrackerInv
<1>6. KeptInv'
  BY <1>3 DEF PoolInv, KeptInv
<1>7. Held' = Held /\ Arriving' = Arriving /\ Leaving' = Leaving
  BY DEF Held, Arriving, Leaving
<1>8. UseInv' /\ PeakInv' /\ CleanInv'
  BY <1>3, <1>7 DEF PoolInv, UseInv, PeakInv, CleanInv
<1> QED
  BY <1>1, <1>2, <1>4, <1>5, <1>6, <1>8 DEF PoolInv

LEMMA PoolInvNext == PoolInv /\ [Next]_pvars => PoolInv'
<1> SUFFICES ASSUME PoolInv, [Next]_pvars PROVE PoolInv'
  OBVIOUS
<1>1. ASSUME NEW g \in Goroutines, Step(g) PROVE PoolInv'
  <2>1. Core /\ ClientInv /\ TrackerInv /\ KeptInv /\ UseInv /\ PeakInv /\ CleanInv
    BY DEF PoolInv, Core
  <2>2. Core'
    BY <1>1, <2>1, CoreStep
  <2>3. ClientInv' /\ TrackerInv' /\ KeptInv'
    BY <1>1, <2>1, ClientStep, TrackerStep, KeptStep
  <2>4. UseInv' /\ PeakInv' /\ CleanInv'
    BY <1>1, <2>1, UseStep, PeakStep, CleanStep
  <2> QED
    BY <2>2, <2>3, <2>4 DEF PoolInv, Core
<1>2. ASSUME DropCached PROVE PoolInv'
  BY <1>2, DropCachedEffect, PoolInvIdle DEF PoolInv
<1>3. ASSUME UNCHANGED pvars PROVE PoolInv'
  <2>1. /\ UNCHANGED <<opts, head, val, next, tracker, inUse, total, peak, hold, dirty, wrong, pc, loc>>
        /\ cached' = cached
    BY <1>3 DEF pvars
  <2>2. TypeOK'
    BY <2>1 DEF PoolInv, TypeOK
  <2>3. \A o \in Object : cached'[o] <= cached[o]
    BY <2>1 DEF PoolInv, TypeOK
  <2> QED
    BY <2>1, <2>2, <2>3, StackSame, PoolInvIdle
<1> QED
  BY <1>1, <1>2, <1>3 DEF Next

LEMMA PoolInvariant == Spec => []PoolInv
  BY PoolInvInit, PoolInvNext, PTL DEF Spec

----------------------------------------------------------------------------
(* Theorems *)

LEMMA AtMostOne ==
  ASSUME NEW S, \A a, b \in S : a = b
  PROVE  IsFiniteSet(S) /\ Cardinality(S) = IF S = {} THEN 0 ELSE 1
<1>1. CASE S = {}
  BY <1>1, FS_EmptySet
<1>2. CASE S # {}
  <2>1. PICK x : S = {x}
    BY <1>2
  <2> QED
    BY <1>2, <2>1, FS_Singleton
<1> QED
  BY <1>1, <1>2

LEMMA PooledCount == \A o : Pooled(o) = cached[o] + Cardinality(NodesOf(o))
  BY DEF Pooled, NodesOf, Stacked

(***************************************************************************)
(* The pool holds what it was given back exactly once: Alloc and Free race *)
(* on p.head, addresses of nodes are recycled, and yet no object is in two *)
(* nodes and none is cut off; with the debug tracker an object is not      *)
(* pooled twice even if clients free what they do not hold.                *)
(***************************************************************************)
THEOREM PoolKeepsObjects == Spec => []PooledExactlyOnce
<1>1. PoolInv => PooledExactlyOnce
  <2> SUFFICES ASSUME PoolInv PROVE PooledOnce /\ NothingLost
    BY DEF PooledExactlyOnce
  <2>0. \A o \in Object : cached[o] \in Nat
    BY DEF PoolInv, TypeOK
  <2>1. ASSUME NEW o \in Object, NEW H, NEW C, OnePlace(H, C, cached[o], NodesOf(o))
        PROVE  Pooled(o) <= 1 /\ (NodesOf(o) # {} => Pooled(o) = 1)
    <3>1. \A a, b \in NodesOf(o) : a = b
      BY <2>1 DEF OnePlace
    <3>2. Cardinality(NodesOf(o)) = IF NodesOf(o) = {} THEN 0 ELSE 1
      BY <3>1, AtMostOne
    <3>3. cached[o] \in Nat /\ cached[o] <= 1 /\ (NodesOf(o) # {} => cached[o] = 0)
      BY <2>0, <2>1 DEF OnePlace
    <3>4. Pooled(o) = cached[o] + Cardinality(NodesOf(o))
      BY PooledCount
    <3> QED
      BY <3>2, <3>3, <3>4
  <2>2. PooledOnce
    <3>1. ASSUME Orderly, NEW o \in Object PROVE Pooled(o) <= 1
      BY <2>1, <3>1 DEF PoolInv, ClientInv, ClientPlace
    <3>2. ASSUME opts.debug, NEW o \in Object PROVE Pooled(o) <= 1
      BY <2>1, <3>2 DEF PoolInv, TrackerInv, TrackerPlace
    <3> QED
      BY <3>1, <3>2 DEF PooledOnce
  <2>3. NothingLost
    <3> SUFFICES ASSUME Orderly, ~opts.sync, Quiet, NEW o \in 1..total PROVE o \in Held \/ Pooled(o) = 1
      BY DEF NothingLost
    <3>1. o \in Object
      BY Numbers DEF PoolInv, TypeOK, Object
    <3>2. Carriers(o, Carrying) = {}
      BY DEF Quiet, Carriers, Carrying
    <3>3. Holders(o) # {} \/ NodesOf(o) # {}
      BY <3>2 DEF PoolInv, KeptInv
    <3>4. Holders(o) # {} => o \in Held
      BY DEF Holders, Held
    <3>5. NodesOf(o) # {} => Pooled(o) = 1
      BY <2>1, <3>1 DEF PoolInv, ClientInv, ClientPlace
    <3> QED
      BY <3>3, <3>4, <3>5
  <2> QED
    BY <2>2, <2>3
<1> QED
  BY <1>1, PoolInvariant, PTL

(***************************************************************************)
(* Stats: InUse is at least the number of objects held and equal to it     *)
(* when no call is under way, and no lost race of updatePeak64 leaves the  *)
(* peak below what was held at one time.                                   *)
(***************************************************************************)
THEOREM StatisticsSound == Spec => []StatsSound
<1>1. PoolInv => StatsSound
  <2> SUFFICES ASSUME PoolInv, Orderly PROVE /\ peak >= Cardinality(Held)
                                             /\ inUse >= Cardinality(Held)
                                             /\ Quiet => inUse = Cardinality(Held)
    BY DEF StatsSound
  <2>1. /\ TypeOK /\ IsFiniteSet(Arriving) /\ IsFiniteSet(Leaving)
        /\ inUse = Cardinality(Held) + Cardinality(Arriving) + Cardinality(Leaving)
    BY DEF PoolInv, UseInv
  <2>2. /\ Cardinality(Held) \in Nat /\ Cardinality(Arriving) \in Nat /\ Cardinality(Leaving) \in Nat
        /\ Cardinality({}) = 0
    BY <2>1, HeldFinite, FS_CardinalityType, FS_EmptySet
  <2>3. Cardinality(Held) <= peak
    <3>1. {} \in SUBSET Arriving /\ peak \in Nat /\ peak <= peak
      BY <2>1 DEF TypeOK
    <3>2. Cardinality(Held) + Cardinality({}) <= peak
      BY <3>1 DEF PoolInv, PeakInv
    <3> QED
      BY <2>2, <3>2
  <2>4. Quiet => Arriving = {} /\ Leaving = {}
    BY DEF Quiet, Arriving, Leaving
  <2>5. peak \in Nat
    BY <2>1 DEF TypeOK
  <2> QED
    BY <2>1, <2>2, <2>3, <2>4, <2>5
<1> QED
  BY <1>1, PoolInvariant, PTL

(***************************************************************************)
(* With zeroOnFree, Alloc hands out objects without data of former clients.*)
(***************************************************************************)
THEOREM CleanObjects == Spec => HandsOutClean
<1>1. ASSUME PoolInv, [Next]_pvars, opts.zero, Orderly, NEW g \in Goroutines
      PROVE  (hold'[g] \ hold[g]) \cap dirty = {}
  <2>0. Core /\ ClientInv /\ TypeOK /\ dirty \subseteq Held
    BY <1>1 DEF PoolInv, Core, CleanInv
  <2>1. ASSUME hold' = hold PROVE (hold'[g] \ hold[g]) \cap dirty = {}
    BY <2>1
  <2>2. ASSUME NEW k \in Goroutines, Step(k) PROVE (hold'[g] \ hold[g]) \cap dirty = {}
    <3>1. CASE Delivered(k)
      <4>1. pc[k] \in Carrying /\ hold' = [hold EXCEPT ![k] = @ \cup {loc[k].obj}]
        BY <3>1 DEF Delivered, ArrivingAt, Carrying
      <4>2. loc[k].obj \notin Held
        BY <1>1, <2>0, <4>1, HeldDelivered
      <4>3. hold'[g] \ hold[g] \subseteq {loc[k].obj}
        BY <2>0, <4>1 DEF TypeOK
      <4> QED
        BY <2>0, <4>2, <4>3
    <3>2. ASSUME NEW p \in Object, Free(k, p) PROVE hold'[g] \subseteq hold[g]
      BY <2>0, <3>2 DEF Free, TypeOK
    <3>3. CountAlloc(k) \/ CountFree(k) \/ Uncounted => hold' = hold
      BY DEF CountAlloc, CountFree, Uncounted
    <3> QED
      BY <2>0, <2>1, <2>2, <3>1, <3>2, <3>3, CountingSteps
  <2>3. DropCached \/ UNCHANGED pvars => hold' = hold
    BY DEF DropCached, pvars
  <2> QED
    BY <1>1, <2>1, <2>2, <2>3 DEF Next
<1>2. PoolInv /\ [Next]_pvars =>
        [opts.zero /\ Orderly => \A g \in Goroutines : (hold'[g] \ hold[g]) \cap dirty = {}]_pvars
  BY <1>1
<1> QED
  BY <1>2, PoolInvariant, PTL DEF Spec, HandsOutClean

LEMMA LendingStep == PoolInv /\ [Next]_pvars => [~Orderly \/ Lend!LendNext]_(Lend!lvars)
<1> SUFFICES ASSUME PoolInv, [Next]_pvars, Orderly PROVE [Lend!LendNext]_(Lend!lvars)
  OBVIOUS
<1>0. Core /\ ClientInv /\ TypeOK /\ CallInv /\ Object = 1..MaxObjects /\ 1..total \subseteq Object
  BY Numbers DEF PoolInv, Core, TypeOK, Object
<1>1. ASSUME UNCHANGED hold PROVE UNCHANGED Lend!lvars
  BY <1>1 DEF Lend!lvars
<1>2. ASSUME NEW g \in Goroutines, Delivered(g) PROVE [Lend!LendNext]_(Lend!lvars)
  <2> SUFFICES ASSUME NEW x, x = loc[g].obj PROVE [Lend!LendNext]_(Lend!lvars)
    OBVIOUS
  <2>1. pc[g] \in Carrying /\ hold' = [hold EXCEPT ![g] = @ \cup {x}]
    BY <1>2 DEF Delivered, ArrivingAt, Carrying
  <2>2. x \in Object /\ x \notin Held
    BY <1>0, <2>1, HeldDelivered DEF CallInv, CallAt
  <2>3. \A d \in Goroutines : x \notin hold[d]
    BY <2>2 DEF Held
  <2>4. /\ hold'[g] = hold[g] \cup {x} /\ \A k \in Goroutines : k # g => hold'[k] = hold[k]
    BY <1>0, <2>1 DEF TypeOK
  <2>5. {p \in Goroutines \X Object : p[2] \in hold'[p[1]]}
          = {p \in Goroutines \X Object : p[2] \in hold[p[1]]} \cup {<<g, x>>}
    <3>1. \A d \in Goroutines, o \in Object :
            o \in hold'[d] <=> o \in hold[d] \/ (d = g /\ o = x)
      BY <2>4
    <3> QED
      BY <2>2, <3>1
  <2>6. Lend!Lend(g, x)
    BY <2>2, <2>3, <2>5 DEF Lend!Lend
  <2> QED
    BY <2>2, <2>6 DEF Lend!LendNext
<1>3. ASSUME NEW g \in Goroutines, NEW x \in Object, Free(g, x) PROVE [Lend!LendNext]_(Lend!lvars)
  <2>1. hold' = [hold EXCEPT ![g] = @ \ {x}] /\ hold \in [Goroutines -> SUBSET (1..total)]
    BY <1>0, <1>3 DEF Free, TypeOK
  <2>2. CASE x \notin hold[g]
    <3>1. hold' = hold
      BY <2>1, <2>2
    <3> QED
      BY <1>1, <3>1
  <2>3. CASE x \in hold[g]
    <3>1. hold'[g] = hold[g] \ {x} /\ \A k \in Goroutines : k # g => hold'[k] = hold[k]
      BY <2>1
    <3>2. {p \in Goroutines \X Object : p[2] \in hold'[p[1]]}
            = {p \in Goroutines \X Object : p[2] \in hold[p[1]]} \ {<<g, x>>}
      <4>1. \A d \in Goroutines, o \in Object :
              o \in hold'[d] <=> o \in hold[d] /\ ~(d = g /\ o = x)
        BY <3>1
      <4> QED
        BY <4>1
    <3>3. Lend!GiveBack(g, x)
      BY <2>3, <3>2 DEF Lend!GiveBack
    <3> QED
      BY <3>3 DEF Lend!LendNext
  <2> QED
    BY <2>2, <2>3
<1>4. ASSUME NEW g \in Goroutines, Step(g) PROVE [Lend!LendNext]_(Lend!lvars)
  <2>1. CountAlloc(g) \/ CountFree(g) \/ Uncounted => hold' = hold
    BY DEF CountAlloc, CountFree, Uncounted
  <2> QED
    BY <1>0, <1>1, <1>2, <1>3, <1>4, <2>1, CountingSteps
<1>5. DropCached \/ UNCHANGED pvars => hold' = hold
  BY DEF DropCached, pvars
<1> QED
  BY <1>1, <1>4, <1>5 DEF Next

(***************************************************************************)
(* Unless a client frees what it does not hold, the pool implements        *)
(* Lending: Alloc never returns an object that another client still has.   *)
(***************************************************************************)
THEOREM PoolImplementsLending == Spec => ImplementsLending
<1>1. Init => Lend!LendInit
  <2>1. ASSUME Init PROVE {p \in Goroutines \X Object : p[2] \in hold[p[1]]} = {}
    <3>1. \A g \in Goroutines : hold[g] = {}
      BY <2>1 DEF Init
    <3> QED
      BY <3>1
  <2> QED
    BY <2>1 DEF Lend!LendInit
<1> QED
  BY <1>1, PoolInvariant, LendingStep, PTL DEF Spec, ImplementsLending
=============================================================================
