--------------------------- MODULE RequestProofs ---------------------------
(***************************************************************************)
(* Proofs about module Request, for any number of goroutines, call sites   *)
(* and buffers and any sizes: the counters of metrics.go are exact, the    *)
(* slab the AutoTuner proposes fits its site, ReadResponseBody returns the *)
(* whole body, and a borrowed slice is private.                            *)
(*                                                                         *)
(* LocalInv says what the local variables of a request are at each place   *)
(* of the code.  To it each theorem adds an invariant of the state that    *)
(* its component shares: SumsInv, HighWaterInv, SiteInv, BufferInv.        *)
(***************************************************************************)
EXTENDS Request, TLAPS

Assumptions == /\ TunerAssumption /\ BufferAssumption
               /\ SessionAssumption /\ RequestAssumption

----------------------------------------------------------------------------
(* The ArenaBuffer *)

BufType == [buf : Seq(Nat), len : Nat, used : Nat]

\* A buffer whose written part lies inside its memory.
IsBuffer(b) == b \in BufType /\ b.len <= Len(b.buf)

(***************************************************************************)
(* A new ArenaBuffer is empty, and has the capacity it was asked for.      *)
(***************************************************************************)
LEMMA NewArenaBufferIs ==
  ASSUME NEW n \in Nat
  PROVE  /\ IsBuffer(NewArenaBuffer(n))
         /\ NewArenaBuffer(n).len = 0
         /\ NewArenaBuffer(n).used = n
<1>1. /\ Blank(n) \in Seq(Nat)
      /\ Len(Blank(n)) = n
  BY DEF Blank
<1>2. NewArenaBuffer(n) = [buf |-> Blank(n), len |-> 0, used |-> n]
  BY DEF NewArenaBuffer
<1> QED
  BY <1>1, <1>2 DEF IsBuffer, BufType

(***************************************************************************)
(* grow makes room for the extra bytes and keeps those that are written.   *)
(***************************************************************************)
LEMMA GrowIs ==
  ASSUME NEW b, IsBuffer(b), NEW extra \in Nat, BufferAssumption
  PROVE  /\ IsBuffer(Grow(b, extra))
         /\ Grow(b, extra).len = b.len
         /\ b.len + extra <= Len(Grow(b, extra).buf)
         /\ \A i \in 1..b.len : Grow(b, extra).buf[i] = b.buf[i]
<1> DEFINE required == b.len + extra
           n == NewCap(b, required)
           new == [i \in 1..n |-> IF i <= b.len THEN b.buf[i] ELSE 0]
<1>1. /\ b \in BufType /\ b.len <= Len(b.buf) /\ b.len \in Nat /\ b.buf \in Seq(Nat) /\ b.used \in Nat
      /\ Len(b.buf) \in Nat /\ Slack \in Nat
  BY DEF IsBuffer, BufType, BufferAssumption
<1>2. CASE required <= Len(b.buf)
  <2>1. Grow(b, extra) = b
    BY <1>2 DEF Grow
  <2> QED
    BY <1>1, <1>2, <2>1
<1>3. CASE ~(required <= Len(b.buf))
  <2>1. n \in Nat /\ n >= required
    BY <1>1, <1>3 DEF NewCap
  <2>2. \A i \in 1..n : (IF i <= b.len THEN b.buf[i] ELSE 0) \in Nat
    BY <1>1
  <2>3. new \in Seq(Nat) /\ Len(new) = n
    <3> HIDE DEF n
    <3> QED
      BY <2>1, <2>2
  <2>4. \A i \in 1..b.len : new[i] = b.buf[i]
    <3> HIDE DEF n
    <3> QED
      BY <1>1, <2>1
  <2>5. Grow(b, extra) = [b EXCEPT !.buf = new, !.used = b.used + n]
    BY <1>3 DEF Grow
  <2> HIDE DEF new, n
  <2>6. /\ Grow(b, extra) \in BufType
        /\ Grow(b, extra).len = b.len
        /\ Grow(b, extra).buf = new
    <3>1. b.used + n \in Nat
      BY <1>1, <2>1
    <3> QED
      BY <1>1, <2>3, <2>5, <3>1 DEF BufType
  <2> QED
    BY <1>1, <2>1, <2>3, <2>4, <2>6 DEF IsBuffer
<1> QED
  BY <1>2, <1>3

(***************************************************************************)
(* Write appends the bytes to what is written, whether or not the buffer   *)
(* has to grow.                                                            *)
(***************************************************************************)
LEMMA WriteIs ==
  ASSUME NEW b, IsBuffer(b), NEW p \in Seq(Nat), BufferAssumption
  PROVE  /\ IsBuffer(Write(b, p))
         /\ Write(b, p).len = b.len + Len(p)
         /\ \A i \in 1..b.len : Write(b, p).buf[i] = b.buf[i]
         /\ \A i \in 1..Len(p) : Write(b, p).buf[b.len + i] = p[i]
<1> DEFINE m == Grow(b, Len(p))
           new == [i \in DOMAIN m.buf |-> IF i - m.len \in DOMAIN p THEN p[i - m.len] ELSE m.buf[i]]
<1>1. /\ b.len \in Nat
      /\ Len(p) \in Nat
      /\ DOMAIN p = 1..Len(p)
  BY DEF IsBuffer, BufType
<1>2. /\ IsBuffer(m)
      /\ m.len = b.len
      /\ b.len + Len(p) <= Len(m.buf)
      /\ \A i \in 1..b.len : m.buf[i] = b.buf[i]
  BY <1>1, GrowIs
<1>3. Write(b, p) = [m EXCEPT !.buf = new, !.len = m.len + Len(p)]
  BY DEF Write, Put
<1> HIDE DEF m
<1>4. m \in BufType /\ m.buf \in Seq(Nat) /\ m.len \in Nat /\ DOMAIN m.buf = 1..Len(m.buf) /\ Len(m.buf) \in Nat
  BY <1>2 DEF IsBuffer, BufType
<1>5. \A i \in 1..Len(m.buf) : (IF i - m.len \in DOMAIN p THEN p[i - m.len] ELSE m.buf[i]) \in Nat
  BY <1>1, <1>4, SMTT(30)
<1>6. new \in Seq(Nat) /\ Len(new) = Len(m.buf)
  BY <1>4, <1>5
<1>7. /\ \A i \in 1..b.len : new[i] = b.buf[i]
      /\ \A i \in 1..Len(p) : new[b.len + i] = p[i]
  <2>1. SUFFICES ASSUME NEW i \in 1..b.len PROVE new[i] = b.buf[i]
    <3>1. ASSUME NEW i \in 1..Len(p) PROVE new[b.len + i] = p[i]
      <4>1. b.len + i \in 1..Len(m.buf) /\ (b.len + i) - m.len = i /\ i \in DOMAIN p
        BY <1>1, <1>2, <1>4, SMTT(30)
      <4> QED
        BY <1>4, <4>1
    <3> QED
      BY <3>1
  <2>2. i \in 1..Len(m.buf) /\ i - m.len \notin DOMAIN p
    BY <1>1, <1>2, <1>4
  <2> QED
    BY <1>2, <1>4, <2>2
<1> HIDE DEF new
<1>8. /\ Write(b, p) \in BufType
      /\ Write(b, p).len = b.len + Len(p)
      /\ Write(b, p).buf = new
  <2>1. m.len + Len(p) \in Nat
    BY <1>1, <1>4
  <2> QED
    BY <1>2, <1>3, <1>4, <1>6, <2>1 DEF BufType
<1> QED
  BY <1>1, <1>2, <1>6, <1>7, <1>8 DEF IsBuffer

----------------------------------------------------------------------------
(* The local variables of a request *)

Labels == {"idle", "size", "create", "add", "load", "raise", "enter", "fn", "read",
           "calibrate", "leave", "exit", "close", "free"}

ReqType ==
  [key : Keys \cup {NoKey}, known : BOOLEAN, size : Nat, old : Int, cur : Int, active : BOOLEAN,
   used : Nat, buffer : BufType, total : Nat, open : BOOLEAN,
   result : {"none", "ok", "err", "tooLarge"}, body : Seq(Nat)]

(***************************************************************************)
(* While the body is read, the buffer holds the bytes that have come, and  *)
(* they are not too many.                                                  *)
(***************************************************************************)
Reading(r) ==
  /\ r.active /\ r.result = "none" /\ r.total <= MaxBody
  /\ IsBuffer(r.buffer) /\ r.buffer.len = r.total
  /\ \A i \in 1..r.total : r.buffer.buf[i] = i

(***************************************************************************)
(* What the result of ReadResponseBody says of the bytes that came.        *)
(***************************************************************************)
Whole(r) ==
  /\ r.result = "ok" => r.total <= MaxBody /\ r.body = [i \in 1..r.total |-> i]
  /\ r.result = "tooLarge" => r.total > MaxBody

\* The local variables r of a goroutine that is at p.
ReqAt(p, r) ==
  /\ p = "idle" => r = NoReq
  /\ p \in {"size", "create", "add", "load", "raise", "read", "calibrate", "close", "free"}
       => r.key # NoKey
  /\ p = "leave" => r.key = NoKey
  /\ p = "exit" => r.active \/ r.key # NoKey
  /\ r.active => p \in {"fn", "read", "calibrate", "leave", "exit"}
  /\ r.open <=> p = "read"
  /\ p = "read" => Reading(r)
  /\ p = "fn" /\ r.result = "none" => r.total = 0
  /\ Whole(r)

LocalInv ==
  /\ pc \in [Users -> Labels]
  /\ req \in [Users -> ReqType]
  /\ \A g \in Users : ReqAt(pc[g], req[g])

SharedType ==
  /\ metrics \in [arenas : Int, scopes : Int, allocated : Int, high : Int]
  /\ sites \in [Keys -> Int]
  /\ peak \in Int

LEMMA NoReqTyped == NoReq \in ReqType
<1>1. NoBuffer \in BufType
  BY DEF NoBuffer, BufType
<1> QED
  BY <1>1 DEF NoReq, ReqType

LEMMA ReqTyped ==
  ASSUME LocalInv, NEW g \in Users
  PROVE  req[g] \in ReqType /\ pc[g] \in Labels /\ ReqAt(pc[g], req[g])
BY DEF LocalInv

\* The other goroutines stay where they are.
Elsewhere(g) == \A h \in Users \ {g} : pc'[h] = pc[h] /\ req'[h] = req[h]

(***************************************************************************)
(* A step of one goroutine, to a place for which its new local variables   *)
(* are right.                                                              *)
(***************************************************************************)
LEMMA StepLocal ==
  ASSUME LocalInv, NEW g \in Users, NEW from, NEW to \in Labels, NEW r \in ReqType,
         Step(g, from, to, r), ReqAt(to, r)
  PROVE  /\ LocalInv' /\ Elsewhere(g)
         /\ pc[g] = from /\ pc'[g] = to /\ req'[g] = r
<1>1. /\ pc \in [Users -> Labels] /\ req \in [Users -> ReqType]
      /\ pc' = [pc EXCEPT ![g] = to] /\ req' = [req EXCEPT ![g] = r] /\ pc[g] = from
  BY DEF LocalInv, Step, Goto
<1>2. /\ pc' \in [Users -> Labels] /\ req' \in [Users -> ReqType]
      /\ pc'[g] = to /\ req'[g] = r /\ Elsewhere(g)
  BY <1>1 DEF Elsewhere
<1>3. ASSUME NEW h \in Users PROVE ReqAt(pc'[h], req'[h])
  <2>1. CASE h = g
    BY <1>2, <2>1
  <2>2. CASE h # g
    BY <1>2, <2>2 DEF Elsewhere, LocalInv
  <2> QED
    BY <2>1, <2>2
<1>4. \A h \in Users : ReqAt(pc[h], req[h])'
  BY <1>3
<1> QED
  BY <1>1, <1>2, <1>3 DEF LocalInv, ReqAt, Reading, Whole

----------------------------------------------------------------------------
(* The AutoTuner's arithmetic *)

(***************************************************************************)
(* PageAligned rounds up to a whole page.                                  *)
(***************************************************************************)
LEMMA PageAlignedIs ==
  ASSUME NEW n \in Nat, TunerAssumption
  PROVE  /\ PageAligned(n) \in Nat
         /\ n <= PageAligned(n) /\ PageAligned(n) < n + PageSize
         /\ n > 0 => PageAligned(n) >= PageSize
<1> DEFINE m == n + PageSize - 1
           q == m \div PageSize
<1>1. PageSize \in Nat /\ PageSize > 0 /\ m \in Nat
  BY DEF TunerAssumption
<1>2. q \in Nat /\ q * PageSize <= m /\ m < q * PageSize + PageSize /\ q * PageSize \in Nat
  <2> HIDE DEF m
  <2>1. q \in Nat /\ m % PageSize \in 0..(PageSize - 1) /\ m = q * PageSize + (m % PageSize)
    BY <1>1
  <2> HIDE DEF q
  <2>2. q * PageSize \in Nat
    BY <1>1, <2>1
  <2> QED
    BY <1>1, <2>1, <2>2
<1>3. PageAligned(n) = q * PageSize
  BY DEF PageAligned
<1> HIDE DEF q
<1>4. ASSUME n > 0 PROVE q * PageSize >= PageSize
  <2>1. q > 0
    BY <1>1, <1>2, <1>4
  <2> QED
    BY <1>1, <1>2, <2>1
<1> QED
  BY <1>1, <1>2, <1>3, <1>4

(***************************************************************************)
(* The proposed slab is within the limits, up to a page, and holds a       *)
(* quarter more than the estimate if the limits allow it.                  *)
(***************************************************************************)
LEMMA SlabForIs ==
  ASSUME NEW e \in Int, TunerAssumption
  PROVE  /\ SlabFor(e) \in Nat
         /\ SlabFor(e) < MaxSlab + PageSize
         /\ SlabFor(e) >= PageSize
         /\ SlabFor(e) >= (5 * e) \div 4 \/ SlabFor(e) >= MaxSlab
<1> DEFINE n == (5 * e) \div 4
           c == Clamped(n)
<1>1. n \in Int /\ MinSlab \in Nat /\ MinSlab > 0 /\ MaxSlab \in Nat /\ MinSlab <= MaxSlab /\ PageSize \in Nat
  BY DEF TunerAssumption
<1>2. c \in Nat /\ c > 0 /\ c <= MaxSlab /\ (c >= n \/ c = MaxSlab)
  <2> HIDE DEF n
  <2> QED
    BY <1>1 DEF Clamped
<1>3. SlabFor(e) = PageAligned(c)
  BY DEF SlabFor
<1> HIDE DEF c
<1>4. /\ PageAligned(c) \in Nat /\ c <= PageAligned(c) /\ PageAligned(c) < c + PageSize
      /\ PageAligned(c) >= PageSize
  BY <1>2, PageAlignedIs
<1> HIDE DEF n
<1>5. /\ SlabFor(e) \in Nat /\ SlabFor(e) < MaxSlab + PageSize
      /\ SlabFor(e) >= PageSize
      /\ SlabFor(e) >= n \/ SlabFor(e) >= MaxSlab
  BY <1>1, <1>2, <1>3, <1>4
<1> QED
  BY <1>5 DEF n

----------------------------------------------------------------------------
(* The local variables after each action *)

\* What the counters depend on.
Kept(g) == /\ req'[g].key = req[g].key
           /\ req'[g].size = req[g].size
           /\ req'[g].active = req[g].active

Local == LocalInv /\ SharedType /\ RequestAssumption /\ BufferAssumption

LEMMA WithAutoTunedScopeLocal ==
  ASSUME Local, NEW g \in Users, NEW k \in Keys, WithAutoTunedScope(g, k)
  PROVE  /\ LocalInv' /\ Elsewhere(g) /\ pc[g] = "idle" /\ pc'[g] = "size"
         /\ req'[g].active = FALSE
<1> DEFINE r == [NoReq EXCEPT !.key = k, !.known = (sites[k] # Unknown)]
<1>1. /\ LocalInv /\ SharedType /\ RequestAssumption /\ req[g] \in ReqType
      /\ pc[g] = "idle" /\ ReqAt("idle", req[g])
  BY ReqTyped DEF Local, WithAutoTunedScope, Step
<1>2. Step(g, "idle", "size", r)
  BY <1>1 DEF WithAutoTunedScope
<1>3. r \in ReqType
  BY <1>1, NoReqTyped DEF ReqType
<1>4. /\ r.key = k /\ k # NoKey /\ ~r.active
      /\ r.result = "none" /\ ~r.open /\ r.total = 0
  BY <1>1, NoReqTyped DEF ReqType, NoReq
<1> HIDE DEF r
<1>5. ReqAt("size", r)
  BY <1>1, <1>4 DEF ReqAt, Whole
<1>6. "size" \in Labels
  BY DEF Labels
<1>7. LocalInv' /\ Elsewhere(g) /\ pc'[g] = "size" /\ req'[g] = r
  BY <1>1, <1>2, <1>3, <1>5, <1>6, StepLocal
<1> QED
  BY <1>1, <1>4, <1>7

LEMMA HTTPMiddlewareLocal ==
  ASSUME Local, NEW g \in Users, HTTPMiddleware(g)
  PROVE  /\ LocalInv' /\ Elsewhere(g) /\ pc[g] = "idle" /\ pc'[g] = "enter"
         /\ req'[g] = NoReq
<1> DEFINE r == NoReq
<1>1. /\ LocalInv /\ SharedType /\ RequestAssumption /\ req[g] \in ReqType
      /\ pc[g] = "idle" /\ ReqAt("idle", req[g])
  BY ReqTyped DEF Local, HTTPMiddleware, Step
<1>2. Step(g, "idle", "enter", r)
  BY <1>1 DEF HTTPMiddleware
<1>3. r \in ReqType
  BY <1>1, NoReqTyped DEF ReqType
<1>4. /\ r = NoReq /\ ~r.active /\ r.key = NoKey
      /\ r.result = "none" /\ ~r.open /\ r.total = 0
  BY <1>1, NoReqTyped DEF ReqType, NoReq
<1> HIDE DEF r
<1>5. ReqAt("enter", r)
  BY <1>1, <1>4 DEF ReqAt, Whole
<1>6. "enter" \in Labels
  BY DEF Labels
<1>7. LocalInv' /\ Elsewhere(g) /\ pc'[g] = "enter" /\ req'[g] = r
  BY <1>1, <1>2, <1>3, <1>5, <1>6, StepLocal
<1> QED
  BY <1>1, <1>4, <1>7

LEMMA RecommendedSizeLocal ==
  ASSUME Local, NEW g \in Users, RecommendedSize(g)
  PROVE  /\ LocalInv' /\ Elsewhere(g) /\ pc[g] = "size" /\ pc'[g] = "create"
         /\ req'[g].active = req[g].active
<1> DEFINE r == [req[g] EXCEPT !.size = IF req[g].known THEN SlabFor(sites[req[g].key]) ELSE MinSlab]
<1>1. /\ LocalInv /\ SharedType /\ RequestAssumption /\ req[g] \in ReqType
      /\ pc[g] = "size" /\ ReqAt("size", req[g])
  BY ReqTyped DEF Local, RecommendedSize, Step
<1>2. Step(g, "size", "create", r)
  BY <1>1 DEF RecommendedSize
<1>3. r \in ReqType
  <2>1. SlabFor(sites[req[g].key]) \in Nat /\ MinSlab \in Nat
    <3>1. req[g].key \in Keys
      BY <1>1 DEF ReqAt, ReqType
    <3>2. sites[req[g].key] \in Int
      BY <1>1, <3>1 DEF SharedType
    <3> QED
      BY <3>2, SlabForIs, TunerAssumption
  <2> QED
    BY <1>1, <2>1 DEF ReqType
<1>4. /\ r.key = req[g].key /\ r.active = req[g].active
      /\ r.open = req[g].open /\ r.result = req[g].result /\ r.total = req[g].total /\ r.body = req[g].body
  BY <1>1, NoReqTyped DEF ReqType, NoReq
<1> HIDE DEF r
<1>5. ReqAt("create", r)
  BY <1>1, <1>4 DEF ReqAt, Whole
<1>6. "create" \in Labels
  BY DEF Labels
<1>7. LocalInv' /\ Elsewhere(g) /\ pc'[g] = "create" /\ req'[g] = r
  BY <1>1, <1>2, <1>3, <1>5, <1>6, StepLocal
<1> QED
  BY <1>1, <1>4, <1>7

LEMMA RecordArenaLocal ==
  ASSUME Local, NEW g \in Users, RecordArena(g)
  PROVE  /\ LocalInv' /\ Elsewhere(g) /\ pc[g] = "create" /\ pc'[g] = "add"
         /\ Kept(g)
<1> DEFINE r == req[g]
<1>1. /\ LocalInv /\ SharedType /\ RequestAssumption /\ req[g] \in ReqType
      /\ pc[g] = "create" /\ ReqAt("create", req[g])
  BY ReqTyped DEF Local, RecordArena, Step
<1>2. Step(g, "create", "add", r)
  BY <1>1 DEF RecordArena
<1>3. r \in ReqType
  BY <1>1, NoReqTyped DEF ReqType
<1>4. /\ r.key = req[g].key /\ r.size = req[g].size /\ r.active = req[g].active
      /\ r.open = req[g].open /\ r.result = req[g].result /\ r.total = req[g].total /\ r.body = req[g].body
  BY <1>1, NoReqTyped DEF ReqType, NoReq
<1> HIDE DEF r
<1>5. ReqAt("add", r)
  BY <1>1, <1>4 DEF ReqAt, Whole
<1>6. "add" \in Labels
  BY DEF Labels
<1>7. LocalInv' /\ Elsewhere(g) /\ pc'[g] = "add" /\ req'[g] = r
  BY <1>1, <1>2, <1>3, <1>5, <1>6, StepLocal
<1> QED
  BY <1>1, <1>4, <1>7 DEF Kept

LEMMA CalibrateSiteLocal ==
  ASSUME Local, NEW g \in Users, CalibrateSite(g)
  PROVE  /\ LocalInv' /\ Elsewhere(g) /\ pc[g] = "calibrate" /\ pc'[g] = "exit"
         /\ Kept(g)
<1> DEFINE r == req[g]
<1>1. /\ LocalInv /\ SharedType /\ RequestAssumption /\ req[g] \in ReqType
      /\ pc[g] = "calibrate" /\ ReqAt("calibrate", req[g])
  BY ReqTyped DEF Local, CalibrateSite, Step
<1>2. Step(g, "calibrate", "exit", r)
  BY <1>1 DEF CalibrateSite
<1>3. r \in ReqType
  BY <1>1, NoReqTyped DEF ReqType
<1>4. /\ r.key = req[g].key /\ r.size = req[g].size /\ r.active = req[g].active
      /\ r.open = req[g].open /\ r.result = req[g].result /\ r.total = req[g].total /\ r.body = req[g].body
  BY <1>1, NoReqTyped DEF ReqType, NoReq
<1> HIDE DEF r
<1>5. ReqAt("exit", r)
  BY <1>1, <1>4 DEF ReqAt, Whole
<1>6. "exit" \in Labels
  BY DEF Labels
<1>7. LocalInv' /\ Elsewhere(g) /\ pc'[g] = "exit" /\ req'[g] = r
  BY <1>1, <1>2, <1>3, <1>5, <1>6, StepLocal
<1> QED
  BY <1>1, <1>4, <1>7 DEF Kept

LEMMA CloseArenaLocal ==
  ASSUME Local, NEW g \in Users, CloseArena(g)
  PROVE  /\ LocalInv' /\ Elsewhere(g) /\ pc[g] = "close" /\ pc'[g] = "free"
         /\ Kept(g)
<1> DEFINE r == req[g]
<1>1. /\ LocalInv /\ SharedType /\ RequestAssumption /\ req[g] \in ReqType
      /\ pc[g] = "close" /\ ReqAt("close", req[g])
  BY ReqTyped DEF Local, CloseArena, Step
<1>2. Step(g, "close", "free", r)
  BY <1>1 DEF CloseArena
<1>3. r \in ReqType
  BY <1>1, NoReqTyped DEF ReqType
<1>4. /\ r.key = req[g].key /\ r.size = req[g].size /\ r.active = req[g].active
      /\ r.open = req[g].open /\ r.result = req[g].result /\ r.total = req[g].total /\ r.body = req[g].body
  BY <1>1, NoReqTyped DEF ReqType, NoReq
<1> HIDE DEF r
<1>5. ReqAt("free", r)
  BY <1>1, <1>4 DEF ReqAt, Whole
<1>6. "free" \in Labels
  BY DEF Labels
<1>7. LocalInv' /\ Elsewhere(g) /\ pc'[g] = "free" /\ req'[g] = r
  BY <1>1, <1>2, <1>3, <1>5, <1>6, StepLocal
<1> QED
  BY <1>1, <1>4, <1>7 DEF Kept

LEMMA RecordSlabLocal ==
  ASSUME Local, NEW g \in Users, RecordSlab(g)
  PROVE  /\ LocalInv' /\ Elsewhere(g) /\ pc[g] = "add" /\ pc'[g] = "load"
         /\ Kept(g)
         /\ req'[g].cur = metrics'.allocated
<1> DEFINE r == [req[g] EXCEPT !.cur = metrics'.allocated]
<1>1. /\ LocalInv /\ SharedType /\ RequestAssumption /\ req[g] \in ReqType
      /\ pc[g] = "add" /\ ReqAt("add", req[g])
  BY ReqTyped DEF Local, RecordSlab, Step
<1>2. Step(g, "add", "load", r)
  BY <1>1 DEF RecordSlab
<1>3. r \in ReqType
  <2>1. metrics' = [metrics EXCEPT !.allocated = @ + req[g].size]
    BY DEF RecordSlab, AddAllocated
  <2>2. metrics.allocated \in Int /\ req[g].size \in Nat
    BY <1>1 DEF SharedType, ReqType
  <2>3. metrics'.allocated = metrics.allocated + req[g].size
    BY <1>1, <2>1 DEF SharedType
  <2> DEFINE m == metrics'.allocated
  <2>4. m \in Int
    BY <2>2, <2>3
  <2> HIDE DEF m
  <2>5. [req[g] EXCEPT !.cur = m] \in ReqType
    BY <1>1, <2>4 DEF ReqType
  <2> QED
    BY <2>5 DEF m
<1>4. /\ r.key = req[g].key /\ r.size = req[g].size /\ r.active = req[g].active
      /\ r.open = req[g].open /\ r.result = req[g].result /\ r.total = req[g].total /\ r.body = req[g].body
      /\ r.cur = metrics'.allocated
  BY <1>1, NoReqTyped DEF ReqType, NoReq
<1> HIDE DEF r
<1>5. ReqAt("load", r)
  BY <1>1, <1>4 DEF ReqAt, Whole
<1>6. "load" \in Labels
  BY DEF Labels
<1>7. LocalInv' /\ Elsewhere(g) /\ pc'[g] = "load" /\ req'[g] = r
  BY <1>1, <1>2, <1>3, <1>5, <1>6, StepLocal
<1> QED
  BY <1>1, <1>4, <1>7 DEF Kept

LEMMA EnterScopeLocal ==
  ASSUME Local, NEW g \in Users, EnterScope(g)
  PROVE  /\ LocalInv' /\ Elsewhere(g) /\ pc[g] = "enter" /\ pc'[g] = "fn"
         /\ req'[g].key = req[g].key /\ req'[g].size = req[g].size
         /\ req'[g].active
<1> DEFINE r == [NoReq EXCEPT !.key = req[g].key, !.size = req[g].size, !.active = TRUE]
<1>1. /\ LocalInv /\ SharedType /\ RequestAssumption /\ req[g] \in ReqType
      /\ pc[g] = "enter" /\ ReqAt("enter", req[g])
  BY ReqTyped DEF Local, EnterScope, Step
<1>2. Step(g, "enter", "fn", r)
  BY <1>1 DEF EnterScope
<1>3. r \in ReqType
  <2>1. req[g].key \in Keys \cup {NoKey} /\ req[g].size \in Nat
    BY <1>1 DEF ReqType
  <2> QED
    BY <2>1, NoReqTyped DEF ReqType
<1>4. /\ r.key = req[g].key /\ r.size = req[g].size /\ r.active
      /\ r.result = "none" /\ ~r.open /\ r.total = 0
  BY <1>1, NoReqTyped DEF ReqType, NoReq
<1> HIDE DEF r
<1>5. ReqAt("fn", r)
  BY <1>1, <1>4 DEF ReqAt, Whole
<1>6. "fn" \in Labels
  BY DEF Labels
<1>7. LocalInv' /\ Elsewhere(g) /\ pc'[g] = "fn" /\ req'[g] = r
  BY <1>1, <1>2, <1>3, <1>5, <1>6, StepLocal
<1> QED
  BY <1>1, <1>4, <1>7

LEMMA ExitEarlyLocal ==
  ASSUME Local, NEW g \in Users, ExitEarly(g)
  PROVE  /\ LocalInv' /\ Elsewhere(g) /\ pc[g] = "fn" /\ pc'[g] = "fn"
         /\ req'[g].key = req[g].key /\ req'[g].size = req[g].size
         /\ req[g].active /\ ~req'[g].active
<1> DEFINE r == [req[g] EXCEPT !.active = FALSE]
<1>1. /\ LocalInv /\ SharedType /\ RequestAssumption /\ req[g] \in ReqType
      /\ pc[g] = "fn" /\ ReqAt("fn", req[g])
      /\ req[g].active
  BY ReqTyped DEF Local, ExitEarly, Step
<1>2. Step(g, "fn", "fn", r)
  BY <1>1 DEF ExitEarly
<1>3. r \in ReqType
  BY <1>1, NoReqTyped DEF ReqType
<1>4. /\ r.key = req[g].key /\ r.size = req[g].size /\ ~r.active
      /\ r.open = req[g].open /\ r.result = req[g].result /\ r.total = req[g].total /\ r.body = req[g].body
  BY <1>1, NoReqTyped DEF ReqType, NoReq
<1> HIDE DEF r
<1>5. ReqAt("fn", r)
  BY <1>1, <1>4 DEF ReqAt, Whole
<1>6. "fn" \in Labels
  BY DEF Labels
<1>7. LocalInv' /\ Elsewhere(g) /\ pc'[g] = "fn" /\ req'[g] = r
  BY <1>1, <1>2, <1>3, <1>5, <1>6, StepLocal
<1> QED
  BY <1>1, <1>4, <1>7

LEMMA ExitPanicsLocal ==
  ASSUME Local, NEW g \in Users, ExitPanics(g)
  PROVE  /\ LocalInv' /\ Elsewhere(g) /\ pc[g] = "exit" /\ pc'[g] = "close"
         /\ req'[g].key = req[g].key /\ req'[g].size = req[g].size
         /\ ~req[g].active /\ ~req'[g].active
<1> DEFINE r == Closing(req[g])
<1>1. /\ LocalInv /\ SharedType /\ RequestAssumption /\ req[g] \in ReqType
      /\ pc[g] = "exit" /\ ReqAt("exit", req[g])
      /\ ~req[g].active
  BY ReqTyped DEF Local, ExitPanics, Step
<1>2. Step(g, "exit", "close", r)
  BY <1>1 DEF ExitPanics, Closing
<1>3. r \in ReqType
  <2>1. req[g].key \in Keys \cup {NoKey} /\ req[g].size \in Nat
    BY <1>1 DEF ReqType
  <2> QED
    BY <2>1, NoReqTyped DEF ReqType, Closing
<1>4. /\ r.key = req[g].key /\ r.size = req[g].size /\ ~r.active
      /\ r.result = "none" /\ ~r.open /\ r.total = 0
  BY <1>1, NoReqTyped DEF ReqType, NoReq, Closing
<1> HIDE DEF r
<1>5. ReqAt("close", r)
  BY <1>1, <1>4 DEF ReqAt, Whole
<1>6. "close" \in Labels
  BY DEF Labels
<1>7. LocalInv' /\ Elsewhere(g) /\ pc'[g] = "close" /\ req'[g] = r
  BY <1>1, <1>2, <1>3, <1>5, <1>6, StepLocal
<1> QED
  BY <1>1, <1>4, <1>7

LEMMA RecordFreedLocal ==
  ASSUME Local, NEW g \in Users, RecordFreed(g)
  PROVE  /\ LocalInv' /\ Elsewhere(g) /\ pc[g] = "free" /\ pc'[g] = "idle"
         /\ req'[g] = NoReq
<1> DEFINE r == NoReq
<1>1. /\ LocalInv /\ SharedType /\ RequestAssumption /\ req[g] \in ReqType
      /\ pc[g] = "free" /\ ReqAt("free", req[g])
  BY ReqTyped DEF Local, RecordFreed, Step
<1>2. Step(g, "free", "idle", r)
  BY <1>1 DEF RecordFreed
<1>3. r \in ReqType
  BY <1>1, NoReqTyped DEF ReqType
<1>4. /\ r = NoReq /\ ~r.active
      /\ r.result = "none" /\ ~r.open /\ r.total = 0
  BY <1>1, NoReqTyped DEF ReqType, NoReq
<1> HIDE DEF r
<1>5. ReqAt("idle", r)
  BY <1>1, <1>4 DEF ReqAt, Whole
<1>6. "idle" \in Labels
  BY DEF Labels
<1>7. LocalInv' /\ Elsewhere(g) /\ pc'[g] = "idle" /\ req'[g] = r
  BY <1>1, <1>2, <1>3, <1>5, <1>6, StepLocal
<1> QED
  BY <1>1, <1>4, <1>7

LEMMA LoadHighWaterLocal ==
  ASSUME Local, NEW g \in Users, LoadHighWater(g)
  PROVE  /\ LocalInv' /\ Elsewhere(g) /\ pc[g] = "load"
         /\ pc'[g] = IF req[g].cur <= metrics.high THEN "enter" ELSE "raise"
         /\ Kept(g)
         /\ req'[g].cur = req[g].cur /\ req'[g].old = metrics.high
<1> DEFINE r == [req[g] EXCEPT !.old = metrics.high]
           to == IF req[g].cur <= metrics.high THEN "enter" ELSE "raise"
<1>1. /\ LocalInv /\ req[g] \in ReqType /\ metrics.high \in Int
      /\ pc[g] = "load" /\ ReqAt("load", req[g])
  BY ReqTyped DEF Local, SharedType, LoadHighWater, Step
<1>2. Step(g, "load", to, r)
  BY DEF LoadHighWater
<1>3. r \in ReqType
  BY <1>1 DEF ReqType
<1>4. /\ r.key = req[g].key /\ r.size = req[g].size /\ r.active = req[g].active
      /\ r.open = req[g].open /\ r.result = req[g].result /\ r.total = req[g].total /\ r.body = req[g].body
      /\ r.cur = req[g].cur /\ r.old = metrics.high
  BY <1>1 DEF ReqType
<1>5. to \in {"enter", "raise"}
  OBVIOUS
<1>6. to = IF req[g].cur <= metrics.high THEN "enter" ELSE "raise"
  OBVIOUS
<1> HIDE DEF r, to
<1>7. ReqAt(to, r) /\ to \in Labels
  BY <1>1, <1>4, <1>5 DEF ReqAt, Whole, Labels
<1>8. LocalInv' /\ Elsewhere(g) /\ pc'[g] = to /\ req'[g] = r
  BY <1>1, <1>2, <1>3, <1>7, StepLocal
<1> QED
  BY <1>1, <1>4, <1>6, <1>8 DEF Kept

LEMMA CompareAndSwapLocal ==
  ASSUME Local, NEW g \in Users, CompareAndSwapHighWater(g)
  PROVE  /\ LocalInv' /\ Elsewhere(g) /\ pc[g] = "raise"
         /\ pc'[g] = IF req[g].old = metrics.high THEN "enter" ELSE "load"
         /\ req'[g] = req[g]
<1> DEFINE to == IF req[g].old = metrics.high THEN "enter" ELSE "load"
<1>1. /\ LocalInv /\ req[g] \in ReqType /\ pc[g] = "raise" /\ ReqAt("raise", req[g])
  BY ReqTyped DEF Local, CompareAndSwapHighWater, Step
<1>2. Step(g, "raise", to, req[g])
  BY DEF CompareAndSwapHighWater
<1>3. to \in {"enter", "load"}
  OBVIOUS
<1>4. to = IF req[g].old = metrics.high THEN "enter" ELSE "load"
  OBVIOUS
<1> HIDE DEF to
<1>5. ReqAt(to, req[g]) /\ to \in Labels
  BY <1>1, <1>3 DEF ReqAt, Whole, Labels
<1>6. LocalInv' /\ Elsewhere(g) /\ pc'[g] = to /\ req'[g] = req[g]
  BY <1>1, <1>2, <1>5, StepLocal
<1> QED
  BY <1>1, <1>4, <1>6

LEMMA DoScopeLocal ==
  ASSUME Local, NEW g \in Users, NEW n \in ContentLengths, DoScope(g, n)
  PROVE  /\ LocalInv' /\ Elsewhere(g) /\ pc[g] = "fn" /\ pc'[g] = "read"
         /\ Kept(g)
<1> DEFINE b == NewArenaBuffer(InitialCap(n))
           r == [req[g] EXCEPT !.buffer = b, !.used = b.used, !.open = TRUE]
<1>1. /\ LocalInv /\ req[g] \in ReqType /\ pc[g] = "fn" /\ ReqAt("fn", req[g])
      /\ req[g].key # NoKey /\ req[g].active /\ req[g].result = "none" /\ req[g].total = 0
  BY ReqTyped DEF Local, DoScope, Step, Tuned, ReqAt
<1>2. Step(g, "fn", "read", r)
  BY DEF DoScope
<1>3. InitialCap(n) \in Nat
  BY DEF Local, RequestAssumption, InitialCap
<1>4. IsBuffer(b) /\ b.len = 0 /\ b \in BufType /\ b.used \in Nat
  BY <1>3, NewArenaBufferIs DEF IsBuffer
<1> HIDE DEF b
<1>5. r \in ReqType
  BY <1>1, <1>4 DEF ReqType
<1>6. /\ r.key = req[g].key /\ r.size = req[g].size /\ r.active = req[g].active
      /\ r.result = req[g].result /\ r.total = req[g].total
      /\ r.buffer = b /\ r.open = TRUE
  BY <1>1 DEF ReqType
<1> HIDE DEF r
<1>7. MaxBody \in Nat
  BY DEF Local, RequestAssumption
<1>8. Reading(r)
  BY <1>1, <1>4, <1>6, <1>7 DEF Reading
<1>9. ReqAt("read", r) /\ "read" \in Labels
  BY <1>1, <1>6, <1>8 DEF ReqAt, Whole, Labels
<1>10. LocalInv' /\ Elsewhere(g) /\ pc'[g] = "read" /\ req'[g] = r
  BY <1>1, <1>2, <1>5, <1>9, StepLocal
<1> QED
  BY <1>1, <1>6, <1>10 DEF Kept

(***************************************************************************)
(* One turn of the loop of ReadResponseBody: the buffer goes on holding    *)
(* what has come, or the result says it all.                               *)
(***************************************************************************)
LEMMA AfterReadIs ==
  ASSUME Local, NEW r \in ReqType, ReqAt("read", r), NEW n \in Nat, NEW err \in {"none", "EOF", "fail"}
  PROVE  LET t == AfterRead(r, n, err)
         IN  /\ t \in ReqType
             /\ ReqAt(IF t.open THEN "read" ELSE "fn", t)
             /\ t.key = r.key /\ t.size = r.size /\ t.active = r.active
<1> DEFINE p == [i \in 1..n |-> r.total + i]
           b == Write(r.buffer, p)
           t == [r EXCEPT !.total = @ + n]
           u == [t EXCEPT !.buffer = b, !.used = b.used]
<1>1. /\ r.total \in Nat /\ r.buffer \in BufType /\ r.open = TRUE /\ r.key # NoKey
      /\ Reading(r) /\ r.body \in Seq(Nat) /\ MaxBody \in Nat
  BY DEF ReqType, ReqAt, Local, RequestAssumption
<1>2. p \in Seq(Nat) /\ Len(p) = n /\ \A i \in 1..n : p[i] = r.total + i
  BY <1>1
<1> HIDE DEF p
<1>3. /\ IsBuffer(b) /\ b \in BufType /\ b.used \in Nat /\ b.buf \in Seq(Nat) /\ b.len = r.total + n
      /\ \A i \in 1..(r.total + n) : b.buf[i] = i
  <2>1. BufferAssumption
    BY DEF Local
  <2>2. /\ IsBuffer(b) /\ b.len = r.buffer.len + n
        /\ \A i \in 1..r.buffer.len : b.buf[i] = r.buffer.buf[i]
        /\ \A i \in 1..n : b.buf[r.buffer.len + i] = p[i]
    BY <1>1, <1>2, <2>1, WriteIs DEF Reading
  <2> HIDE DEF b
  <2>3. ASSUME NEW i \in 1..(r.total + n) PROVE b.buf[i] = i
    <3>1. CASE i <= r.total
      BY <1>1, <2>2, <3>1 DEF Reading
    <3>2. CASE i > r.total
      <4>1. i - r.total \in 1..n /\ r.total + (i - r.total) = i
        BY <1>1, <3>2
      <4> QED
        BY <1>1, <1>2, <2>2, <4>1 DEF Reading
    <3> QED
      BY <1>1, <3>1, <3>2
  <2> QED
    BY <1>1, <2>2, <2>3 DEF Reading, IsBuffer, BufType
<1>4. Bytes(b) = [i \in 1..(r.total + n) |-> i] /\ Bytes(b) \in Seq(Nat)
  <2> HIDE DEF b
  <2>1. b.len <= Len(b.buf) /\ Len(b.buf) \in Nat
    BY <1>3 DEF IsBuffer
  <2>2. /\ Bytes(b) \in Seq(Nat) /\ Len(Bytes(b)) = r.total + n
        /\ \A i \in 1..(r.total + n) : Bytes(b)[i] = i
    <3>1. /\ SubSeq(b.buf, 1, b.len) \in Seq(Nat) /\ Len(SubSeq(b.buf, 1, b.len)) = b.len
          /\ \A i \in 1..b.len : SubSeq(b.buf, 1, b.len)[i] = b.buf[i]
      <4>1. b.buf \in Seq(Nat) /\ b.len \in 0..Len(b.buf)
        BY <1>1, <1>3, <2>1
      <4> HIDE DEF b
      <4> QED
        BY <4>1
    <3> QED
      BY <1>1, <1>3, <3>1 DEF Bytes
  <2> QED
    BY <1>1, <2>2
<1> HIDE DEF b
<1>5. t \in ReqType /\ u \in ReqType
  <2>1. r.total + n \in Nat
    BY <1>1
  <2>2. t \in ReqType
    BY <2>1 DEF ReqType
  <2> HIDE DEF t
  <2> QED
    BY <1>3, <2>2 DEF ReqType
<1>6. /\ t.total = r.total + n /\ t.key = r.key /\ t.size = r.size /\ t.active = r.active
      /\ u.total = r.total + n /\ u.key = r.key /\ u.size = r.size /\ u.active = r.active
      /\ u.buffer = b /\ u.open = TRUE /\ u.result = r.result /\ u.body = r.body
  BY <1>1 DEF ReqType
<1> HIDE DEF t, u
<1>7. ASSUME NEW v \in ReqType, NEW result \in {"ok", "err", "tooLarge"}, NEW body \in Seq(Nat),
             v.key = r.key, v.size = r.size, v.active = r.active,
             result = "ok" => v.total <= MaxBody /\ body = [i \in 1..v.total |-> i],
             result = "tooLarge" => v.total > MaxBody,
             AfterRead(r, n, err) = Returned(v, result, body)
      PROVE  LET w == AfterRead(r, n, err)
             IN  /\ w \in ReqType
                 /\ ReqAt(IF w.open THEN "read" ELSE "fn", w)
                 /\ w.key = r.key /\ w.size = r.size /\ w.active = r.active
  <2> DEFINE w == Returned(v, result, body)
  <2>1. NoBuffer \in BufType
    BY DEF NoBuffer, BufType
  <2>2. w \in ReqType
    BY <1>7, <2>1 DEF Returned, ReqType
  <2>3. /\ w.open = FALSE /\ w.result = result /\ w.body = body /\ w.total = v.total
        /\ w.key = v.key /\ w.size = v.size /\ w.active = v.active
    BY <1>7 DEF Returned, ReqType
  <2> HIDE DEF w
  <2>4. ReqAt("fn", w)
    BY <1>7, <2>3 DEF ReqAt, Whole
  <2>5. AfterRead(r, n, err) = w
    BY <1>7 DEF w
  <2> QED
    BY <1>7, <2>2, <2>3, <2>4, <2>5
<1>8. CASE n > 0 /\ t.total > MaxBody
  <2>1. AfterRead(r, n, err) = Returned(t, "tooLarge", <<>>)
    BY <1>8 DEF AfterRead, t, u, b, p
  <2>2. <<>> \in Seq(Nat)
    OBVIOUS
  <2> QED
    BY <1>5, <1>6, <1>7, <1>8, <2>1, <2>2
<1>9. CASE ~(n > 0 /\ t.total > MaxBody)
  <2>1. r.total + n <= MaxBody
    BY <1>1, <1>6, <1>9 DEF Reading
  <2>2. CASE err = "EOF"
    <3>1. AfterRead(r, n, err) = Returned(u, "ok", Bytes(b))
      BY <1>9, <2>2 DEF AfterRead, t, u, b, p
    <3> QED
      BY <1>4, <1>5, <1>6, <1>7, <2>1, <3>1
  <2>3. CASE err = "fail"
    <3>1. AfterRead(r, n, err) = Returned(u, "err", <<>>)
      BY <1>9, <2>3 DEF AfterRead, t, u, b, p
    <3>2. <<>> \in Seq(Nat)
      OBVIOUS
    <3> QED
      BY <1>5, <1>6, <1>7, <3>1, <3>2
  <2>4. CASE err = "none"
    <3>1. AfterRead(r, n, err) = u
      BY <1>9, <2>4 DEF AfterRead, t, u, b, p
    <3>2. Reading(u)
      BY <1>1, <1>3, <1>6, <2>1 DEF Reading
    <3> QED
      BY <1>1, <1>5, <1>6, <3>1, <3>2 DEF ReqAt, Whole, Reading
  <2> QED
    BY <2>2, <2>3, <2>4
<1> QED
  BY <1>8, <1>9

LEMMA ReadResponseBodyLocal ==
  ASSUME Local, NEW g \in Users, NEW n \in 0..TmpSize, NEW err \in {"none", "EOF", "fail"},
         ReadResponseBody(g, n, err)
  PROVE  /\ LocalInv' /\ Elsewhere(g) /\ pc[g] = "read" /\ pc'[g] \in {"read", "fn"}
         /\ Kept(g)
<1> DEFINE r == AfterRead(req[g], n, err)
           to == IF r.open THEN "read" ELSE "fn"
<1>1. /\ LocalInv /\ req[g] \in ReqType /\ pc[g] = "read" /\ ReqAt("read", req[g]) /\ n \in Nat
  BY ReqTyped DEF Local, ReadResponseBody, RequestAssumption
<1>2. Step(g, "read", to, r)
  BY DEF ReadResponseBody
<1>3. /\ r \in ReqType /\ ReqAt(to, r)
      /\ r.key = req[g].key /\ r.size = req[g].size /\ r.active = req[g].active
  BY <1>1, AfterReadIs
<1>4. to \in {"read", "fn"}
  OBVIOUS
<1> HIDE DEF r, to
<1>5. to \in Labels
  BY <1>4 DEF Labels
<1>6. LocalInv' /\ Elsewhere(g) /\ pc'[g] = to /\ req'[g] = r
  BY <1>1, <1>2, <1>3, <1>5, StepLocal
<1> QED
  BY <1>1, <1>3, <1>4, <1>6 DEF Kept

(***************************************************************************)
(* What is left of the local variables when fn has returned, and when the  *)
(* scope has been left.                                                    *)
(***************************************************************************)
LEMMA EndTyped ==
  ASSUME NEW r \in ReqType
  PROVE  /\ AtEnd(r) \in ReqType
         /\ AtEnd(r).key = r.key /\ AtEnd(r).size = r.size /\ AtEnd(r).active = r.active
         /\ AtEnd(r).result = "none" /\ AtEnd(r).open = FALSE /\ AtEnd(r).total = 0
         /\ Closing(r) \in ReqType
         /\ Closing(r).key = r.key /\ Closing(r).size = r.size /\ Closing(r).active = FALSE
         /\ Closing(r).result = "none" /\ Closing(r).open = FALSE /\ Closing(r).total = 0
<1>1. r.key \in Keys \cup {NoKey} /\ r.size \in Nat /\ r.active \in BOOLEAN /\ r.used \in Nat
  BY DEF ReqType
<1>2. /\ AtEnd(r) \in ReqType
  BY <1>1, NoReqTyped DEF AtEnd, ReqType
<1>3. /\ Closing(r) \in ReqType
  BY <1>1, NoReqTyped DEF Closing, ReqType
<1>4. /\ AtEnd(r).key = r.key /\ AtEnd(r).size = r.size /\ AtEnd(r).active = r.active
      /\ AtEnd(r).result = "none" /\ AtEnd(r).open = FALSE /\ AtEnd(r).total = 0
  BY DEF AtEnd, NoReq
<1>5. /\ Closing(r).key = r.key /\ Closing(r).size = r.size /\ Closing(r).active = FALSE
      /\ Closing(r).result = "none" /\ Closing(r).open = FALSE /\ Closing(r).total = 0
  BY DEF Closing, NoReq
<1> QED
  BY <1>2, <1>3, <1>4, <1>5

LEMMA IdleAt == ReqAt("idle", NoReq)
BY DEF ReqAt, Whole, NoReq

LEMMA FnReturnsLocal ==
  ASSUME Local, NEW g \in Users, FnReturns(g)
  PROVE  /\ LocalInv' /\ Elsewhere(g) /\ pc[g] = "fn"
         /\ pc'[g] = IF Tuned(g) THEN "calibrate" ELSE "leave"
         /\ Kept(g)
<1> DEFINE r == AtEnd(req[g])
           to == IF Tuned(g) THEN "calibrate" ELSE "leave"
<1>1. /\ LocalInv /\ req[g] \in ReqType /\ pc[g] = "fn" /\ ReqAt("fn", req[g])
  BY ReqTyped DEF Local, FnReturns, Step
<1>2. Step(g, "fn", to, r)
  BY DEF FnReturns
<1>3. r \in ReqType /\ r.key = req[g].key /\ r.size = req[g].size /\ r.active = req[g].active
      /\ r.result = "none" /\ r.open = FALSE /\ r.total = 0
  BY <1>1, EndTyped
<1>4. /\ to \in {"calibrate", "leave"} /\ (to = "calibrate" <=> r.key # NoKey)
      /\ to = IF Tuned(g) THEN "calibrate" ELSE "leave"
  BY <1>3 DEF Tuned
<1> HIDE DEF r, to
<1>5. ReqAt(to, r) /\ to \in Labels
  BY <1>1, <1>3, <1>4 DEF ReqAt, Whole, Labels
<1>6. LocalInv' /\ Elsewhere(g) /\ pc'[g] = to /\ req'[g] = r
  BY <1>1, <1>2, <1>3, <1>5, StepLocal
<1> QED
  BY <1>1, <1>3, <1>4, <1>6 DEF Kept

LEMMA FnPanicsLocal ==
  ASSUME Local, NEW g \in Users, FnPanics(g)
  PROVE  /\ LocalInv' /\ Elsewhere(g) /\ pc[g] \in {"fn", "read"}
         /\ pc'[g] = IF Tuned(g) THEN "exit" ELSE "leave"
         /\ Kept(g)
<1> DEFINE r == AtEnd(req[g])
           to == IF Tuned(g) THEN "exit" ELSE "leave"
<1>1. /\ LocalInv /\ req[g] \in ReqType /\ pc[g] \in {"fn", "read"} /\ ReqAt(pc[g], req[g])
  BY ReqTyped DEF Local, FnPanics, Step
<1>2. Step(g, pc[g], to, r)
  BY DEF FnPanics
<1>3. r \in ReqType /\ r.key = req[g].key /\ r.size = req[g].size /\ r.active = req[g].active
      /\ r.result = "none" /\ r.open = FALSE /\ r.total = 0
  BY <1>1, EndTyped
<1>4. /\ to \in {"exit", "leave"} /\ (to = "exit" <=> r.key # NoKey)
      /\ to = IF Tuned(g) THEN "exit" ELSE "leave"
  BY <1>3 DEF Tuned
<1> HIDE DEF r, to
<1>5. ReqAt(to, r) /\ to \in Labels
  BY <1>1, <1>3, <1>4 DEF ReqAt, Whole, Labels
<1>6. LocalInv' /\ Elsewhere(g) /\ pc'[g] = to /\ req'[g] = r
  BY <1>1, <1>2, <1>3, <1>5, StepLocal
<1> QED
  BY <1>1, <1>3, <1>4, <1>6 DEF Kept

LEMMA LeaveLocal ==
  ASSUME Local, NEW g \in Users, Leave(g)
  PROVE  /\ LocalInv' /\ Elsewhere(g) /\ pc[g] = "leave"
         /\ \/ pc'[g] = "exit" /\ req'[g] = req[g]
            \/ pc'[g] = "idle" /\ req'[g] = NoReq /\ ~req[g].active
<1>1. /\ LocalInv /\ req[g] \in ReqType /\ pc[g] = "leave" /\ ReqAt("leave", req[g])
  BY ReqTyped DEF Local, Leave, Step
<1>2. CASE req[g].active
  <2>1. Step(g, "leave", "exit", req[g])
    BY <1>2 DEF Leave
  <2>2. ReqAt("exit", req[g]) /\ "exit" \in Labels
    BY <1>1, <1>2 DEF ReqAt, Whole, Labels
  <2> QED
    BY <1>1, <2>1, <2>2, StepLocal
<1>3. CASE ~req[g].active
  <2>1. Step(g, "leave", "idle", NoReq)
    BY <1>3 DEF Leave
  <2>2. "idle" \in Labels
    BY DEF Labels
  <2> QED
    BY <1>1, <1>3, <2>1, <2>2, IdleAt, NoReqTyped, StepLocal
<1> QED
  BY <1>2, <1>3

LEMMA ExitLocal ==
  ASSUME Local, NEW g \in Users, Exit(g)
  PROVE  /\ LocalInv' /\ Elsewhere(g) /\ pc[g] = "exit" /\ req[g].active /\ ~req'[g].active
         /\ \/ /\ Tuned(g) /\ pc'[g] = "close"
               /\ req'[g].key = req[g].key /\ req'[g].size = req[g].size
            \/ ~Tuned(g) /\ pc'[g] = "idle" /\ req'[g] = NoReq
<1>1. /\ LocalInv /\ req[g] \in ReqType /\ pc[g] = "exit" /\ ReqAt("exit", req[g]) /\ req[g].active
  BY ReqTyped DEF Local, Exit, Step
<1>2. CASE Tuned(g)
  <2> DEFINE r == Closing(req[g])
  <2>1. Step(g, "exit", "close", r)
    BY <1>2 DEF Exit
  <2>2. r \in ReqType /\ r.key = req[g].key /\ r.size = req[g].size /\ r.active = FALSE
        /\ r.result = "none" /\ r.open = FALSE /\ r.total = 0
    BY <1>1, EndTyped
  <2> HIDE DEF r
  <2>3. ReqAt("close", r) /\ "close" \in Labels
    BY <1>2, <2>2 DEF ReqAt, Whole, Labels, Tuned
  <2>4. LocalInv' /\ Elsewhere(g) /\ pc'[g] = "close" /\ req'[g] = r
    BY <1>1, <2>1, <2>2, <2>3, StepLocal
  <2> QED
    BY <1>1, <1>2, <2>2, <2>4
<1>3. CASE ~Tuned(g)
  <2>1. Step(g, "exit", "idle", NoReq)
    BY <1>3 DEF Exit
  <2>2. "idle" \in Labels
    BY DEF Labels
  <2>3. LocalInv' /\ Elsewhere(g) /\ pc'[g] = "idle" /\ req'[g] = NoReq
    BY <1>1, <2>1, <2>2, IdleAt, NoReqTyped, StepLocal
  <2>4. ~NoReq.active
    BY DEF NoReq
  <2> QED
    BY <1>1, <1>3, <2>3, <2>4
<1> QED
  BY <1>2, <1>3

----------------------------------------------------------------------------
(* Sums over sets of goroutines *)

(***************************************************************************)
(* t is the sum of w over S: some enumeration s of S, without repetition,  *)
(* has the partial sums p and ends with t.                                 *)
(***************************************************************************)
Enumerates(n, s, S) ==
  /\ s \in [1..n -> S]
  /\ \A u \in S : \E i \in 1..n : s[i] = u
  /\ \A i, j \in 1..n : s[i] = s[j] => i = j

PartialSums(n, s, w, p) ==
  /\ p \in [0..n -> Int]
  /\ p[0] = 0
  /\ \A i \in 1..n : p[i] = p[i - 1] + w[s[i]]

Sums(S, w, t) ==
  \E n \in Nat : \E s \in [1..n -> S], p \in [0..n -> Int] :
    Enumerates(n, s, S) /\ PartialSums(n, s, w, p) /\ p[n] = t

LEMMA SumsEmpty ==
  ASSUME NEW w, NEW t
  PROVE  Sums({}, w, t) <=> t = 0
<1>1. ASSUME Sums({}, w, t) PROVE t = 0
  <2>0. PICK n \in Nat : \E s \in [1..n -> {}], p \in [0..n -> Int] :
          Enumerates(n, s, {}) /\ PartialSums(n, s, w, p) /\ p[n] = t
    BY <1>1 DEF Sums
  <2>1. PICK s \in [1..n -> {}], p \in [0..n -> Int] :
          Enumerates(n, s, {}) /\ PartialSums(n, s, w, p) /\ p[n] = t
    BY <2>0
  <2>2. n = 0
    <3>1. ASSUME n # 0 PROVE FALSE
      <4>1. 1 \in 1..n
        BY <3>1
      <4>2. s[1] \in {}
        BY <4>1
      <4> QED
        BY <4>2
    <3> QED
      BY <3>1
  <2> QED
    BY <2>1, <2>2 DEF PartialSums
<1>2. ASSUME t = 0 PROVE Sums({}, w, t)
  <2> DEFINE s == [i \in 1..0 |-> 0]
             p == [i \in 0..0 |-> 0]
  <2>1. s \in [1..0 -> {}] /\ p \in [0..0 -> Int]
    OBVIOUS
  <2>2. Enumerates(0, s, {}) /\ PartialSums(0, s, w, p) /\ p[0] = t
    BY <1>2, <2>1 DEF Enumerates, PartialSums
  <2> QED
    BY <2>1, <2>2 DEF Sums
<1> QED
  BY <1>1, <1>2

(***************************************************************************)
(* One more element, with the weight it has then.                          *)
(***************************************************************************)
LEMMA SumsPlus ==
  ASSUME NEW S, NEW w, NEW t \in Int, Sums(S, w, t), NEW u, u \notin S,
         NEW v, v[u] \in Int, \A x \in S : v[x] = w[x]
  PROVE  Sums(S \cup {u}, v, t + v[u])
<1>0. PICK n \in Nat : \E s \in [1..n -> S], p \in [0..n -> Int] :
        Enumerates(n, s, S) /\ PartialSums(n, s, w, p) /\ p[n] = t
  BY DEF Sums
<1>1. PICK s \in [1..n -> S], p \in [0..n -> Int] :
        Enumerates(n, s, S) /\ PartialSums(n, s, w, p) /\ p[n] = t
  BY <1>0
<1> DEFINE m == n + 1
           s2 == [i \in 1..m |-> IF i = m THEN u ELSE s[i]]
           p2 == [i \in 0..m |-> IF i = m THEN t + v[u] ELSE p[i]]
<1>2. s2 \in [1..m -> S \cup {u}] /\ p2 \in [0..m -> Int] /\ m \in Nat
  OBVIOUS
<1>3. /\ s2[m] = u /\ \A i \in 1..n : s2[i] = s[i] /\ s[i] \in S
      /\ p2[m] = t + v[u] /\ \A i \in 0..n : p2[i] = p[i]
  OBVIOUS
<1> HIDE DEF s2, p2
<1>4. Enumerates(m, s2, S \cup {u})
  <2>1. ASSUME NEW x \in S \cup {u} PROVE \E i \in 1..m : s2[i] = x
    <3>1. CASE x = u
      BY <1>3, <3>1
    <3>2. CASE x \in S
      <4>1. PICK i \in 1..n : s[i] = x
        BY <1>1, <3>2 DEF Enumerates
      <4> QED
        BY <1>3, <4>1, SMTT(30)
    <3> QED
      BY <3>1, <3>2
  <2>2. ASSUME NEW i \in 1..m, NEW j \in 1..m, s2[i] = s2[j] PROVE i = j
    <3>1. i \in 1..n \/ i = m
      OBVIOUS
    <3>2. j \in 1..n \/ j = m
      OBVIOUS
    <3>3. CASE i \in 1..n /\ j \in 1..n
      BY <1>1, <1>3, <2>2, <3>3 DEF Enumerates
    <3> QED
      BY <1>3, <2>2, <3>1, <3>2, <3>3
  <2> QED
    BY <1>2, <2>1, <2>2 DEF Enumerates
<1>5. PartialSums(m, s2, v, p2)
  <2>1. ASSUME NEW i \in 1..m PROVE p2[i] = p2[i - 1] + v[s2[i]]
    <3>1. CASE i = m
      BY <1>1, <1>3, <3>1
    <3>2. CASE i \in 1..n
      <4>1. i - 1 \in 0..n /\ i \in 0..n
        BY <3>2
      <4>2. p[i] = p[i - 1] + w[s[i]]
        BY <1>1, <3>2 DEF PartialSums
      <4> QED
        BY <1>3, <3>2, <4>1, <4>2
    <3> QED
      BY <3>1, <3>2
  <2> QED
    BY <1>1, <1>2, <1>3, <2>1 DEF PartialSums
<1> QED
  BY <1>2, <1>3, <1>4, <1>5 DEF Sums

(***************************************************************************)
(* One element less.                                                       *)
(***************************************************************************)
LEMMA SumsMinus ==
  ASSUME NEW S, NEW w, NEW t \in Int, Sums(S, w, t), NEW u \in S, \A x \in S : w[x] \in Int,
         NEW v, \A x \in S \ {u} : v[x] = w[x]
  PROVE  Sums(S \ {u}, v, t - w[u])
<1>0. PICK n \in Nat : \E s \in [1..n -> S], p \in [0..n -> Int] :
        Enumerates(n, s, S) /\ PartialSums(n, s, w, p) /\ p[n] = t
  BY DEF Sums
<1>1. PICK s \in [1..n -> S], p \in [0..n -> Int] :
        Enumerates(n, s, S) /\ PartialSums(n, s, w, p) /\ p[n] = t
  BY <1>0
<1>2. PICK k \in 1..n : s[k] = u
  BY <1>1 DEF Enumerates
<1> DEFINE m == n - 1
           s2 == [i \in 1..m |-> IF i < k THEN s[i] ELSE s[i + 1]]
           p2 == [i \in 0..m |-> IF i < k THEN p[i] ELSE p[i + 1] - w[u]]
<1>3. m \in Nat /\ n = m + 1
  OBVIOUS
<1>4. ASSUME NEW i \in 1..n, i # k PROVE s[i] \in S \ {u}
  BY <1>1, <1>2, <1>4 DEF Enumerates
<1>5. s2 \in [1..m -> S \ {u}] /\ p2 \in [0..m -> Int]
  <2>1. ASSUME NEW i \in 1..m PROVE (IF i < k THEN s[i] ELSE s[i + 1]) \in S \ {u}
    BY <1>3, <1>4
  <2>2. ASSUME NEW i \in 0..m PROVE (IF i < k THEN p[i] ELSE p[i + 1] - w[u]) \in Int
    BY <1>3
  <2> QED
    BY <2>1, <2>2
<1>6. /\ \A i \in 1..m : s2[i] = IF i < k THEN s[i] ELSE s[i + 1]
      /\ \A i \in 0..m : p2[i] = IF i < k THEN p[i] ELSE p[i + 1] - w[u]
  OBVIOUS
<1> HIDE DEF s2, p2
<1>7. Enumerates(m, s2, S \ {u})
  <2>1. ASSUME NEW x \in S \ {u} PROVE \E i \in 1..m : s2[i] = x
    <3>1. PICK i \in 1..n : s[i] = x
      BY <1>1 DEF Enumerates
    <3>2. i # k
      BY <1>2, <3>1
    <3>3. CASE i < k
      <4>1. i \in 1..m /\ s2[i] = x
        BY <1>3, <1>6, <3>1, <3>3
      <4> QED
        BY <4>1
    <3>4. CASE i > k
      <4>1. i - 1 \in 1..m /\ ~(i - 1 < k) /\ (i - 1) + 1 = i
        BY <1>3, <3>4
      <4>2. s2[i - 1] = x
        BY <1>6, <3>1, <4>1
      <4> QED
        BY <4>1, <4>2
    <3> QED
      BY <3>2, <3>3, <3>4
  <2>2. ASSUME NEW i \in 1..m, NEW j \in 1..m, s2[i] = s2[j] PROVE i = j
    <3> DEFINE a == IF i < k THEN i ELSE i + 1
               b == IF j < k THEN j ELSE j + 1
    <3>1. a \in 1..n /\ b \in 1..n
      BY <1>3
    <3>2. s2[i] = s[a] /\ s2[j] = s[b]
      BY <1>6
    <3>3. a = b => i = j
      OBVIOUS
    <3> HIDE DEF a, b
    <3> QED
      BY <1>1, <2>2, <3>1, <3>2, <3>3 DEF Enumerates
  <2> QED
    BY <1>5, <2>1, <2>2 DEF Enumerates
<1>8. PartialSums(m, s2, v, p2)
  <2>1. ASSUME NEW i \in 1..n PROVE p[i] = p[i - 1] + w[s[i]] /\ i - 1 \in 0..n /\ p[i - 1] \in Int /\ p[i] \in Int
    BY <1>1 DEF PartialSums
  <2>2. ASSUME NEW i \in 1..m PROVE p2[i] = p2[i - 1] + v[s2[i]]
    <3>0. i \in 0..m /\ i - 1 \in 0..m /\ v[s2[i]] = w[s2[i]]
      BY <1>5
    <3>1. CASE i < k
      <4>1. i \in 1..n /\ p2[i] = p[i] /\ p2[i - 1] = p[i - 1] /\ s2[i] = s[i]
        BY <1>3, <1>6, <3>0, <3>1
      <4> QED
        BY <2>1, <3>0, <4>1
    <3>2. CASE i >= k
      <4>1. i + 1 \in 1..n /\ (i + 1) - 1 = i /\ p2[i] = p[i + 1] - w[u] /\ s2[i] = s[i + 1]
        BY <1>3, <1>6, <3>0, <3>2
      <4>2. p[i + 1] = p[i] + w[s[i + 1]] /\ p[i] \in Int /\ p[i + 1] \in Int
        BY <2>1, <4>1
      <4>3. p2[i - 1] = p[i] - w[u]
        <5>1. CASE i = k
          <6>1. p2[i - 1] = p[i - 1]
            BY <1>6, <3>0, <5>1
          <6>2. p[k] = p[k - 1] + w[u] /\ p[k - 1] \in Int
            BY <1>2, <2>1
          <6> QED
            BY <5>1, <6>1, <6>2
        <5>2. CASE i > k
          <6>1. ~(i - 1 < k) /\ (i - 1) + 1 = i
            BY <5>2
          <6> QED
            BY <1>6, <3>0, <6>1
        <5> QED
          BY <3>2, <5>1, <5>2
      <4>4. v[s2[i]] = w[s[i + 1]] /\ w[s[i + 1]] \in Int /\ w[u] \in Int
        BY <3>0, <4>1
      <4> QED
        BY <4>1, <4>2, <4>3, <4>4, SMTT(30)
    <3> QED
      BY <3>1, <3>2
  <2>3. p2[0] = 0
    BY <1>1, <1>3, <1>6 DEF PartialSums
  <2> QED
    BY <1>5, <2>2, <2>3 DEF PartialSums
<1>9. p2[m] = t - w[u]
  <2>1. CASE k = n
    <3>1. p2[m] = p[m]
      BY <1>3, <1>6, <2>1
    <3>2. p[n] = p[n - 1] + w[u] /\ p[n - 1] \in Int
      BY <1>1, <1>2, <2>1 DEF PartialSums
    <3> QED
      BY <1>1, <1>3, <3>1, <3>2
  <2>2. CASE k # n
    BY <1>1, <1>3, <1>6, <2>2
  <2> QED
    BY <2>1, <2>2
<1> QED
  BY <1>3, <1>5, <1>7, <1>8, <1>9 DEF Sums

(***************************************************************************)
(* Only the weights of the elements matter.                                *)
(***************************************************************************)
LEMMA SumsSame ==
  ASSUME NEW S, NEW w, NEW t, Sums(S, w, t), NEW v, \A x \in S : v[x] = w[x]
  PROVE  Sums(S, v, t)
<1>0. PICK n \in Nat : \E s \in [1..n -> S], p \in [0..n -> Int] :
        Enumerates(n, s, S) /\ PartialSums(n, s, w, p) /\ p[n] = t
  BY DEF Sums
<1>1. PICK s \in [1..n -> S], p \in [0..n -> Int] :
        Enumerates(n, s, S) /\ PartialSums(n, s, w, p) /\ p[n] = t
  BY <1>0
<1>2. PartialSums(n, s, v, p)
  BY <1>1 DEF PartialSums
<1> QED
  BY <1>1, <1>2 DEF Sums

(***************************************************************************)
(* The sum when one element comes, goes or changes its weight.             *)
(***************************************************************************)
LEMMA SumsMove ==
  ASSUME NEW S, NEW T, NEW g, S \ {g} = T \ {g}, NEW w, NEW v,
         \A x \in S : w[x] \in Int, \A x \in T : v[x] \in Int, \A x \in S \ {g} : v[x] = w[x],
         NEW t \in Int, Sums(S, w, t)
  PROVE  Sums(T, v, t - (IF g \in S THEN w[g] ELSE 0) + (IF g \in T THEN v[g] ELSE 0))
<1> DEFINE t1 == t - (IF g \in S THEN w[g] ELSE 0)
<1>1. Sums(S \ {g}, v, t1) /\ t1 \in Int
  <2>1. CASE g \in S
    <3>1. Sums(S \ {g}, v, t - w[g])
      BY <2>1, SumsMinus
    <3>2. t1 = t - w[g] /\ w[g] \in Int
      BY <2>1
    <3> QED
      BY <3>1, <3>2
  <2>2. CASE g \notin S
    <3>1. S \ {g} = S /\ t1 = t
      BY <2>2
    <3> QED
      BY <3>1, SumsSame
  <2> QED
    BY <2>1, <2>2
<1> HIDE DEF t1
<1>2. Sums(T, v, t1 + (IF g \in T THEN v[g] ELSE 0))
  <2>1. CASE g \in T
    <3>1. Sums((S \ {g}) \cup {g}, v, t1 + v[g])
      BY <1>1, <2>1, SumsPlus
    <3>2. (S \ {g}) \cup {g} = T
      BY <2>1
    <3> QED
      BY <2>1, <3>1, <3>2
  <2>2. CASE g \notin T
    <3>1. T = S \ {g} /\ t1 + 0 = t1
      BY <1>1, <2>2
    <3> QED
      BY <1>1, <2>2, <3>1
  <2> QED
    BY <2>1, <2>2
<1> QED
  BY <1>2 DEF t1

----------------------------------------------------------------------------
(* The gauges of metrics.go *)

\* The goroutines whose arena, scope and slab are counted.
InArena == {g \in Users : Tuned(g) /\ pc[g] \in {"add", "load", "raise", "enter", "fn", "read",
                                                 "calibrate", "exit", "close"}}
InScope == {g \in Users : req[g].active}
InSlab  == {g \in Users : Tuned(g) /\ pc[g] \in {"load", "raise", "enter", "fn", "read",
                                                 "calibrate", "exit", "close", "free"}}

Ones  == [g \in Users |-> 1]
Slabs == [g \in Users |-> req[g].size]

SumsInv ==
  /\ Sums(InArena, Ones, metrics.arenas)
  /\ Sums(InScope, Ones, metrics.scopes)
  /\ Sums(InSlab, Slabs, metrics.allocated)

One(b) == IF b THEN 1 ELSE 0

\* The gauges follow the step of g.
Follows(g) ==
  /\ metrics'.arenas = metrics.arenas - One(g \in InArena) + One(g \in InArena')
  /\ metrics'.scopes = metrics.scopes - One(g \in InScope) + One(g \in InScope')
  /\ metrics'.allocated = metrics.allocated - (IF g \in InSlab THEN req[g].size ELSE 0)
                                            + (IF g \in InSlab' THEN req'[g].size ELSE 0)

LEMMA SumsStep ==
  ASSUME LocalInv, LocalInv', SharedType, SumsInv, NEW g \in Users, Elsewhere(g), Follows(g)
  PROVE  SumsInv'
<1>1. \A u \in Users : Ones[u] = 1 /\ Slabs[u] = req[u].size /\ Slabs'[u] = req'[u].size
                       /\ req[u].size \in Int /\ req'[u].size \in Int
  <2>1. \A u \in Users : req[u] \in ReqType /\ req'[u] \in ReqType'
    BY DEF LocalInv
  <2>2. \A u \in Users : req[u].size \in Int /\ req'[u].size \in Int
    BY <2>1 DEF ReqType
  <2> QED
    BY <2>2 DEF Ones, Slabs
<1>2. /\ metrics.arenas \in Int /\ metrics.scopes \in Int /\ metrics.allocated \in Int
  BY DEF SharedType
<1>3. \A u \in Users \ {g} : /\ u \in InArena <=> u \in InArena'
                             /\ u \in InScope <=> u \in InScope'
                             /\ u \in InSlab <=> u \in InSlab'
  BY DEF InArena, InScope, InSlab, Elsewhere, Tuned
<1>4. /\ InArena \subseteq Users /\ InScope \subseteq Users /\ InSlab \subseteq Users
      /\ InArena' \subseteq Users /\ InScope' \subseteq Users /\ InSlab' \subseteq Users
  BY DEF InArena, InScope, InSlab
<1>5. /\ InArena \ {g} = InArena' \ {g}
      /\ InScope \ {g} = InScope' \ {g}
      /\ InSlab \ {g} = InSlab' \ {g}
  BY <1>3, <1>4
<1>6. Sums(InArena', Ones, metrics.arenas - One(g \in InArena) + One(g \in InArena'))
  <2>1. Sums(InArena', Ones, metrics.arenas - (IF g \in InArena THEN Ones[g] ELSE 0)
                                            + (IF g \in InArena' THEN Ones[g] ELSE 0))
    <3>1. /\ \A x \in InArena : Ones[x] \in Int
          /\ \A x \in InArena' : Ones[x] \in Int
          /\ \A x \in InArena \ {g} : Ones[x] = Ones[x]
      BY <1>1, <1>4
    <3>2. Sums(InArena, Ones, metrics.arenas) /\ metrics.arenas \in Int /\ InArena \ {g} = InArena' \ {g}
      BY <1>2, <1>5 DEF SumsInv
    <3> QED
      BY <3>1, <3>2, SumsMove
  <2> QED
    BY <1>1, <2>1 DEF One
<1>7. Sums(InScope', Ones, metrics.scopes - One(g \in InScope) + One(g \in InScope'))
  <2>1. Sums(InScope', Ones, metrics.scopes - (IF g \in InScope THEN Ones[g] ELSE 0)
                                            + (IF g \in InScope' THEN Ones[g] ELSE 0))
    <3>1. /\ \A x \in InScope : Ones[x] \in Int
          /\ \A x \in InScope' : Ones[x] \in Int
          /\ \A x \in InScope \ {g} : Ones[x] = Ones[x]
      BY <1>1, <1>4
    <3>2. Sums(InScope, Ones, metrics.scopes) /\ metrics.scopes \in Int /\ InScope \ {g} = InScope' \ {g}
      BY <1>2, <1>5 DEF SumsInv
    <3> QED
      BY <3>1, <3>2, SumsMove
  <2> QED
    BY <1>1, <2>1 DEF One
<1>8. Sums(InSlab', Slabs', metrics'.allocated)
  <2>1. \A u \in InSlab \ {g} : Slabs'[u] = Slabs[u]
    BY <1>1, <1>4 DEF Elsewhere
  <2>2. Sums(InSlab', Slabs', metrics.allocated - (IF g \in InSlab THEN Slabs[g] ELSE 0)
                                                + (IF g \in InSlab' THEN Slabs'[g] ELSE 0))
    <3>1. /\ \A x \in InSlab : Slabs[x] \in Int
          /\ \A x \in InSlab' : Slabs'[x] \in Int
          /\ \A x \in InSlab \ {g} : Slabs'[x] = Slabs[x]
      BY <1>1, <1>4, <2>1
    <3>2. Sums(InSlab, Slabs, metrics.allocated) /\ metrics.allocated \in Int /\ InSlab \ {g} = InSlab' \ {g}
      BY <1>2, <1>5 DEF SumsInv
    <3> QED
      BY <3>1, <3>2, SumsMove
  <2> QED
    BY <1>1, <2>2 DEF Follows
<1>9. Ones' = Ones
  BY DEF Ones
<1> QED
  BY <1>6, <1>7, <1>8, <1>9 DEF SumsInv, Follows

LEMMA GaugeSets ==
  ASSUME NEW g \in Users
  PROVE  /\ g \in InArena <=> /\ req[g].key # NoKey
                              /\ pc[g] \in {"add", "load", "raise", "enter", "fn", "read",
                                            "calibrate", "exit", "close"}
         /\ g \in InArena' <=> /\ req'[g].key # NoKey
                               /\ pc'[g] \in {"add", "load", "raise", "enter", "fn", "read",
                                              "calibrate", "exit", "close"}
         /\ g \in InScope <=> req[g].active
         /\ g \in InScope' <=> req'[g].active
         /\ g \in InSlab <=> /\ req[g].key # NoKey
                             /\ pc[g] \in {"load", "raise", "enter", "fn", "read",
                                           "calibrate", "exit", "close", "free"}
         /\ g \in InSlab' <=> /\ req'[g].key # NoKey
                              /\ pc'[g] \in {"load", "raise", "enter", "fn", "read",
                                             "calibrate", "exit", "close", "free"}
BY DEF InArena, InScope, InSlab, Tuned

(***************************************************************************)
(* One atomic step on the counters.                                        *)
(***************************************************************************)
LEMMA GaugeSteps ==
  ASSUME SharedType, NEW d \in Int
  PROVE  /\ CountArena(d) => /\ metrics'.arenas = metrics.arenas + d
                             /\ metrics'.scopes = metrics.scopes
                             /\ metrics'.allocated = metrics.allocated /\ metrics'.high = metrics.high
         /\ CountScope(d) => /\ metrics'.arenas = metrics.arenas
                             /\ metrics'.scopes = metrics.scopes + d
                             /\ metrics'.allocated = metrics.allocated /\ metrics'.high = metrics.high
         /\ AddAllocated(d) => /\ metrics'.arenas = metrics.arenas
                               /\ metrics'.scopes = metrics.scopes
                               /\ metrics'.allocated = metrics.allocated + d /\ metrics'.high = metrics.high
         /\ CountArena(d) \/ CountScope(d) \/ AddAllocated(d) =>
              metrics' \in [arenas : Int, scopes : Int, allocated : Int, high : Int]
         /\ metrics.arenas \in Int /\ metrics.scopes \in Int /\ metrics.allocated \in Int /\ metrics.high \in Int
<1>1. /\ metrics \in [arenas : Int, scopes : Int, allocated : Int, high : Int]
      /\ metrics.arenas \in Int /\ metrics.scopes \in Int /\ metrics.allocated \in Int /\ metrics.high \in Int
  BY DEF SharedType
<1>2. ASSUME CountArena(d)
      PROVE  /\ metrics'.arenas = metrics.arenas + d /\ metrics'.scopes = metrics.scopes
             /\ metrics'.allocated = metrics.allocated /\ metrics'.high = metrics.high
             /\ metrics' \in [arenas : Int, scopes : Int, allocated : Int, high : Int]
  BY <1>1, <1>2 DEF CountArena
<1>3. ASSUME CountScope(d)
      PROVE  /\ metrics'.arenas = metrics.arenas /\ metrics'.scopes = metrics.scopes + d
             /\ metrics'.allocated = metrics.allocated /\ metrics'.high = metrics.high
             /\ metrics' \in [arenas : Int, scopes : Int, allocated : Int, high : Int]
  BY <1>1, <1>3 DEF CountScope
<1>4. ASSUME AddAllocated(d)
      PROVE  /\ metrics'.arenas = metrics.arenas /\ metrics'.scopes = metrics.scopes
             /\ metrics'.allocated = metrics.allocated + d /\ metrics'.high = metrics.high
             /\ metrics' \in [arenas : Int, scopes : Int, allocated : Int, high : Int]
  BY <1>1, <1>4 DEF AddAllocated
<1> QED
  BY <1>1, <1>2, <1>3, <1>4

\* What a step of g does to the counters, and to nobody's slab on the way to the high-water mark.
Counts(g) ==
  /\ Follows(g) /\ metrics'.high = metrics.high /\ peak' = peak
  /\ metrics' \in [arenas : Int, scopes : Int, allocated : Int, high : Int]
  /\ pc[g] \notin {"load", "raise"} /\ pc'[g] \notin {"load", "raise"}

LEMMA WithAutoTunedScopeCounts ==
  ASSUME Local, NEW g \in Users, NEW k \in Keys, WithAutoTunedScope(g, k)
  PROVE  Counts(g)
<1>1. LocalInv' /\ Elsewhere(g)
  BY WithAutoTunedScopeLocal
<1>2. /\ req[g] \in ReqType /\ ReqAt(pc[g], req[g]) /\ ReqAt(pc'[g], req'[g])
      /\ SharedType /\ req[g].size \in Int
  BY <1>1, ReqTyped DEF Local, LocalInv, ReqType
<1>3. req[g].active \in BOOLEAN /\ (req[g].active => pc[g] \in {"fn", "read", "calibrate", "leave", "exit"})
  BY <1>2 DEF ReqAt, ReqType
<1>4. /\ pc[g] \in {"create", "calibrate", "close", "free"} => req[g].key # NoKey
      /\ pc[g] = "leave" => req[g].key = NoKey
      /\ pc[g] = "exit" => req[g].active \/ req[g].key # NoKey
      /\ pc[g] = "idle" => req[g].key = NoKey /\ ~req[g].active
  BY <1>2 DEF ReqAt, NoReq
<1>5. metrics' = metrics /\ peak' = peak
  BY DEF WithAutoTunedScope
<1>6. /\ Follows(g) /\ metrics'.high = metrics.high
      /\ metrics' \in [arenas : Int, scopes : Int, allocated : Int, high : Int]
  <2>1. pc[g] = "idle" /\ pc'[g] = "size" /\ ~req'[g].active
    BY WithAutoTunedScopeLocal
  <2>2. ~req[g].active /\ req[g].key = NoKey
    BY <1>4, <2>1
  <2> QED
    BY <1>2, <1>5, <2>1, <2>2, GaugeSteps, GaugeSets DEF Follows, One, SharedType
<1>7. pc[g] \notin {"load", "raise"} /\ pc'[g] \notin {"load", "raise"}
  BY WithAutoTunedScopeLocal DEF Tuned
<1> QED
  BY <1>5, <1>6, <1>7 DEF Counts

LEMMA RecommendedSizeCounts ==
  ASSUME Local, NEW g \in Users, RecommendedSize(g)
  PROVE  Counts(g)
<1>1. LocalInv' /\ Elsewhere(g)
  BY RecommendedSizeLocal
<1>2. /\ req[g] \in ReqType /\ ReqAt(pc[g], req[g]) /\ ReqAt(pc'[g], req'[g])
      /\ SharedType /\ req[g].size \in Int
  BY <1>1, ReqTyped DEF Local, LocalInv, ReqType
<1>3. req[g].active \in BOOLEAN /\ (req[g].active => pc[g] \in {"fn", "read", "calibrate", "leave", "exit"})
  BY <1>2 DEF ReqAt, ReqType
<1>4. /\ pc[g] \in {"create", "calibrate", "close", "free"} => req[g].key # NoKey
      /\ pc[g] = "leave" => req[g].key = NoKey
      /\ pc[g] = "exit" => req[g].active \/ req[g].key # NoKey
      /\ pc[g] = "idle" => req[g].key = NoKey /\ ~req[g].active
  BY <1>2 DEF ReqAt, NoReq
<1>5. metrics' = metrics /\ peak' = peak
  BY DEF RecommendedSize
<1>6. /\ Follows(g) /\ metrics'.high = metrics.high
      /\ metrics' \in [arenas : Int, scopes : Int, allocated : Int, high : Int]
  BY <1>2, <1>3, <1>4, <1>5, RecommendedSizeLocal, GaugeSteps, GaugeSets DEF Follows, One, Kept, NoReq, Tuned, SharedType
<1>7. pc[g] \notin {"load", "raise"} /\ pc'[g] \notin {"load", "raise"}
  BY RecommendedSizeLocal DEF Tuned
<1> QED
  BY <1>5, <1>6, <1>7 DEF Counts

LEMMA HTTPMiddlewareCounts ==
  ASSUME Local, NEW g \in Users, HTTPMiddleware(g)
  PROVE  Counts(g)
<1>1. LocalInv' /\ Elsewhere(g)
  BY HTTPMiddlewareLocal
<1>2. /\ req[g] \in ReqType /\ ReqAt(pc[g], req[g]) /\ ReqAt(pc'[g], req'[g])
      /\ SharedType /\ req[g].size \in Int
  BY <1>1, ReqTyped DEF Local, LocalInv, ReqType
<1>3. req[g].active \in BOOLEAN /\ (req[g].active => pc[g] \in {"fn", "read", "calibrate", "leave", "exit"})
  BY <1>2 DEF ReqAt, ReqType
<1>4. /\ pc[g] \in {"create", "calibrate", "close", "free"} => req[g].key # NoKey
      /\ pc[g] = "leave" => req[g].key = NoKey
      /\ pc[g] = "exit" => req[g].active \/ req[g].key # NoKey
      /\ pc[g] = "idle" => req[g].key = NoKey /\ ~req[g].active
  BY <1>2 DEF ReqAt, NoReq
<1>5. metrics' = metrics /\ peak' = peak
  BY DEF HTTPMiddleware
<1>6. /\ Follows(g) /\ metrics'.high = metrics.high
      /\ metrics' \in [arenas : Int, scopes : Int, allocated : Int, high : Int]
  BY <1>2, <1>3, <1>4, <1>5, HTTPMiddlewareLocal, GaugeSteps, GaugeSets DEF Follows, One, Kept, NoReq, Tuned, SharedType
<1>7. pc[g] \notin {"load", "raise"} /\ pc'[g] \notin {"load", "raise"}
  BY HTTPMiddlewareLocal DEF Tuned
<1> QED
  BY <1>5, <1>6, <1>7 DEF Counts

LEMMA DoScopeCounts ==
  ASSUME Local, NEW g \in Users, NEW n \in ContentLengths, DoScope(g, n)
  PROVE  Counts(g)
<1>1. LocalInv' /\ Elsewhere(g)
  BY DoScopeLocal
<1>2. /\ req[g] \in ReqType /\ ReqAt(pc[g], req[g]) /\ ReqAt(pc'[g], req'[g])
      /\ SharedType /\ req[g].size \in Int
  BY <1>1, ReqTyped DEF Local, LocalInv, ReqType
<1>3. req[g].active \in BOOLEAN /\ (req[g].active => pc[g] \in {"fn", "read", "calibrate", "leave", "exit"})
  BY <1>2 DEF ReqAt, ReqType
<1>4. /\ pc[g] \in {"create", "calibrate", "close", "free"} => req[g].key # NoKey
      /\ pc[g] = "leave" => req[g].key = NoKey
      /\ pc[g] = "exit" => req[g].active \/ req[g].key # NoKey
      /\ pc[g] = "idle" => req[g].key = NoKey /\ ~req[g].active
  BY <1>2 DEF ReqAt, NoReq
<1>5. metrics' = metrics /\ peak' = peak
  BY DEF DoScope
<1>6. /\ Follows(g) /\ metrics'.high = metrics.high
      /\ metrics' \in [arenas : Int, scopes : Int, allocated : Int, high : Int]
  BY <1>2, <1>3, <1>4, <1>5, DoScopeLocal, GaugeSteps, GaugeSets DEF Follows, One, Kept, NoReq, Tuned, SharedType
<1>7. pc[g] \notin {"load", "raise"} /\ pc'[g] \notin {"load", "raise"}
  BY DoScopeLocal DEF Tuned
<1> QED
  BY <1>5, <1>6, <1>7 DEF Counts

LEMMA ReadResponseBodyCounts ==
  ASSUME Local, NEW g \in Users, NEW n \in 0..TmpSize, NEW err \in {"none", "EOF", "fail"}, ReadResponseBody(g, n, err)
  PROVE  Counts(g)
<1>1. LocalInv' /\ Elsewhere(g)
  BY ReadResponseBodyLocal
<1>2. /\ req[g] \in ReqType /\ ReqAt(pc[g], req[g]) /\ ReqAt(pc'[g], req'[g])
      /\ SharedType /\ req[g].size \in Int
  BY <1>1, ReqTyped DEF Local, LocalInv, ReqType
<1>3. req[g].active \in BOOLEAN /\ (req[g].active => pc[g] \in {"fn", "read", "calibrate", "leave", "exit"})
  BY <1>2 DEF ReqAt, ReqType
<1>4. /\ pc[g] \in {"create", "calibrate", "close", "free"} => req[g].key # NoKey
      /\ pc[g] = "leave" => req[g].key = NoKey
      /\ pc[g] = "exit" => req[g].active \/ req[g].key # NoKey
      /\ pc[g] = "idle" => req[g].key = NoKey /\ ~req[g].active
  BY <1>2 DEF ReqAt, NoReq
<1>5. metrics' = metrics /\ peak' = peak
  BY DEF ReadResponseBody
<1>6. /\ Follows(g) /\ metrics'.high = metrics.high
      /\ metrics' \in [arenas : Int, scopes : Int, allocated : Int, high : Int]
  BY <1>2, <1>3, <1>4, <1>5, ReadResponseBodyLocal, GaugeSteps, GaugeSets DEF Follows, One, Kept, NoReq, Tuned, SharedType
<1>7. pc[g] \notin {"load", "raise"} /\ pc'[g] \notin {"load", "raise"}
  BY ReadResponseBodyLocal DEF Tuned
<1> QED
  BY <1>5, <1>6, <1>7 DEF Counts

LEMMA FnReturnsCounts ==
  ASSUME Local, NEW g \in Users, FnReturns(g)
  PROVE  Counts(g)
<1>1. LocalInv' /\ Elsewhere(g)
  BY FnReturnsLocal
<1>2. /\ req[g] \in ReqType /\ ReqAt(pc[g], req[g]) /\ ReqAt(pc'[g], req'[g])
      /\ SharedType /\ req[g].size \in Int
  BY <1>1, ReqTyped DEF Local, LocalInv, ReqType
<1>3. req[g].active \in BOOLEAN /\ (req[g].active => pc[g] \in {"fn", "read", "calibrate", "leave", "exit"})
  BY <1>2 DEF ReqAt, ReqType
<1>4. /\ pc[g] \in {"create", "calibrate", "close", "free"} => req[g].key # NoKey
      /\ pc[g] = "leave" => req[g].key = NoKey
      /\ pc[g] = "exit" => req[g].active \/ req[g].key # NoKey
      /\ pc[g] = "idle" => req[g].key = NoKey /\ ~req[g].active
  BY <1>2 DEF ReqAt, NoReq
<1>5. metrics' = metrics /\ peak' = peak
  BY DEF FnReturns
<1>6. /\ Follows(g) /\ metrics'.high = metrics.high
      /\ metrics' \in [arenas : Int, scopes : Int, allocated : Int, high : Int]
  BY <1>2, <1>3, <1>4, <1>5, FnReturnsLocal, GaugeSteps, GaugeSets DEF Follows, One, Kept, NoReq, Tuned, SharedType
<1>7. pc[g] \notin {"load", "raise"} /\ pc'[g] \notin {"load", "raise"}
  BY FnReturnsLocal DEF Tuned
<1> QED
  BY <1>5, <1>6, <1>7 DEF Counts

LEMMA FnPanicsCounts ==
  ASSUME Local, NEW g \in Users, FnPanics(g)
  PROVE  Counts(g)
<1>1. LocalInv' /\ Elsewhere(g)
  BY FnPanicsLocal
<1>2. /\ req[g] \in ReqType /\ ReqAt(pc[g], req[g]) /\ ReqAt(pc'[g], req'[g])
      /\ SharedType /\ req[g].size \in Int
  BY <1>1, ReqTyped DEF Local, LocalInv, ReqType
<1>3. req[g].active \in BOOLEAN /\ (req[g].active => pc[g] \in {"fn", "read", "calibrate", "leave", "exit"})
  BY <1>2 DEF ReqAt, ReqType
<1>4. /\ pc[g] \in {"create", "calibrate", "close", "free"} => req[g].key # NoKey
      /\ pc[g] = "leave" => req[g].key = NoKey
      /\ pc[g] = "exit" => req[g].active \/ req[g].key # NoKey
      /\ pc[g] = "idle" => req[g].key = NoKey /\ ~req[g].active
  BY <1>2 DEF ReqAt, NoReq
<1>5. metrics' = metrics /\ peak' = peak
  BY DEF FnPanics
<1>6. /\ Follows(g) /\ metrics'.high = metrics.high
      /\ metrics' \in [arenas : Int, scopes : Int, allocated : Int, high : Int]
  BY <1>2, <1>3, <1>4, <1>5, FnPanicsLocal, GaugeSteps, GaugeSets DEF Follows, One, Kept, NoReq, Tuned, SharedType
<1>7. pc[g] \notin {"load", "raise"} /\ pc'[g] \notin {"load", "raise"}
  BY FnPanicsLocal DEF Tuned
<1> QED
  BY <1>5, <1>6, <1>7 DEF Counts

LEMMA CalibrateSiteCounts ==
  ASSUME Local, NEW g \in Users, CalibrateSite(g)
  PROVE  Counts(g)
<1>1. LocalInv' /\ Elsewhere(g)
  BY CalibrateSiteLocal
<1>2. /\ req[g] \in ReqType /\ ReqAt(pc[g], req[g]) /\ ReqAt(pc'[g], req'[g])
      /\ SharedType /\ req[g].size \in Int
  BY <1>1, ReqTyped DEF Local, LocalInv, ReqType
<1>3. req[g].active \in BOOLEAN /\ (req[g].active => pc[g] \in {"fn", "read", "calibrate", "leave", "exit"})
  BY <1>2 DEF ReqAt, ReqType
<1>4. /\ pc[g] \in {"create", "calibrate", "close", "free"} => req[g].key # NoKey
      /\ pc[g] = "leave" => req[g].key = NoKey
      /\ pc[g] = "exit" => req[g].active \/ req[g].key # NoKey
      /\ pc[g] = "idle" => req[g].key = NoKey /\ ~req[g].active
  BY <1>2 DEF ReqAt, NoReq
<1>5. metrics' = metrics /\ peak' = peak
  BY DEF CalibrateSite
<1>6. /\ Follows(g) /\ metrics'.high = metrics.high
      /\ metrics' \in [arenas : Int, scopes : Int, allocated : Int, high : Int]
  BY <1>2, <1>3, <1>4, <1>5, CalibrateSiteLocal, GaugeSteps, GaugeSets DEF Follows, One, Kept, NoReq, Tuned, SharedType
<1>7. pc[g] \notin {"load", "raise"} /\ pc'[g] \notin {"load", "raise"}
  BY CalibrateSiteLocal DEF Tuned
<1> QED
  BY <1>5, <1>6, <1>7 DEF Counts

LEMMA LeaveCounts ==
  ASSUME Local, NEW g \in Users, Leave(g)
  PROVE  Counts(g)
<1>1. LocalInv' /\ Elsewhere(g)
  BY LeaveLocal
<1>2. /\ req[g] \in ReqType /\ ReqAt(pc[g], req[g]) /\ ReqAt(pc'[g], req'[g])
      /\ SharedType /\ req[g].size \in Int
  BY <1>1, ReqTyped DEF Local, LocalInv, ReqType
<1>3. req[g].active \in BOOLEAN /\ (req[g].active => pc[g] \in {"fn", "read", "calibrate", "leave", "exit"})
  BY <1>2 DEF ReqAt, ReqType
<1>4. /\ pc[g] \in {"create", "calibrate", "close", "free"} => req[g].key # NoKey
      /\ pc[g] = "leave" => req[g].key = NoKey
      /\ pc[g] = "exit" => req[g].active \/ req[g].key # NoKey
      /\ pc[g] = "idle" => req[g].key = NoKey /\ ~req[g].active
  BY <1>2 DEF ReqAt, NoReq
<1>5. metrics' = metrics /\ peak' = peak
  BY DEF Leave
<1>6. /\ Follows(g) /\ metrics'.high = metrics.high
      /\ metrics' \in [arenas : Int, scopes : Int, allocated : Int, high : Int]
  BY <1>2, <1>3, <1>4, <1>5, LeaveLocal, GaugeSteps, GaugeSets DEF Follows, One, Kept, NoReq, Tuned, SharedType
<1>7. pc[g] \notin {"load", "raise"} /\ pc'[g] \notin {"load", "raise"}
  BY LeaveLocal DEF Tuned
<1> QED
  BY <1>5, <1>6, <1>7 DEF Counts

LEMMA ExitPanicsCounts ==
  ASSUME Local, NEW g \in Users, ExitPanics(g)
  PROVE  Counts(g)
<1>1. LocalInv' /\ Elsewhere(g)
  BY ExitPanicsLocal
<1>2. /\ req[g] \in ReqType /\ ReqAt(pc[g], req[g]) /\ ReqAt(pc'[g], req'[g])
      /\ SharedType /\ req[g].size \in Int
  BY <1>1, ReqTyped DEF Local, LocalInv, ReqType
<1>3. req[g].active \in BOOLEAN /\ (req[g].active => pc[g] \in {"fn", "read", "calibrate", "leave", "exit"})
  BY <1>2 DEF ReqAt, ReqType
<1>4. /\ pc[g] \in {"create", "calibrate", "close", "free"} => req[g].key # NoKey
      /\ pc[g] = "leave" => req[g].key = NoKey
      /\ pc[g] = "exit" => req[g].active \/ req[g].key # NoKey
      /\ pc[g] = "idle" => req[g].key = NoKey /\ ~req[g].active
  BY <1>2 DEF ReqAt, NoReq
<1>5. metrics' = metrics /\ peak' = peak
  BY DEF ExitPanics
<1>6. /\ Follows(g) /\ metrics'.high = metrics.high
      /\ metrics' \in [arenas : Int, scopes : Int, allocated : Int, high : Int]
  BY <1>2, <1>3, <1>4, <1>5, ExitPanicsLocal, GaugeSteps, GaugeSets DEF Follows, One, Kept, NoReq, Tuned, SharedType
<1>7. pc[g] \notin {"load", "raise"} /\ pc'[g] \notin {"load", "raise"}
  BY ExitPanicsLocal DEF Tuned
<1> QED
  BY <1>5, <1>6, <1>7 DEF Counts

LEMMA RecordArenaCounts ==
  ASSUME Local, NEW g \in Users, RecordArena(g)
  PROVE  Counts(g)
<1>1. LocalInv' /\ Elsewhere(g)
  BY RecordArenaLocal
<1>2. /\ req[g] \in ReqType /\ ReqAt(pc[g], req[g]) /\ ReqAt(pc'[g], req'[g])
      /\ SharedType /\ req[g].size \in Int
  BY <1>1, ReqTyped DEF Local, LocalInv, ReqType
<1>3. req[g].active \in BOOLEAN /\ (req[g].active => pc[g] \in {"fn", "read", "calibrate", "leave", "exit"})
  BY <1>2 DEF ReqAt, ReqType
<1>4. /\ pc[g] \in {"create", "calibrate", "close", "free"} => req[g].key # NoKey
      /\ pc[g] = "leave" => req[g].key = NoKey
      /\ pc[g] = "exit" => req[g].active \/ req[g].key # NoKey
      /\ pc[g] = "idle" => req[g].key = NoKey /\ ~req[g].active
  BY <1>2 DEF ReqAt, NoReq
<1>5. CountArena(1) /\ peak' = peak
  BY DEF RecordArena
<1>6. /\ Follows(g) /\ metrics'.high = metrics.high
      /\ metrics' \in [arenas : Int, scopes : Int, allocated : Int, high : Int]
  BY <1>2, <1>3, <1>4, <1>5, RecordArenaLocal, GaugeSteps, GaugeSets DEF Follows, One, Kept, NoReq, Tuned
<1>7. pc[g] \notin {"load", "raise"} /\ pc'[g] \notin {"load", "raise"}
  BY RecordArenaLocal DEF Tuned
<1> QED
  BY <1>5, <1>6, <1>7 DEF Counts

LEMMA CloseArenaCounts ==
  ASSUME Local, NEW g \in Users, CloseArena(g)
  PROVE  Counts(g)
<1>1. LocalInv' /\ Elsewhere(g)
  BY CloseArenaLocal
<1>2. /\ req[g] \in ReqType /\ ReqAt(pc[g], req[g]) /\ ReqAt(pc'[g], req'[g])
      /\ SharedType /\ req[g].size \in Int
  BY <1>1, ReqTyped DEF Local, LocalInv, ReqType
<1>3. req[g].active \in BOOLEAN /\ (req[g].active => pc[g] \in {"fn", "read", "calibrate", "leave", "exit"})
  BY <1>2 DEF ReqAt, ReqType
<1>4. /\ pc[g] \in {"create", "calibrate", "close", "free"} => req[g].key # NoKey
      /\ pc[g] = "leave" => req[g].key = NoKey
      /\ pc[g] = "exit" => req[g].active \/ req[g].key # NoKey
      /\ pc[g] = "idle" => req[g].key = NoKey /\ ~req[g].active
  BY <1>2 DEF ReqAt, NoReq
<1>5. CountArena(-1) /\ peak' = peak
  BY DEF CloseArena
<1>6. /\ Follows(g) /\ metrics'.high = metrics.high
      /\ metrics' \in [arenas : Int, scopes : Int, allocated : Int, high : Int]
  BY <1>2, <1>3, <1>4, <1>5, CloseArenaLocal, GaugeSteps, GaugeSets DEF Follows, One, Kept, NoReq, Tuned
<1>7. pc[g] \notin {"load", "raise"} /\ pc'[g] \notin {"load", "raise"}
  BY CloseArenaLocal DEF Tuned
<1> QED
  BY <1>5, <1>6, <1>7 DEF Counts

LEMMA EnterScopeCounts ==
  ASSUME Local, NEW g \in Users, EnterScope(g)
  PROVE  Counts(g)
<1>1. LocalInv' /\ Elsewhere(g)
  BY EnterScopeLocal
<1>2. /\ req[g] \in ReqType /\ ReqAt(pc[g], req[g]) /\ ReqAt(pc'[g], req'[g])
      /\ SharedType /\ req[g].size \in Int
  BY <1>1, ReqTyped DEF Local, LocalInv, ReqType
<1>3. req[g].active \in BOOLEAN /\ (req[g].active => pc[g] \in {"fn", "read", "calibrate", "leave", "exit"})
  BY <1>2 DEF ReqAt, ReqType
<1>4. /\ pc[g] \in {"create", "calibrate", "close", "free"} => req[g].key # NoKey
      /\ pc[g] = "leave" => req[g].key = NoKey
      /\ pc[g] = "exit" => req[g].active \/ req[g].key # NoKey
      /\ pc[g] = "idle" => req[g].key = NoKey /\ ~req[g].active
  BY <1>2 DEF ReqAt, NoReq
<1>5. CountScope(1) /\ peak' = peak
  BY DEF EnterScope
<1>6. /\ Follows(g) /\ metrics'.high = metrics.high
      /\ metrics' \in [arenas : Int, scopes : Int, allocated : Int, high : Int]
  BY <1>2, <1>3, <1>4, <1>5, EnterScopeLocal, GaugeSteps, GaugeSets DEF Follows, One, Kept, NoReq, Tuned
<1>7. pc[g] \notin {"load", "raise"} /\ pc'[g] \notin {"load", "raise"}
  BY EnterScopeLocal DEF Tuned
<1> QED
  BY <1>5, <1>6, <1>7 DEF Counts

LEMMA ExitEarlyCounts ==
  ASSUME Local, NEW g \in Users, ExitEarly(g)
  PROVE  Counts(g)
<1>1. LocalInv' /\ Elsewhere(g)
  BY ExitEarlyLocal
<1>2. /\ req[g] \in ReqType /\ ReqAt(pc[g], req[g]) /\ ReqAt(pc'[g], req'[g])
      /\ SharedType /\ req[g].size \in Int
  BY <1>1, ReqTyped DEF Local, LocalInv, ReqType
<1>3. req[g].active \in BOOLEAN /\ (req[g].active => pc[g] \in {"fn", "read", "calibrate", "leave", "exit"})
  BY <1>2 DEF ReqAt, ReqType
<1>4. /\ pc[g] \in {"create", "calibrate", "close", "free"} => req[g].key # NoKey
      /\ pc[g] = "leave" => req[g].key = NoKey
      /\ pc[g] = "exit" => req[g].active \/ req[g].key # NoKey
      /\ pc[g] = "idle" => req[g].key = NoKey /\ ~req[g].active
  BY <1>2 DEF ReqAt, NoReq
<1>5. CountScope(-1) /\ peak' = peak
  BY DEF ExitEarly
<1>6. /\ Follows(g) /\ metrics'.high = metrics.high
      /\ metrics' \in [arenas : Int, scopes : Int, allocated : Int, high : Int]
  BY <1>2, <1>3, <1>4, <1>5, ExitEarlyLocal, GaugeSteps, GaugeSets DEF Follows, One, Kept, NoReq, Tuned
<1>7. pc[g] \notin {"load", "raise"} /\ pc'[g] \notin {"load", "raise"}
  BY ExitEarlyLocal DEF Tuned
<1> QED
  BY <1>5, <1>6, <1>7 DEF Counts

LEMMA ExitCounts ==
  ASSUME Local, NEW g \in Users, Exit(g)
  PROVE  Counts(g)
<1>1. LocalInv' /\ Elsewhere(g)
  BY ExitLocal
<1>2. /\ req[g] \in ReqType /\ ReqAt(pc[g], req[g]) /\ ReqAt(pc'[g], req'[g])
      /\ SharedType /\ req[g].size \in Int
  BY <1>1, ReqTyped DEF Local, LocalInv, ReqType
<1>3. req[g].active \in BOOLEAN /\ (req[g].active => pc[g] \in {"fn", "read", "calibrate", "leave", "exit"})
  BY <1>2 DEF ReqAt, ReqType
<1>4. /\ pc[g] \in {"create", "calibrate", "close", "free"} => req[g].key # NoKey
      /\ pc[g] = "leave" => req[g].key = NoKey
      /\ pc[g] = "exit" => req[g].active \/ req[g].key # NoKey
      /\ pc[g] = "idle" => req[g].key = NoKey /\ ~req[g].active
  BY <1>2 DEF ReqAt, NoReq
<1>5. CountScope(-1) /\ peak' = peak
  BY DEF Exit
<1>6. /\ Follows(g) /\ metrics'.high = metrics.high
      /\ metrics' \in [arenas : Int, scopes : Int, allocated : Int, high : Int]
  BY <1>2, <1>3, <1>4, <1>5, ExitLocal, GaugeSteps, GaugeSets, SMTT(30) DEF Follows, One, Kept, NoReq, Tuned
<1>7. pc[g] \notin {"load", "raise"} /\ pc'[g] \notin {"load", "raise"}
  BY ExitLocal DEF Tuned
<1> QED
  BY <1>5, <1>6, <1>7 DEF Counts

LEMMA RecordFreedCounts ==
  ASSUME Local, NEW g \in Users, RecordFreed(g)
  PROVE  Counts(g)
<1>1. LocalInv' /\ Elsewhere(g)
  BY RecordFreedLocal
<1>2. /\ req[g] \in ReqType /\ ReqAt(pc[g], req[g]) /\ ReqAt(pc'[g], req'[g])
      /\ SharedType /\ req[g].size \in Int
  BY <1>1, ReqTyped DEF Local, LocalInv, ReqType
<1>3. req[g].active \in BOOLEAN /\ (req[g].active => pc[g] \in {"fn", "read", "calibrate", "leave", "exit"})
  BY <1>2 DEF ReqAt, ReqType
<1>4. /\ pc[g] \in {"create", "calibrate", "close", "free"} => req[g].key # NoKey
      /\ pc[g] = "leave" => req[g].key = NoKey
      /\ pc[g] = "exit" => req[g].active \/ req[g].key # NoKey
      /\ pc[g] = "idle" => req[g].key = NoKey /\ ~req[g].active
  BY <1>2 DEF ReqAt, NoReq
<1>5. AddAllocated(-req[g].size) /\ peak' = peak
  BY DEF RecordFreed
<1>6. /\ Follows(g) /\ metrics'.high = metrics.high
      /\ metrics' \in [arenas : Int, scopes : Int, allocated : Int, high : Int]
  <2>1. pc[g] = "free" /\ pc'[g] = "idle" /\ ~req'[g].active /\ req'[g].key = NoKey
    BY RecordFreedLocal DEF NoReq
  <2>2. ~req[g].active /\ req[g].key # NoKey
    BY <1>3, <1>4, <2>1
  <2>3. -req[g].size \in Int
    BY <1>2
  <2>4. /\ metrics'.arenas = metrics.arenas /\ metrics'.scopes = metrics.scopes
        /\ metrics'.allocated = metrics.allocated + (-req[g].size) /\ metrics'.high = metrics.high
        /\ metrics' \in [arenas : Int, scopes : Int, allocated : Int, high : Int]
        /\ metrics.arenas \in Int /\ metrics.scopes \in Int /\ metrics.allocated \in Int
    BY <1>2, <1>5, <2>3, GaugeSteps
  <2>5. /\ g \notin InArena /\ g \notin InArena' /\ g \notin InScope /\ g \notin InScope'
        /\ g \in InSlab /\ g \notin InSlab'
    BY <2>1, <2>2, GaugeSets
  <2> QED
    BY <1>2, <2>4, <2>5 DEF Follows, One
<1>7. pc[g] \notin {"load", "raise"} /\ pc'[g] \notin {"load", "raise"}
  BY RecordFreedLocal DEF Tuned
<1> QED
  BY <1>5, <1>6, <1>7 DEF Counts

----------------------------------------------------------------------------
(* The high-water mark *)

(***************************************************************************)
(* The mark is the peak, or a goroutine is on the way to raise it to the   *)
(* peak; one that failed to see a larger mark than its own value tries to  *)
(* swap it for a larger one.                                               *)
(***************************************************************************)
HighWaterInv ==
  /\ metrics.high <= peak
  /\ \A g \in Users : pc[g] \in {"load", "raise"} => req[g].cur <= peak
  /\ \A g \in Users : pc[g] = "raise" => req[g].old < req[g].cur
  /\ \/ metrics.high = peak
     \/ \E g \in Users : pc[g] \in {"load", "raise"} /\ req[g].cur = peak

GaugeInv == SumsInv /\ HighWaterInv

LEMMA LargerOfTwo ==
  ASSUME NEW a \in Int, NEW b \in Int
  PROVE  Max({a, b}) = IF a >= b THEN a ELSE b
<1> DEFINE m == IF a >= b THEN a ELSE b
<1>1. m \in {a, b} /\ \A y \in {a, b} : m >= y
  OBVIOUS
<1>2. ASSUME NEW x \in {a, b}, \A y \in {a, b} : x >= y PROVE x = m
  BY <1>2
<1> HIDE DEF m
<1>3. Max({a, b}) \in {a, b} /\ \A y \in {a, b} : Max({a, b}) >= y
  BY <1>1 DEF Max
<1> QED
  BY <1>2, <1>3 DEF m

LEMMA RequestNumbers ==
  ASSUME LocalInv, NEW g \in Users
  PROVE  req[g].cur \in Int /\ req[g].old \in Int /\ req[g].size \in Int /\ req[g].active \in BOOLEAN
BY ReqTyped DEF ReqType

(***************************************************************************)
(* A step that has nothing to do with the mark.                            *)
(***************************************************************************)
LEMMA CountsGauges ==
  ASSUME Local, GaugeInv, NEW g \in Users, LocalInv', Elsewhere(g), Counts(g)
  PROVE  GaugeInv'
<1>1. SumsInv'
  BY SumsStep DEF Local, GaugeInv, Counts
<1>2. HighWaterInv'
  <2>1. \A h \in Users : pc'[h] \in {"load", "raise"} => h # g /\ pc'[h] = pc[h] /\ req'[h] = req[h]
    BY DEF Counts, Elsewhere
  <2>2. \A h \in Users : pc[h] \in {"load", "raise"} => h # g /\ pc'[h] = pc[h] /\ req'[h] = req[h]
    BY DEF Counts, Elsewhere
  <2> QED
    BY <2>1, <2>2 DEF Counts, GaugeInv, HighWaterInv
<1> QED
  BY <1>1, <1>2 DEF GaugeInv

LEMMA RecordSlabGauges ==
  ASSUME Local, GaugeInv, NEW g \in Users, RecordSlab(g)
  PROVE  GaugeInv' /\ peak' \in Int /\ metrics' \in [arenas : Int, scopes : Int, allocated : Int, high : Int]
<1>1. /\ LocalInv' /\ Elsewhere(g) /\ pc[g] = "add" /\ pc'[g] = "load"
      /\ Kept(g) /\ req'[g].cur = metrics'.allocated
  BY RecordSlabLocal
<1>2. /\ req[g].key # NoKey /\ ~req[g].active /\ req[g].size \in Int /\ SharedType /\ LocalInv
  BY <1>1, ReqTyped, RequestNumbers DEF Local, ReqAt
<1>3. /\ AddAllocated(req[g].size) /\ peak' = Max({peak, metrics'.allocated})
  BY DEF RecordSlab
<1>4. /\ metrics'.arenas = metrics.arenas /\ metrics'.scopes = metrics.scopes
      /\ metrics'.allocated = metrics.allocated + req[g].size /\ metrics'.high = metrics.high
      /\ metrics' \in [arenas : Int, scopes : Int, allocated : Int, high : Int]
      /\ metrics.arenas \in Int /\ metrics.scopes \in Int /\ metrics.allocated \in Int /\ metrics.high \in Int
  BY <1>2, <1>3, GaugeSteps
<1>5. Follows(g)
  BY <1>1, <1>2, <1>4, GaugeSets DEF Follows, One, Kept
<1>6. SumsInv'
  BY <1>1, <1>2, <1>5, SumsStep DEF GaugeInv
<1>7. peak \in Int /\ metrics'.allocated \in Int
  BY <1>2, <1>4 DEF SharedType
<1>8. peak' = IF peak >= metrics'.allocated THEN peak ELSE metrics'.allocated
  BY <1>3, <1>7, LargerOfTwo
<1>9. HighWaterInv'
  <2>1. peak <= peak' /\ metrics'.allocated <= peak' /\ (peak' = peak \/ peak' = metrics'.allocated)
    BY <1>7, <1>8
  <2>2. metrics'.high <= peak'
    BY <1>2, <1>4, <1>7, <1>8, <2>1 DEF GaugeInv, HighWaterInv
  <2>3. ASSUME NEW h \in Users, pc'[h] \in {"load", "raise"} PROVE req'[h].cur <= peak'
    <3>1. CASE h = g
      BY <1>1, <2>1, <3>1
    <3>2. CASE h # g
      <4>1. req'[h] = req[h] /\ req[h].cur <= peak /\ req[h].cur \in Int
        BY <1>1, <1>2, <2>3, <3>2, RequestNumbers DEF Elsewhere, GaugeInv, HighWaterInv
      <4> QED
        BY <1>7, <1>8, <4>1
    <3> QED
      BY <3>1, <3>2
  <2>4. \A h \in Users : pc'[h] = "raise" => req'[h].old < req'[h].cur
    BY <1>1 DEF Elsewhere, GaugeInv, HighWaterInv
  <2>5. metrics'.high = peak' \/ \E h \in Users : pc'[h] \in {"load", "raise"} /\ req'[h].cur = peak'
    <3>1. CASE peak' = metrics'.allocated
      BY <1>1, <3>1
    <3>2. CASE peak' = peak
      BY <1>1, <1>4, <3>2 DEF Elsewhere, GaugeInv, HighWaterInv
    <3> QED
      BY <2>1, <3>1, <3>2
  <2> QED
    BY <2>2, <2>3, <2>4, <2>5 DEF HighWaterInv
<1> QED
  BY <1>4, <1>6, <1>7, <1>8, <1>9 DEF GaugeInv

LEMMA LoadHighWaterGauges ==
  ASSUME Local, GaugeInv, NEW g \in Users, LoadHighWater(g)
  PROVE  GaugeInv'
<1>1. /\ LocalInv' /\ Elsewhere(g) /\ pc[g] = "load"
      /\ pc'[g] = IF req[g].cur <= metrics.high THEN "enter" ELSE "raise"
      /\ Kept(g) /\ req'[g].cur = req[g].cur /\ req'[g].old = metrics.high
  BY LoadHighWaterLocal
<1>2. /\ req[g].key # NoKey /\ req[g].cur \in Int /\ SharedType /\ LocalInv
  BY <1>1, ReqTyped, RequestNumbers DEF Local, ReqAt
<1>3. metrics' = metrics /\ peak' = peak /\ metrics.high \in Int /\ peak \in Int
      /\ metrics.arenas \in Int /\ metrics.scopes \in Int /\ metrics.allocated \in Int /\ req[g].size \in Int
  BY <1>2, RequestNumbers DEF LoadHighWater, SharedType
<1>4. Follows(g)
  BY <1>1, <1>2, <1>3, GaugeSets DEF Follows, One, Kept
<1>5. SumsInv'
  BY <1>1, <1>2, <1>4, SumsStep DEF GaugeInv
<1>6. HighWaterInv'
  <2>1. ASSUME NEW h \in Users, pc'[h] \in {"load", "raise"}
        PROVE  req'[h].cur <= peak /\ (pc'[h] = "raise" => req'[h].old < req'[h].cur)
    <3>1. CASE h = g
      <4>1. pc'[g] = "raise" /\ ~(req[g].cur <= metrics.high)
        BY <1>1, <2>1, <3>1
      <4> QED
        BY <1>1, <1>2, <1>3, <3>1, <4>1 DEF GaugeInv, HighWaterInv
    <3>2. CASE h # g
      BY <1>1, <2>1, <3>2 DEF Elsewhere, GaugeInv, HighWaterInv
    <3> QED
      BY <3>1, <3>2
  <2>2. metrics.high = peak \/ \E h \in Users : pc'[h] \in {"load", "raise"} /\ req'[h].cur = peak
    <3>1. ASSUME NEW h \in Users, pc[h] \in {"load", "raise"}, req[h].cur = peak, metrics.high # peak
          PROVE  pc'[h] \in {"load", "raise"} /\ req'[h].cur = peak
      <4>1. CASE h = g
        <5>1. ~(req[g].cur <= metrics.high)
          BY <1>3, <3>1, <4>1 DEF GaugeInv, HighWaterInv
        <5> QED
          BY <1>1, <3>1, <4>1, <5>1
      <4>2. CASE h # g
        BY <1>1, <3>1, <4>2 DEF Elsewhere
      <4> QED
        BY <4>1, <4>2
    <3> QED
      BY <3>1 DEF GaugeInv, HighWaterInv
  <2>3. metrics.high <= peak
    BY DEF GaugeInv, HighWaterInv
  <2> QED
    BY <1>3, <2>1, <2>2, <2>3 DEF HighWaterInv
<1> QED
  BY <1>5, <1>6 DEF GaugeInv

LEMMA CompareAndSwapGauges ==
  ASSUME Local, GaugeInv, NEW g \in Users, CompareAndSwapHighWater(g)
  PROVE  GaugeInv' /\ metrics' \in [arenas : Int, scopes : Int, allocated : Int, high : Int]
<1>1. /\ LocalInv' /\ Elsewhere(g) /\ pc[g] = "raise"
      /\ pc'[g] = IF req[g].old = metrics.high THEN "enter" ELSE "load"
      /\ req'[g] = req[g]
  BY CompareAndSwapLocal
<1>2. /\ req[g].key # NoKey /\ req[g].cur \in Int /\ req[g].old \in Int /\ SharedType /\ LocalInv
      /\ req[g].size \in Int
  BY <1>1, ReqTyped, RequestNumbers DEF Local, ReqAt
<1>3. /\ metrics \in [arenas : Int, scopes : Int, allocated : Int, high : Int]
      /\ metrics.high \in Int /\ peak \in Int /\ peak' = peak
      /\ metrics.arenas \in Int /\ metrics.scopes \in Int /\ metrics.allocated \in Int
  BY <1>2 DEF CompareAndSwapHighWater, SharedType
<1>4. /\ metrics'.arenas = metrics.arenas /\ metrics'.scopes = metrics.scopes
      /\ metrics'.allocated = metrics.allocated
      /\ metrics'.high = IF req[g].old = metrics.high THEN req[g].cur ELSE metrics.high
      /\ metrics' \in [arenas : Int, scopes : Int, allocated : Int, high : Int]
  BY <1>2, <1>3 DEF CompareAndSwapHighWater, RaiseHighWater
<1>5. Follows(g)
  BY <1>1, <1>2, <1>3, <1>4, GaugeSets DEF Follows, One
<1>6. SumsInv'
  BY <1>1, <1>2, <1>5, SumsStep DEF GaugeInv
<1>7. req[g].old < req[g].cur /\ req[g].cur <= peak /\ metrics.high <= peak
  BY <1>1 DEF GaugeInv, HighWaterInv
<1>8. HighWaterInv'
  <2>1. metrics'.high <= peak
    BY <1>4, <1>7
  <2>2. ASSUME NEW h \in Users, pc'[h] \in {"load", "raise"}
        PROVE  req'[h].cur <= peak /\ (pc'[h] = "raise" => req'[h].old < req'[h].cur)
    <3>1. CASE h = g
      BY <1>1, <1>7, <2>2, <3>1
    <3>2. CASE h # g
      BY <1>1, <2>2, <3>2 DEF Elsewhere, GaugeInv, HighWaterInv
    <3> QED
      BY <3>1, <3>2
  <2>3. metrics'.high = peak \/ \E h \in Users : pc'[h] \in {"load", "raise"} /\ req'[h].cur = peak
    <3>1. CASE metrics.high = peak
      <4>1. req[g].old # metrics.high
        BY <1>2, <1>3, <1>7, <3>1
      <4> QED
        BY <1>4, <3>1, <4>1
    <3>2. ASSUME NEW h \in Users, pc[h] \in {"load", "raise"}, req[h].cur = peak
          PROVE  metrics'.high = peak \/ (pc'[h] \in {"load", "raise"} /\ req'[h].cur = peak)
      <4>1. CASE h = g
        BY <1>1, <1>4, <3>2, <4>1
      <4>2. CASE h # g
        BY <1>1, <3>2, <4>2 DEF Elsewhere
      <4> QED
        BY <4>1, <4>2
    <3> QED
      BY <3>1, <3>2 DEF GaugeInv, HighWaterInv
  <2> QED
    BY <1>3, <2>1, <2>2, <2>3 DEF HighWaterInv
<1> QED
  BY <1>4, <1>6, <1>8 DEF GaugeInv

----------------------------------------------------------------------------
(* The sites of the AutoTuner *)

(***************************************************************************)
(* The estimate of a site stays between one less than the smallest and the *)
(* largest of what its scopes used, however often the average loses a      *)
(* byte: the loss is made up for by the next sample, which is no smaller.  *)
(***************************************************************************)
SiteAt(k) ==
  /\ samples[k] \subseteq Nat \ {0}
  /\ IF samples[k] = {} THEN sites[k] = Unknown
     ELSE \E lo, hi \in samples[k] :
            /\ \A x \in samples[k] : lo <= x /\ x <= hi
            /\ lo - 1 <= sites[k] /\ sites[k] <= hi

SiteInv ==
  /\ samples \in [Keys -> SUBSET Nat]
  /\ \A k \in Keys : SiteAt(k)

LEMMA AveragesBetween ==
  ASSUME NEW old \in Int, NEW new \in Int, NEW lo \in Int, NEW hi \in Int,
         lo - 1 <= old, old <= hi, lo <= new, new <= hi, NEW e \in Averages(old, new)
  PROVE  e \in Int /\ lo - 1 <= e /\ e <= hi
<1> DEFINE tenths == 7 * old + 3 * new
           q == tenths \div 10
           r == tenths % 10
<1>1. tenths \in Int /\ 10 * lo - 7 <= tenths /\ tenths <= 10 * hi
  OBVIOUS
<1>2. e = q \/ (r = 0 /\ e = q - 1)
  BY DEF Averages
<1> HIDE DEF tenths
<1>3. q \in Int /\ r \in 0..9 /\ tenths = 10 * q + r
  BY <1>1
<1> HIDE DEF q, r
<1> QED
  BY <1>1, <1>2, <1>3

LEMMA CalibrateSiteAt ==
  ASSUME Local, SiteInv, NEW g \in Users, CalibrateSite(g)
  PROVE  SiteInv' /\ sites' \in [Keys -> Int]
<1> SUFFICES ASSUME NEW k, k = req[g].key, NEW used, used = req[g].used
             PROVE  SiteInv' /\ sites' \in [Keys -> Int]
  OBVIOUS
<1>1. k \in Keys /\ used \in Nat /\ sites \in [Keys -> Int]
  <2>1. req[g] \in ReqType /\ ReqAt("calibrate", req[g])
    BY ReqTyped DEF Local, CalibrateSite, Step
  <2> QED
    BY <2>1 DEF ReqAt, ReqType, Local, SharedType
<1>2. /\ Calibrate(k, used)
      /\ samples' = [samples EXCEPT ![k] = IF used > 0 THEN @ \cup {used} ELSE @]
  BY DEF CalibrateSite
<1>3. CASE used = 0
  <2>1. sites' = sites
    BY <1>2, <1>3 DEF Calibrate
  <2>2. samples' = samples
    BY <1>1, <1>2, <1>3 DEF SiteInv
  <2> QED
    BY <1>1, <2>1, <2>2 DEF SiteInv, SiteAt
<1>4. CASE used > 0
  <2>1. samples' \in [Keys -> SUBSET Nat] /\ samples'[k] = samples[k] \cup {used}
    BY <1>1, <1>2, <1>4 DEF SiteInv
  <2>2. \A j \in Keys \ {k} : samples'[j] = samples[j]
    BY <1>1, <1>2, <1>4 DEF SiteInv
  <2>3. SiteAt(k)
    BY <1>1 DEF SiteInv
  <2>4. /\ sites' \in [Keys -> Int] /\ \A j \in Keys \ {k} : sites'[j] = sites[j]
        /\ SiteAt(k)'
    <3>1. CASE sites[k] = Unknown
      <4>1. sites' = [sites EXCEPT ![k] = used]
        BY <1>1, <1>2, <1>4, <3>1 DEF Calibrate
      <4>2. /\ sites' \in [Keys -> Int] /\ \A j \in Keys \ {k} : sites'[j] = sites[j]
            /\ sites'[k] = used
        BY <1>1, <4>1
      <4>3. samples[k] = {}
        BY <2>3, <3>1 DEF SiteAt, Unknown
      <4>4. used \in samples'[k] /\ samples'[k] = {used}
        BY <2>1, <4>3
      <4>5. SiteAt(k)'
        BY <1>1, <1>4, <4>2, <4>4 DEF SiteAt
      <4> QED
        BY <4>2, <4>5
    <3>2. CASE sites[k] # Unknown
      <4>1. PICK e \in Averages(sites[k], used) : sites' = [sites EXCEPT ![k] = e]
        BY <1>1, <1>2, <1>4, <3>2 DEF Calibrate
      <4>2. PICK lo \in samples[k], hi \in samples[k] :
              /\ \A x \in samples[k] : lo <= x /\ x <= hi
              /\ lo - 1 <= sites[k] /\ sites[k] <= hi
        BY <2>3, <3>2 DEF SiteAt
      <4>3. samples[k] \subseteq Nat \ {0} /\ lo \in Nat \ {0} /\ hi \in Nat \ {0}
        BY <2>3 DEF SiteAt
      <4> DEFINE l == IF lo <= used THEN lo ELSE used
                 h == IF hi >= used THEN hi ELSE used
      <4>4. /\ l \in Int /\ h \in Int /\ l - 1 <= sites[k] /\ sites[k] <= h
            /\ l <= used /\ used <= h
            /\ l \in samples'[k] /\ h \in samples'[k]
        BY <1>1, <2>1, <4>2, <4>3
      <4>5. \A x \in samples'[k] : l <= x /\ x <= h
        BY <1>1, <2>1, <4>2, <4>3
      <4> HIDE DEF l, h
      <4>6. e \in Int /\ l - 1 <= e /\ e <= h
        BY <1>1, <4>4, AveragesBetween
      <4>7. /\ sites' \in [Keys -> Int] /\ \A j \in Keys \ {k} : sites'[j] = sites[j]
            /\ sites'[k] = e
        BY <1>1, <4>1, <4>6
      <4>8. samples'[k] \subseteq Nat \ {0} /\ samples'[k] # {}
        BY <1>1, <1>4, <2>1, <4>3
      <4>9. SiteAt(k)'
        BY <4>4, <4>5, <4>6, <4>7, <4>8 DEF SiteAt
      <4> QED
        BY <4>7, <4>9
    <3> QED
      BY <3>1, <3>2
  <2>5. ASSUME NEW j \in Keys PROVE SiteAt(j)'
    <3>1. CASE j = k
      BY <2>4, <3>1
    <3>2. CASE j # k
      BY <2>2, <2>4, <3>2 DEF SiteInv, SiteAt
    <3> QED
      BY <3>1, <3>2
  <2> QED
    BY <2>1, <2>4, <2>5 DEF SiteInv
<1> QED
  BY <1>1, <1>3, <1>4

----------------------------------------------------------------------------
(* The invariant of the requests *)

RequestInv == LocalInv /\ SharedType /\ GaugeInv /\ SiteInv

LEMMA RequestInvInit == Init => RequestInv
<1> SUFFICES ASSUME Init PROVE RequestInv
  OBVIOUS
<1>1. /\ metrics = NoMetrics /\ sites = [k \in Keys |-> Unknown] /\ peak = 0
      /\ pc = [g \in Users |-> "idle"] /\ req = [g \in Users |-> NoReq]
      /\ samples = [k \in Keys |-> {}]
  BY DEF Init, SitesInit
<1>2. /\ metrics \in [arenas : Int, scopes : Int, allocated : Int, high : Int]
      /\ metrics.arenas = 0 /\ metrics.scopes = 0 /\ metrics.allocated = 0 /\ metrics.high = 0
  BY <1>1 DEF NoMetrics
<1>3. LocalInv
  BY <1>1, NoReqTyped, IdleAt DEF LocalInv, Labels
<1>4. SharedType
  BY <1>1, <1>2 DEF SharedType, Unknown
<1>5. SumsInv
  <2>1. InArena = {} /\ InScope = {} /\ InSlab = {}
    BY <1>1 DEF InArena, InScope, InSlab, NoReq
  <2> QED
    BY <1>2, <2>1, SumsEmpty DEF SumsInv
<1>6. HighWaterInv
  BY <1>1, <1>2 DEF HighWaterInv
<1>7. SiteInv
  BY <1>1 DEF SiteInv, SiteAt
<1> QED
  BY <1>3, <1>4, <1>5, <1>6, <1>7 DEF RequestInv, GaugeInv

\* The steps that change neither the counters' high-water mark nor a site.
Ordinary(g) ==
  \/ \E k \in Keys : WithAutoTunedScope(g, k)
  \/ RecommendedSize(g) \/ RecordArena(g)
  \/ HTTPMiddleware(g) \/ EnterScope(g)
  \/ \E n \in ContentLengths : DoScope(g, n)
  \/ \E n \in 0..TmpSize, err \in {"none", "EOF", "fail"} : ReadResponseBody(g, n, err)
  \/ ExitEarly(g) \/ FnReturns(g) \/ FnPanics(g)
  \/ Leave(g) \/ Exit(g) \/ ExitPanics(g)
  \/ CloseArena(g) \/ RecordFreed(g)

LEMMA OrdinaryStep ==
  ASSUME Local, NEW g \in Users, Ordinary(g)
  PROVE  LocalInv' /\ Elsewhere(g) /\ Counts(g) /\ UNCHANGED <<sites, samples>>
<1>1. CASE \E k \in Keys : WithAutoTunedScope(g, k)
  BY <1>1, WithAutoTunedScopeLocal, WithAutoTunedScopeCounts DEF WithAutoTunedScope
<1>2. CASE RecommendedSize(g)
  BY <1>2, RecommendedSizeLocal, RecommendedSizeCounts DEF RecommendedSize
<1>3. CASE RecordArena(g)
  BY <1>3, RecordArenaLocal, RecordArenaCounts DEF RecordArena
<1>4. CASE HTTPMiddleware(g)
  BY <1>4, HTTPMiddlewareLocal, HTTPMiddlewareCounts DEF HTTPMiddleware
<1>5. CASE EnterScope(g)
  BY <1>5, EnterScopeLocal, EnterScopeCounts DEF EnterScope
<1>6. CASE \E n \in ContentLengths : DoScope(g, n)
  BY <1>6, DoScopeLocal, DoScopeCounts DEF DoScope
<1>7. CASE \E n \in 0..TmpSize, err \in {"none", "EOF", "fail"} : ReadResponseBody(g, n, err)
  BY <1>7, ReadResponseBodyLocal, ReadResponseBodyCounts DEF ReadResponseBody
<1>8. CASE ExitEarly(g)
  BY <1>8, ExitEarlyLocal, ExitEarlyCounts DEF ExitEarly
<1>9. CASE FnReturns(g)
  BY <1>9, FnReturnsLocal, FnReturnsCounts DEF FnReturns
<1>10. CASE FnPanics(g)
  BY <1>10, FnPanicsLocal, FnPanicsCounts DEF FnPanics
<1>11. CASE Leave(g)
  BY <1>11, LeaveLocal, LeaveCounts DEF Leave
<1>12. CASE Exit(g)
  BY <1>12, ExitLocal, ExitCounts DEF Exit
<1>13. CASE ExitPanics(g)
  BY <1>13, ExitPanicsLocal, ExitPanicsCounts DEF ExitPanics
<1>14. CASE CloseArena(g)
  BY <1>14, CloseArenaLocal, CloseArenaCounts DEF CloseArena
<1>15. CASE RecordFreed(g)
  BY <1>15, RecordFreedLocal, RecordFreedCounts DEF RecordFreed
<1> QED
  BY <1>1, <1>2, <1>3, <1>4, <1>5, <1>6, <1>7, <1>8, <1>9, <1>10, <1>11, <1>12, <1>13, <1>14, <1>15 DEF Ordinary

LEMMA RequestInvNext == RequestInv /\ [Next]_rvars => RequestInv'
<1> SUFFICES ASSUME RequestInv, [Next]_rvars PROVE RequestInv'
  OBVIOUS
<1>1. Local /\ GaugeInv /\ SiteInv /\ LocalInv /\ SharedType
  BY BufferAssumption, RequestAssumption DEF RequestInv, Local
<1>2. ASSUME NEW g \in Users, Ordinary(g) PROVE RequestInv'
  <2>1. LocalInv' /\ Elsewhere(g) /\ Counts(g) /\ UNCHANGED <<sites, samples>>
    BY <1>1, <1>2, OrdinaryStep
  <2>2. GaugeInv'
    BY <1>1, <2>1, CountsGauges
  <2>3. SharedType' /\ SiteInv'
    BY <1>1, <2>1 DEF Counts, SharedType, SiteInv, SiteAt
  <2> QED
    BY <2>1, <2>2, <2>3 DEF RequestInv
<1>3. ASSUME NEW g \in Users, RecordSlab(g) PROVE RequestInv'
  <2>1. /\ GaugeInv' /\ peak' \in Int
        /\ metrics' \in [arenas : Int, scopes : Int, allocated : Int, high : Int] /\ LocalInv'
    BY <1>1, <1>3, RecordSlabGauges, RecordSlabLocal
  <2>2. UNCHANGED <<sites, samples>>
    BY <1>3 DEF RecordSlab
  <2> QED
    BY <1>1, <2>1, <2>2 DEF RequestInv, SharedType, SiteInv, SiteAt
<1>4. ASSUME NEW g \in Users, LoadHighWater(g) PROVE RequestInv'
  <2>1. GaugeInv' /\ LocalInv'
    BY <1>1, <1>4, LoadHighWaterGauges, LoadHighWaterLocal
  <2>2. UNCHANGED <<metrics, sites, samples, peak>>
    BY <1>4 DEF LoadHighWater
  <2> QED
    BY <1>1, <2>1, <2>2 DEF RequestInv, SharedType, SiteInv, SiteAt
<1>5. ASSUME NEW g \in Users, CompareAndSwapHighWater(g) PROVE RequestInv'
  <2>1. /\ GaugeInv' /\ LocalInv'
        /\ metrics' \in [arenas : Int, scopes : Int, allocated : Int, high : Int]
    BY <1>1, <1>5, CompareAndSwapGauges, CompareAndSwapLocal
  <2>2. UNCHANGED <<sites, samples, peak>>
    BY <1>5 DEF CompareAndSwapHighWater
  <2> QED
    BY <1>1, <2>1, <2>2 DEF RequestInv, SharedType, SiteInv, SiteAt
<1>6. ASSUME NEW g \in Users, CalibrateSite(g) PROVE RequestInv'
  <2>1. LocalInv' /\ Elsewhere(g) /\ Counts(g)
    BY <1>1, <1>6, CalibrateSiteLocal, CalibrateSiteCounts
  <2>2. SiteInv' /\ sites' \in [Keys -> Int]
    BY <1>1, <1>6, CalibrateSiteAt
  <2>3. GaugeInv'
    BY <1>1, <2>1, CountsGauges
  <2> QED
    BY <1>1, <2>1, <2>2, <2>3 DEF RequestInv, SharedType, Counts
<1>7. ASSUME UNCHANGED <<metrics, sites, pc, req, peak, samples>> PROVE RequestInv'
  <2>1. LocalInv' /\ SharedType'
    BY <1>1, <1>7 DEF LocalInv, SharedType, ReqAt, Reading, Whole
  <2>2. InArena' = InArena /\ InScope' = InScope /\ InSlab' = InSlab /\ Slabs' = Slabs
    BY <1>7 DEF InArena, InScope, InSlab, Slabs, Tuned
  <2>3. GaugeInv'
    BY <1>1, <1>7, <2>2 DEF GaugeInv, SumsInv, HighWaterInv
  <2>4. SiteInv'
    BY <1>1, <1>7 DEF SiteInv, SiteAt
  <2> QED
    BY <2>1, <2>3, <2>4 DEF RequestInv
<1>8. ASSUME NEW g \in Users, UseSession(g) PROVE RequestInv'
  BY <1>7, <1>8 DEF UseSession
<1>9. ASSUME UNCHANGED rvars PROVE RequestInv'
  BY <1>7, <1>9 DEF rvars
<1> QED
  BY <1>2, <1>3, <1>4, <1>5, <1>6, <1>8, <1>9 DEF Next, Ordinary

LEMMA RequestInvariant == Spec => []RequestInv
BY RequestInvInit, RequestInvNext, PTL DEF Spec

(***************************************************************************)
(* The gauges of metrics.go return to zero and its high-water mark is the  *)
(* peak, for any number of requests, however they end and however their    *)
(* steps on the counters interleave.                                       *)
(***************************************************************************)
THEOREM RequestCountersExact == Spec => []CountersExact
<1>1. RequestInv => CountersExact
  <2> SUFFICES ASSUME RequestInv PROVE CountersExact
    OBVIOUS
  <2>1. LocalInv /\ SumsInv /\ HighWaterInv
    BY DEF RequestInv, GaugeInv
  <2>2. ASSUME \A g \in Users : pc[g] = "idle"
        PROVE  metrics.arenas = 0 /\ metrics.scopes = 0 /\ metrics.allocated = 0
    <3>1. \A g \in Users : req[g] = NoReq
      BY <2>1, <2>2 DEF LocalInv, ReqAt
    <3>2. InArena = {} /\ InScope = {} /\ InSlab = {}
      BY <2>2, <3>1 DEF InArena, InScope, InSlab, NoReq
    <3> QED
      BY <2>1, <3>2, SumsEmpty DEF SumsInv
  <2>3. HighWaterExact
    BY <2>1 DEF HighWaterInv, HighWaterExact
  <2> QED
    BY <2>2, <2>3 DEF CountersExact, GaugesReturnToZero
<1> QED
  BY <1>1, RequestInvariant, PTL

(***************************************************************************)
(* RecommendedSize proposes a slab that holds at least what the smallest   *)
(* scope of the site used, up to MaxSlab and the rest of its last page.    *)
(***************************************************************************)
THEOREM SlabsFitSites == Spec => []SlabFitsSite
<1>1. RequestInv => SlabFitsSite
  <2> SUFFICES ASSUME RequestInv, NEW k \in Keys, samples[k] # {}
               PROVE  /\ SlabFor(sites[k]) >= Min(samples[k] \cup {MaxSlab})
                      /\ SlabFor(sites[k]) < MaxSlab + PageSize
                      /\ sites[k] <= Max(samples[k])
    BY DEF SlabFitsSite
  <2>1. SiteAt(k) /\ sites[k] \in Int
    BY DEF RequestInv, SiteInv, SharedType
  <2>2. samples[k] \subseteq Nat \ {0}
    BY <2>1 DEF SiteAt
  <2>3. PICK lo \in samples[k], hi \in samples[k] :
          /\ \A x \in samples[k] : lo <= x /\ x <= hi
          /\ lo - 1 <= sites[k] /\ sites[k] <= hi
    BY <2>1 DEF SiteAt
  <2>4. MaxSlab \in Nat /\ PageSize \in Nat /\ PageSize >= 4
    BY TunerAssumption DEF TunerAssumption
  <2>5. Max(samples[k]) = hi
    <3>1. Max(samples[k]) \in samples[k] /\ \A y \in samples[k] : Max(samples[k]) >= y
      BY <2>2, <2>3 DEF Max
    <3> QED
      BY <2>2, <2>3, <3>1
  <2>6. Min(samples[k] \cup {MaxSlab}) <= lo /\ Min(samples[k] \cup {MaxSlab}) <= MaxSlab
        /\ Min(samples[k] \cup {MaxSlab}) \in Int
    <3> DEFINE m == IF lo <= MaxSlab THEN lo ELSE MaxSlab
    <3>1. m \in samples[k] \cup {MaxSlab} /\ \A y \in samples[k] \cup {MaxSlab} : m <= y
      BY <2>2, <2>3, <2>4
    <3>2. /\ Min(samples[k] \cup {MaxSlab}) \in samples[k] \cup {MaxSlab}
          /\ \A y \in samples[k] \cup {MaxSlab} : Min(samples[k] \cup {MaxSlab}) <= y
      BY <3>1 DEF Min
    <3> DEFINE z == Min(samples[k] \cup {MaxSlab})
    <3> HIDE DEF z, m
    <3>3. z \in samples[k] \cup {MaxSlab} /\ \A y \in samples[k] \cup {MaxSlab} : z <= y
      BY <3>2 DEF z
    <3>4. z <= lo /\ z <= MaxSlab /\ z \in Int
      BY <2>2, <2>3, <2>4, <3>3
    <3> QED
      BY <3>4 DEF z
  <2> DEFINE n == (5 * sites[k]) \div 4
  <2>7. /\ SlabFor(sites[k]) \in Nat
        /\ SlabFor(sites[k]) < MaxSlab + PageSize
        /\ SlabFor(sites[k]) >= PageSize
        /\ SlabFor(sites[k]) >= n \/ SlabFor(sites[k]) >= MaxSlab
    BY <2>1, TunerAssumption, SlabForIs
  <2>8. lo <= 4 \/ n >= lo
    <3>1. lo \in Nat /\ 5 * sites[k] \in Int /\ 5 * sites[k] >= 5 * lo - 5
      BY <2>1, <2>2, <2>3
    <3> QED
      BY <3>1
  <2> HIDE DEF n
  <2>9. n \in Int
    BY <2>1 DEF n
  <2> QED
    BY <2>2, <2>3, <2>4, <2>5, <2>6, <2>7, <2>8, <2>9
<1> QED
  BY <1>1, RequestInvariant, PTL

(***************************************************************************)
(* ReadResponseBody returns every byte in order, or an error; the body is  *)
(* closed in all cases.                                                    *)
(***************************************************************************)
THEOREM BodiesWhole == Spec => []BodyWhole
<1>1. RequestInv => BodyWhole
  <2> SUFFICES ASSUME RequestInv, NEW g \in Users
               PROVE  /\ req[g].result = "ok" => req[g].body = [i \in 1..req[g].total |-> i]
                      /\ req[g].result \in {"ok", "tooLarge"} =>
                           (req[g].result = "tooLarge" <=> req[g].total > MaxBody)
                      /\ req[g].open <=> pc[g] = "read"
    BY DEF BodyWhole
  <2>1. req[g] \in ReqType /\ ReqAt(pc[g], req[g])
    BY ReqTyped DEF RequestInv
  <2>2. req[g].total \in Nat /\ MaxBody \in Nat
    BY <2>1, RequestAssumption DEF ReqType, RequestAssumption
  <2> QED
    BY <2>1, <2>2 DEF ReqAt, Whole
<1> QED
  BY <1>1, RequestInvariant, PTL

----------------------------------------------------------------------------
(* The Session *)

Byte == Users \cup {Nobody}

\* The byte i of b is blank, or an earlier borrower left it behind.
Blanked(b, i) == mem[b][i] = Nobody \/ i \in spilled[b]

\* The slice that u holds is its alone, and holds what u wrote and blanks.
OwnSlice(u) ==
  LET b == held[u].buf
  IN  /\ b \in Buffers \ idle
      /\ held[u].len \in Nat
      /\ held[u].len <= Len(mem[b])
      /\ held[u].wrote \subseteq Nat
      /\ \A v \in Users : held[v].buf = b => v = u
      /\ \A i \in 1..Len(mem[b]) :
           IF i \in held[u].wrote THEN mem[b][i] = u ELSE Blanked(b, i)

BufferInv ==
  /\ mem \in [Buffers -> Seq(Byte)]
  /\ spilled \in [Buffers -> SUBSET Nat]
  /\ idle \subseteq Buffers
  /\ DOMAIN held = Users
  /\ \A u \in Users : held[u] = NoSlice \/ OwnSlice(u)
  /\ \A b \in idle : \A i \in 1..Len(mem[b]) : Blanked(b, i)

SessionInv == SessionAssumption /\ BufferInv

(***************************************************************************)
(* A slice whose user and buffer a step does not touch.                    *)
(***************************************************************************)
LEMMA OwnSliceKept ==
  ASSUME NEW u \in Users, OwnSlice(u), held'[u] = held[u],
         mem'[held[u].buf] = mem[held[u].buf], spilled'[held[u].buf] = spilled[held[u].buf],
         held[u].buf \notin idle',
         \A v \in Users : held'[v].buf = held[u].buf => held[v].buf = held[u].buf
  PROVE  OwnSlice(u)'
BY DEF OwnSlice, Blanked

(***************************************************************************)
(* Borrow gives u a buffer that nobody has, and which is blank.            *)
(***************************************************************************)
LEMMA Handed ==
  ASSUME SessionInv, NEW u \in Users, held[u] = NoSlice, NEW b \in Buffers, NEW n \in Nat,
         \A v \in Users : held[v].buf # b, idle' \subseteq idle \ {b}, Hand(u, b, n),
         mem' \in [Buffers -> Seq(Byte)], spilled' \in [Buffers -> SUBSET Nat],
         \A c \in Buffers \ {b} : mem'[c] = mem[c] /\ spilled'[c] = spilled[c],
         n <= Len(mem'[b]), \A i \in 1..Len(mem'[b]) : Blanked(b, i)'
  PROVE  BufferInv'
<1>1. /\ held'[u] = [NoSlice EXCEPT !.buf = b, !.len = n] /\ DOMAIN held' = Users
      /\ \A v \in Users \ {u} : held'[v] = held[v]
  BY DEF SessionInv, BufferInv, Hand
<1>2. held'[u].buf = b /\ held'[u].len = n /\ held'[u].wrote = {}
  BY <1>1 DEF NoSlice
<1>3. OwnSlice(u)'
  BY <1>1, <1>2 DEF OwnSlice
<1>4. ASSUME NEW v \in Users, v # u PROVE held'[v] = NoSlice \/ OwnSlice(v)'
  <2>1. CASE held[v] = NoSlice
    BY <1>1, <1>4, <2>1
  <2>2. CASE OwnSlice(v)
    <3>1. /\ held'[v] = held[v] /\ held[v].buf \in Buffers \ {b} /\ held[v].buf \notin idle'
          /\ \A w \in Users : held'[w].buf = held[v].buf => held[w].buf = held[v].buf
      BY <1>1, <1>2, <1>4, <2>2 DEF OwnSlice
    <3> QED
      BY <2>2, <3>1, OwnSliceKept
  <2> QED
    BY <2>1, <2>2 DEF SessionInv, BufferInv
<1>5. ASSUME NEW c \in idle', NEW i \in 1..Len(mem'[c]) PROVE Blanked(c, i)'
  <2>1. c \in idle /\ c # b /\ c \in Buffers
    BY DEF SessionInv, BufferInv
  <2>2. mem'[c] = mem[c] /\ spilled'[c] = spilled[c]
    BY <2>1
  <2> QED
    BY <2>1, <2>2 DEF SessionInv, BufferInv, Blanked
<1>6. idle' \subseteq Buffers
  BY DEF SessionInv, BufferInv
<1>7. \A v \in Users : held'[v] = NoSlice \/ OwnSlice(v)'
  BY <1>3, <1>4
<1>8. NoSlice' = NoSlice
  BY DEF NoSlice
<1> QED
  BY <1>1, <1>5, <1>6, <1>7, <1>8 DEF BufferInv

LEMMA Made ==
  ASSUME SessionInv, NEW u \in Users, held[u] = NoSlice, NEW b \in Buffers, NEW n \in Nat,
         \A v \in Users : held[v].buf # b, idle' \subseteq idle \ {b}, Make(u, b, n)
  PROVE  BufferInv'
<1> DEFINE m == [i \in 1..n |-> Nobody]
<1>1. mem' = [mem EXCEPT ![b] = m] /\ spilled' = [spilled EXCEPT ![b] = {}] /\ Hand(u, b, n)
  BY DEF Make
<1>2. m \in Seq(Byte) /\ Len(m) = n /\ \A i \in 1..n : m[i] = Nobody
  BY DEF Byte
<1> HIDE DEF m
<1>3. /\ mem' \in [Buffers -> Seq(Byte)] /\ spilled' \in [Buffers -> SUBSET Nat]
      /\ mem'[b] = m
      /\ \A c \in Buffers \ {b} : mem'[c] = mem[c] /\ spilled'[c] = spilled[c]
  BY <1>1, <1>2 DEF SessionInv, BufferInv
<1>4. n <= Len(mem'[b]) /\ \A i \in 1..Len(mem'[b]) : Blanked(b, i)'
  BY <1>2, <1>3 DEF Blanked
<1> QED
  BY <1>1, <1>3, <1>4, Handed

LEMMA BorrowMissInv ==
  ASSUME SessionInv, NEW u \in Users, NEW n \in BorrowSizes, BorrowMiss(u, n)
  PROVE  BufferInv'
<1>1. PICK b \in Free : Make(u, b, n)
  BY DEF BorrowMiss
<1>2. b \in Buffers \ idle /\ (\A v \in Users : held[v].buf # b) /\ held[u] = NoSlice /\ idle' = idle
  BY DEF BorrowMiss, Free
<1>3. n \in Nat /\ idle' \subseteq idle \ {b}
  BY <1>2 DEF SessionInv, SessionAssumption
<1> QED
  BY <1>1, <1>2, <1>3, Made

LEMMA BorrowHitInv ==
  ASSUME SessionInv, NEW u \in Users, NEW n \in BorrowSizes, NEW b \in Buffers, BorrowHit(u, b, n)
  PROVE  BufferInv'
<1>1. b \in idle /\ idle' = idle \ {b} /\ held[u] = NoSlice /\ n \in Nat
  BY DEF BorrowHit, SessionInv, SessionAssumption
<1>2. \A v \in Users : held[v].buf # b
  BY <1>1 DEF SessionInv, BufferInv, OwnSlice, NoSlice, SessionAssumption
<1>3. CASE Len(mem[b]) < n
  BY <1>1, <1>2, <1>3, Made DEF BorrowHit
<1>4. CASE ~(Len(mem[b]) < n)
  <2>1. Hand(u, b, n) /\ mem' = mem /\ spilled' = spilled
    BY <1>4 DEF BorrowHit
  <2>2. mem[b] \in Seq(Byte) /\ n <= Len(mem'[b])
    BY <1>1, <1>4, <2>1 DEF SessionInv, BufferInv
  <2>3. \A i \in 1..Len(mem'[b]) : Blanked(b, i)'
    BY <1>1, <2>1 DEF SessionInv, BufferInv, Blanked
  <2>4. mem' \in [Buffers -> Seq(Byte)] /\ spilled' \in [Buffers -> SUBSET Nat]
    BY <2>1 DEF SessionInv, BufferInv
  <2> QED
    BY <1>1, <1>2, <2>1, <2>2, <2>3, <2>4, Handed
<1> QED
  BY <1>3, <1>4

LEMMA ScribbleInv ==
  ASSUME SessionInv, NEW u \in Users, NEW i \in 1..(held[u].len + 1), NEW keep \in BOOLEAN, Scribble(u, i, keep)
  PROVE  BufferInv'
<1> SUFFICES ASSUME NEW b, b = held[u].buf PROVE BufferInv'
  OBVIOUS
<1>1. /\ OwnSlice(u) /\ b \in Buffers \ idle /\ i \in DOMAIN mem[b] /\ held[u].len \in Nat
      /\ mem[b] \in Seq(Byte) /\ held[u].wrote \subseteq Nat
  BY DEF SessionInv, BufferInv, Scribble, OwnSlice
<1>2. /\ mem' = [mem EXCEPT ![b][i] = u] /\ idle' = idle /\ spilled' = spilled
      /\ held' = [held EXCEPT ![u].wrote = @ \cup {i},
                              ![u].len = IF keep /\ i > @ THEN i ELSE @]
  BY DEF Scribble
<1>3. /\ DOMAIN held' = Users
      /\ \A v \in Users \ {u} : held'[v] = held[v]
  BY <1>2 DEF SessionInv, BufferInv
<1>4. /\ held'[u].buf = b /\ held'[u].wrote = held[u].wrote \cup {i}
      /\ held'[u].len = IF keep /\ i > held[u].len THEN i ELSE held[u].len
  BY <1>2 DEF SessionInv, BufferInv
<1>5. /\ mem' \in [Buffers -> Seq(Byte)] /\ Len(mem'[b]) = Len(mem[b])
      /\ mem'[b][i] = u /\ \A j \in 1..Len(mem[b]) : j # i => mem'[b][j] = mem[b][j]
      /\ \A c \in Buffers \ {b} : mem'[c] = mem[c]
  <2>1. mem'[b] = [mem[b] EXCEPT ![i] = u]
    BY <1>1, <1>2 DEF SessionInv, BufferInv
  <2>2. mem'[b] \in Seq(Byte) /\ Len(mem'[b]) = Len(mem[b])
    BY <1>1, <2>1 DEF Byte
  <2>3. mem' \in [Buffers -> Seq(Byte)] /\ \A c \in Buffers \ {b} : mem'[c] = mem[c]
    BY <1>1, <1>2, <2>1, <2>2 DEF SessionInv, BufferInv
  <2> QED
    BY <1>1, <2>1, <2>2, <2>3
<1>6. OwnSlice(u)'
  <2>1. i \in 1..Len(mem[b]) /\ Len(mem[b]) \in Nat
    BY <1>1
  <2>2. held'[u].len \in Nat /\ held'[u].len <= Len(mem'[b])
    BY <1>1, <1>4, <1>5, <2>1 DEF OwnSlice
  <2>3. \A v \in Users : held'[v].buf = b => v = u
    BY <1>1, <1>3 DEF OwnSlice
  <2>4. ASSUME NEW j \in 1..Len(mem'[b])
        PROVE  IF j \in held'[u].wrote THEN mem'[b][j] = u ELSE Blanked(b, j)'
    <3>1. j \in 1..Len(mem[b])
      BY <1>5
    <3>2. CASE j = i
      BY <1>4, <1>5, <3>2
    <3>3. CASE j # i
      <4>1. mem'[b][j] = mem[b][j] /\ (j \in held'[u].wrote <=> j \in held[u].wrote)
        BY <1>4, <1>5, <3>1, <3>3
      <4>2. IF j \in held[u].wrote THEN mem[b][j] = u ELSE Blanked(b, j)
        BY <1>1, <3>1 DEF OwnSlice
      <4>3. Blanked(b, j) => mem'[b][j] = Nobody \/ j \in spilled'[b]
        BY <1>2, <4>1 DEF Blanked
      <4> QED
        BY <4>1, <4>2, <4>3 DEF Blanked
    <3> QED
      BY <3>2, <3>3
  <2>5. b \in Buffers \ idle' /\ held'[u].wrote \subseteq Nat
    <3>1. i \in Nat
      BY <2>1
    <3>2. held'[u].wrote = held[u].wrote \cup {i} /\ held[u].wrote \subseteq Nat
      BY <1>1, <1>4
    <3> QED
      BY <1>1, <1>2, <3>1, <3>2
  <2> QED
    BY <1>4, <2>2, <2>3, <2>4, <2>5 DEF OwnSlice
<1>7. ASSUME NEW v \in Users, v # u PROVE held'[v] = NoSlice \/ OwnSlice(v)'
  <2>1. CASE held[v] = NoSlice
    BY <1>3, <1>7, <2>1
  <2>2. CASE OwnSlice(v)
    <3>1. held[v].buf \in Buffers \ {b}
      BY <1>1, <1>7, <2>2 DEF OwnSlice
    <3>2. \A w \in Users : held'[w].buf = held[v].buf => held[w].buf = held[v].buf
      BY <1>3, <1>4, <3>1
    <3> QED
      BY <1>2, <1>3, <1>5, <1>7, <2>2, <3>1, <3>2, OwnSliceKept DEF OwnSlice
  <2> QED
    BY <2>1, <2>2 DEF SessionInv, BufferInv
<1>8. \A c \in idle' : \A j \in 1..Len(mem'[c]) : Blanked(c, j)'
  BY <1>1, <1>2, <1>5 DEF SessionInv, BufferInv, Blanked
<1> QED
  BY <1>2, <1>3, <1>5, <1>6, <1>7, <1>8 DEF SessionInv, BufferInv, NoSlice

(***************************************************************************)
(* Release zeroes the slice it is given; what the borrower wrote beyond it *)
(* is spilled.                                                             *)
(***************************************************************************)
LEMMA ReleaseInv ==
  ASSUME SessionInv, NEW u \in Users, NEW n, Release(u, n)
  PROVE  BufferInv'
<1> SUFFICES ASSUME NEW b, b = held[u].buf PROVE BufferInv'
  OBVIOUS
<1>1. /\ OwnSlice(u) /\ b \in Buffers \ idle /\ n \in Nat
      /\ mem[b] \in Seq(Byte) /\ held[u].wrote \subseteq Nat /\ spilled[b] \subseteq Nat
  BY DEF SessionInv, BufferInv, Release, OwnSlice
<1>2. /\ DOMAIN held' = Users /\ held'[u] = NoSlice
      /\ \A v \in Users \ {u} : held'[v] = held[v]
  BY DEF Release, SessionInv, BufferInv
<1>3. /\ mem' \in [Buffers -> Seq(Byte)] /\ spilled' \in [Buffers -> SUBSET Nat]
      /\ \A c \in Buffers \ {b} : mem'[c] = mem[c] /\ spilled'[c] = spilled[c]
      /\ idle' \subseteq idle \cup {b}
      /\ b \in idle' => \A j \in 1..Len(mem'[b]) : Blanked(b, j)'
  <2>1. CASE Len(mem[b]) > MaxRetain
    <3>1. Forget({b}) /\ idle' = idle
      BY <2>1 DEF Release
    <3>2. <<>> \in Seq(Byte)
      OBVIOUS
    <3> QED
      BY <1>1, <3>1, <3>2 DEF Forget, SessionInv, BufferInv
  <2>2. CASE ~(Len(mem[b]) > MaxRetain)
    <3>1. /\ mem' = [mem EXCEPT ![b] = Zeroed(b, n)]
          /\ spilled' = [spilled EXCEPT ![b] = {i \in @ \cup held[u].wrote : i > n}]
          /\ idle' = idle \cup {b}
      BY <2>2 DEF Release
    <3> DEFINE z == Zeroed(b, n)
    <3>2. /\ z \in Seq(Byte) /\ Len(z) = Len(mem[b])
          /\ \A j \in 1..Len(mem[b]) : z[j] = IF j <= n THEN Nobody ELSE mem[b][j]
      <4>1. \A j \in 1..Len(mem[b]) : (IF j <= n THEN Nobody ELSE mem[b][j]) \in Byte
        BY <1>1 DEF Byte
      <4>2. z = [j \in 1..Len(mem[b]) |-> IF j <= n THEN Nobody ELSE mem[b][j]]
        BY <1>1 DEF Zeroed
      <4> QED
        BY <1>1, <4>1, <4>2
    <3> HIDE DEF z
    <3>3. /\ mem' \in [Buffers -> Seq(Byte)] /\ mem'[b] = z
          /\ \A c \in Buffers \ {b} : mem'[c] = mem[c] /\ spilled'[c] = spilled[c]
      BY <1>1, <3>1, <3>2 DEF SessionInv, BufferInv, z
    <3>4. /\ spilled' \in [Buffers -> SUBSET Nat]
          /\ spilled'[b] = {i \in spilled[b] \cup held[u].wrote : i > n}
      BY <1>1, <3>1 DEF SessionInv, BufferInv
    <3>5. ASSUME NEW j \in 1..Len(mem'[b]) PROVE Blanked(b, j)'
      <4>1. j \in 1..Len(mem[b])
        BY <3>2, <3>3
      <4>2. CASE j <= n
        BY <3>2, <3>3, <4>1, <4>2 DEF Blanked
      <4>3. CASE j > n
        <5>1. mem'[b][j] = mem[b][j]
          BY <1>1, <3>2, <3>3, <4>1, <4>3
        <5>2. j \in held[u].wrote \/ mem[b][j] = Nobody \/ j \in spilled[b]
          BY <4>1, <1>1 DEF OwnSlice, Blanked
        <5> QED
          BY <3>4, <4>3, <5>1, <5>2 DEF Blanked
      <4> QED
        BY <1>1, <4>2, <4>3
    <3> QED
      BY <3>1, <3>3, <3>4, <3>5
  <2> QED
    BY <2>1, <2>2
<1>4. ASSUME NEW v \in Users, v # u PROVE held'[v] = NoSlice \/ OwnSlice(v)'
  <2>1. CASE held[v] = NoSlice
    BY <1>2, <1>4, <2>1
  <2>2. CASE OwnSlice(v)
    <3>1. held[v].buf \in Buffers \ {b} /\ held[v].buf \notin idle'
      BY <1>1, <1>3, <1>4, <2>2 DEF OwnSlice
    <3>2. \A w \in Users : held'[w].buf = held[v].buf => held[w].buf = held[v].buf
      BY <1>2, <3>1 DEF NoSlice, SessionInv, SessionAssumption
    <3> QED
      BY <1>2, <1>3, <1>4, <2>2, <3>1, <3>2, OwnSliceKept
  <2> QED
    BY <2>1, <2>2 DEF SessionInv, BufferInv
<1>5. ASSUME NEW c \in idle', NEW j \in 1..Len(mem'[c]) PROVE Blanked(c, j)'
  <2>1. CASE c = b
    BY <1>3, <2>1
  <2>2. CASE c # b
    BY <1>3, <2>2 DEF SessionInv, BufferInv, Blanked
  <2> QED
    BY <2>1, <2>2
<1>6. idle' \subseteq Buffers
  BY <1>1, <1>3 DEF SessionInv, BufferInv
<1> QED
  BY <1>2, <1>3, <1>4, <1>5, <1>6 DEF BufferInv, NoSlice

LEMMA ResetSessionInv ==
  ASSUME SessionInv, ResetSession
  PROVE  BufferInv'
<1>1. /\ idle' = {} /\ held' = held
      /\ mem' = [b \in Buffers |-> IF b \in idle THEN <<>> ELSE mem[b]]
      /\ spilled' = [b \in Buffers |-> IF b \in idle THEN {} ELSE spilled[b]]
  BY DEF ResetSession, Forget
<1>2. <<>> \in Seq(Byte)
  OBVIOUS
<1>3. mem' \in [Buffers -> Seq(Byte)] /\ spilled' \in [Buffers -> SUBSET Nat]
  BY <1>1, <1>2 DEF SessionInv, BufferInv
<1>4. ASSUME NEW u \in Users, OwnSlice(u) PROVE OwnSlice(u)'
  <2>1. /\ held[u].buf \in Buffers \ idle
    BY <1>4 DEF OwnSlice
  <2>2. mem'[held[u].buf] = mem[held[u].buf] /\ spilled'[held[u].buf] = spilled[held[u].buf]
    BY <1>1, <2>1
  <2> QED
    BY <1>1, <1>4, <2>2, OwnSliceKept
<1> QED
  BY <1>1, <1>3, <1>4 DEF SessionInv, BufferInv, NoSlice

LEMMA BufferInvNext == BufferInv /\ [Next]_rvars => BufferInv'
<1> SUFFICES ASSUME BufferInv, [Next]_rvars PROVE BufferInv'
  OBVIOUS
<1>1. SessionInv
  BY SessionAssumption DEF SessionInv
<1>2. ASSUME UNCHANGED sessionVars PROVE BufferInv'
  BY <1>2 DEF sessionVars, BufferInv, OwnSlice, Blanked, NoSlice
<1>3. ASSUME NEW g \in Users, UseSession(g) PROVE BufferInv'
  <2>1. CASE \E n \in BorrowSizes : BorrowMiss(g, n)
    BY <1>1, <2>1, BorrowMissInv
  <2>2. CASE \E n \in BorrowSizes : \E b \in Buffers : BorrowHit(g, b, n)
    BY <1>1, <2>2, BorrowHitInv
  <2>3. CASE \E i \in 1..(held[g].len + 1), keep \in BOOLEAN : Scribble(g, i, keep)
    BY <1>1, <2>3, ScribbleInv
  <2>4. CASE \E n \in 0..held[g].len : Release(g, n)
    BY <1>1, <2>4, ReleaseInv
  <2>5. CASE ResetSession
    BY <1>1, <2>5, ResetSessionInv
  <2> QED
    BY <1>3, <2>1, <2>2, <2>3, <2>4, <2>5 DEF UseSession
<1>4. ASSUME NEW g \in Users, FnPanics(g) PROVE BufferInv'
  <2>1. CASE held[g] = NoSlice
    BY <1>2, <1>4, <2>1 DEF FnPanics
  <2>2. CASE held[g] # NoSlice
    BY <1>1, <1>4, <2>2, ReleaseInv DEF FnPanics
  <2> QED
    BY <2>1, <2>2
<1>5. ASSUME NEW g \in Users, CalibrateSite(g) \/ RecordSlab(g) \/ LoadHighWater(g)
                              \/ CompareAndSwapHighWater(g) PROVE BufferInv'
  BY <1>2, <1>5 DEF CalibrateSite, RecordSlab, LoadHighWater, CompareAndSwapHighWater
<1>6. ASSUME NEW g \in Users, Ordinary(g), ~FnPanics(g) PROVE BufferInv'
  <2>1. UNCHANGED sessionVars
    <3>1. CASE \E k \in Keys : WithAutoTunedScope(g, k)
      BY <3>1 DEF WithAutoTunedScope
    <3>2. CASE RecommendedSize(g)
      BY <3>2 DEF RecommendedSize
    <3>3. CASE RecordArena(g)
      BY <3>3 DEF RecordArena
    <3>4. CASE HTTPMiddleware(g)
      BY <3>4 DEF HTTPMiddleware
    <3>5. CASE EnterScope(g)
      BY <3>5 DEF EnterScope
    <3>6. CASE \E n \in ContentLengths : DoScope(g, n)
      BY <3>6 DEF DoScope
    <3>7. CASE \E n \in 0..TmpSize, err \in {"none", "EOF", "fail"} : ReadResponseBody(g, n, err)
      BY <3>7 DEF ReadResponseBody
    <3>8. CASE ExitEarly(g)
      BY <3>8 DEF ExitEarly
    <3>9. CASE FnReturns(g)
      BY <3>9 DEF FnReturns
    <3>10. CASE Leave(g)
      BY <3>10 DEF Leave
    <3>11. CASE Exit(g)
      BY <3>11 DEF Exit
    <3>12. CASE ExitPanics(g)
      BY <3>12 DEF ExitPanics
    <3>13. CASE CloseArena(g)
      BY <3>13 DEF CloseArena
    <3>14. CASE RecordFreed(g)
      BY <3>14 DEF RecordFreed
    <3> QED
      BY <1>6, <3>1, <3>2, <3>3, <3>4, <3>5, <3>6, <3>7, <3>8, <3>9, <3>10, <3>11, <3>12, <3>13, <3>14 DEF Ordinary
  <2> QED
    BY <1>2, <2>1
<1>7. ASSUME UNCHANGED rvars PROVE BufferInv'
  BY <1>2, <1>7 DEF rvars, sessionVars
<1> QED
  BY <1>3, <1>4, <1>5, <1>6, <1>7 DEF Next, Ordinary

LEMMA BufferInvInit == Init => BufferInv
<1> SUFFICES ASSUME Init PROVE BufferInv
  OBVIOUS
<1>1. /\ mem = [b \in Buffers |-> <<>>] /\ idle = {} /\ held = [u \in Users |-> NoSlice]
      /\ spilled = [b \in Buffers |-> {}]
  BY DEF Init, SessionInit
<1>2. <<>> \in Seq(Byte)
  OBVIOUS
<1> QED
  BY <1>1, <1>2 DEF BufferInv

(***************************************************************************)
(* What WithBorrow hands out is the borrower's alone: nobody else's bytes  *)
(* appear in it, except those that Release could not reach.                *)
(***************************************************************************)
THEOREM BorrowsPrivate == Spec => []BorrowPrivate
<1>1. BufferInv => BorrowPrivate
  <2> SUFFICES ASSUME BufferInv, NEW u \in Users, held[u] # NoSlice, NEW i \in 1..held[u].len
               PROVE  IF i \in held[u].wrote THEN mem[held[u].buf][i] = u
                      ELSE mem[held[u].buf][i] = Nobody \/ i \in spilled[held[u].buf]
    BY DEF BorrowPrivate
  <2>1. OwnSlice(u)
    BY DEF BufferInv
  <2>2. i \in 1..Len(mem[held[u].buf])
    <3>1. mem[held[u].buf] \in Seq(Byte)
      BY <2>1 DEF BufferInv, OwnSlice
    <3>2. held[u].len \in Nat /\ held[u].len <= Len(mem[held[u].buf]) /\ Len(mem[held[u].buf]) \in Nat
      BY <2>1, <3>1 DEF OwnSlice
    <3> QED
      BY <3>2
  <2> QED
    BY <2>1, <2>2 DEF OwnSlice, Blanked
<1>2. BufferInv /\ [Next]_rvars => BufferInv'
  BY BufferInvNext
<1>3. Init => BufferInv
  BY BufferInvInit
<1> QED
  BY <1>1, <1>2, <1>3, PTL DEF Spec
=============================================================================
